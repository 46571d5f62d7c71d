-------------------------- MODULE PacketStreamProofs --------------------------
(***************************************************************************)
(* Messages are taken in order, each once and none skipped, for any width  *)
(* of the numbers, any number of messages to a bundle and any bound on     *)
(* what is kept aside, as long as the assumption of module PacketStream    *)
(* holds.                                                                  *)
(*                                                                         *)
(* The invariant (Inv): a bundle holds the last messages sent up to it     *)
(* (SenderOK); what the receiver has taken is the first of the messages,   *)
(* in order, and what he keeps aside is still to come, under the number it *)
(* was sent with (ReceiverOK). A message that can arrive is then so near   *)
(* what is due that its number tells it from all the others: that is where *)
(* the assumption enters (ProcessOK).                                      *)
(***************************************************************************)
EXTENDS PacketStream, ListsProofs

-----------------------------------------------------------------------------
(***************************************************************************)
(* Numbers that wrap.                                                      *)
(***************************************************************************)
LEMMA WidthIs == SeqValues \in Nat /\ SeqValues > 2 /\ Half \in Nat /\ Half > 0 /\ Half < SeqValues
  BY StreamAssumption DEF Half

LEMMA ModIs ==
  ASSUME NEW x \in Int
  PROVE  x = SeqValues * (x \div SeqValues) + (x % SeqValues) /\ x \div SeqValues \in Int /\ x % SeqValues \in 0 .. SeqValues - 1
  BY WidthIs

LEMMA ModUnique ==
  ASSUME NEW x \in Int, NEW q \in Int, NEW r \in 0 .. SeqValues - 1, x = q * SeqValues + r
  PROVE  x % SeqValues = r
  BY WidthIs

LEMMA ModSmall ==
  ASSUME NEW x \in Int, -SeqValues <= x, x < SeqValues
  PROVE  x % SeqValues = IF x >= 0 THEN x ELSE x + SeqValues
<1>1. CASE x >= 0
  <2>1. x = 0 * SeqValues + x /\ x \in 0 .. SeqValues - 1
    BY <1>1, WidthIs
  <2> QED
    BY <1>1, <2>1, ModUnique
<1>2. CASE x < 0
  <2>1. x = (-1) * SeqValues + (x + SeqValues) /\ x + SeqValues \in 0 .. SeqValues - 1
    BY <1>2, WidthIs
  <2> QED
    BY <1>2, <2>1, ModUnique
<1> QED
  BY <1>1, <1>2

LEMMA ModAdd ==
  ASSUME NEW x \in Int, NEW k \in Int
  PROVE  (x + k * SeqValues) % SeqValues = x % SeqValues
<1> DEFINE q == (x \div SeqValues) + k
<1>1. x = SeqValues * (x \div SeqValues) + (x % SeqValues) /\ x \div SeqValues \in Int /\ x % SeqValues \in 0 .. SeqValues - 1
  BY ModIs
<1>2. x + k * SeqValues = q * SeqValues + (x % SeqValues) /\ q \in Int /\ x + k * SeqValues \in Int
  BY <1>1, WidthIs
<1> HIDE DEF q
<1> QED
  BY <1>1, <1>2, ModUnique

\* Differences and sums of numbers that have wrapped.
LEMMA ModDiff ==
  ASSUME NEW x \in Int, NEW y \in Int
  PROVE  ((x % SeqValues) - (y % SeqValues)) % SeqValues = (x - y) % SeqValues
<1> DEFINE k == (y \div SeqValues) - (x \div SeqValues)
<1>1. x = SeqValues * (x \div SeqValues) + (x % SeqValues) /\ x \div SeqValues \in Int /\ x % SeqValues \in 0 .. SeqValues - 1
  BY ModIs
<1>2. y = SeqValues * (y \div SeqValues) + (y % SeqValues) /\ y \div SeqValues \in Int /\ y % SeqValues \in 0 .. SeqValues - 1
  BY ModIs
<1>3. (x % SeqValues) - (y % SeqValues) = (x - y) + k * SeqValues /\ k \in Int /\ x - y \in Int
  BY <1>1, <1>2, WidthIs
<1> HIDE DEF k
<1> QED
  BY <1>3, ModAdd

LEMMA ModSum ==
  ASSUME NEW x \in Int, NEW y \in Int
  PROVE  ((x % SeqValues) + y) % SeqValues = (x + y) % SeqValues
<1> DEFINE k == -(x \div SeqValues)
<1>1. x = SeqValues * (x \div SeqValues) + (x % SeqValues) /\ x \div SeqValues \in Int /\ x % SeqValues \in 0 .. SeqValues - 1
  BY ModIs
<1>2. (x % SeqValues) + y = (x + y) + k * SeqValues /\ k \in Int /\ x + y \in Int
  BY <1>1, WidthIs
<1> HIDE DEF k
<1> QED
  BY <1>2, ModAdd

\* Two that are less than a turn apart have the same number only if they are the same.
LEMMA ModTells ==
  ASSUME NEW x \in Int, NEW y \in Int, x % SeqValues = y % SeqValues, -SeqValues < x - y, x - y < SeqValues
  PROVE  x = y
<1>1. ((x % SeqValues) - (y % SeqValues)) % SeqValues = (x - y) % SeqValues
  BY ModDiff
<1>2. x % SeqValues \in Int /\ y % SeqValues \in Int
  BY ModIs
<1>3. (x % SeqValues) - (y % SeqValues) = 0
  BY <1>2
<1>4. 0 % SeqValues = 0
  BY ModSmall, WidthIs
<1>5. (x - y) % SeqValues = 0
  BY <1>1, <1>3, <1>4
<1>6. (x - y) % SeqValues = IF x - y >= 0 THEN x - y ELSE x - y + SeqValues
  BY ModSmall, WidthIs
<1> QED
  BY <1>5, <1>6, WidthIs

-----------------------------------------------------------------------------
(***************************************************************************)
(* What the receiver keeps aside.                                          *)
(***************************************************************************)
Msg(b) == [number |-> (b - 1) % SeqValues, body |-> b]

\* Of d messages taken and n sent, those kept aside are still to come.
Early(P, d, n) ==
  /\ IsFiniteSet(DOMAIN P)
  /\ \A k \in DOMAIN P : P[k] \in d + 2 .. n /\ (P[k] - 1) % SeqValues = k

\* The k-th message after the one that is due, if it is there.
LEMMA EarlyIs ==
  ASSUME NEW P, NEW d \in Nat, NEW n \in Nat, n <= d + SeqValues, Early(P, d, n),
         NEW k \in 0 .. SeqValues - 1, (d + 1 + k) % SeqValues \in DOMAIN P
  PROVE  P[(d + 1 + k) % SeqValues] = d + 2 + k /\ d + 2 + k <= n
<1> DEFINE w == (d + 1 + k) % SeqValues
           b == P[w]
<1>1. b \in d + 2 .. n /\ (b - 1) % SeqValues = w
  BY DEF Early
<1>2. (b - 1) % SeqValues = (d + 1 + k) % SeqValues
  BY <1>1
<1> HIDE DEF w, b
<1>3. b - 1 \in Int /\ d + 1 + k \in Int /\ -SeqValues < (b - 1) - (d + 1 + k) /\ (b - 1) - (d + 1 + k) < SeqValues
  BY <1>1, WidthIs
<1>4. b - 1 = d + 1 + k
  BY <1>2, <1>3, ModTells
<1>5. b = d + 2 + k /\ d + 2 + k <= n
  BY <1>1, <1>4
<1> QED
  BY <1>5 DEF b, w

LEMMA FewEarly ==
  ASSUME NEW P, NEW d \in Nat, NEW n \in Nat, n <= d + SeqValues, Early(P, d, n)
  PROVE  /\ DOMAIN P \subseteq 0 .. SeqValues - 1 /\ d % SeqValues \notin DOMAIN P
         /\ Cardinality(DOMAIN P) \in 0 .. SeqValues - 1
<1> DEFINE due == d % SeqValues
<1>1. \A k \in DOMAIN P : k \in 0 .. SeqValues - 1
  <2> SUFFICES ASSUME NEW k \in DOMAIN P PROVE k \in 0 .. SeqValues - 1
    OBVIOUS
  <2>1. P[k] - 1 \in Int /\ (P[k] - 1) % SeqValues = k
    BY DEF Early
  <2> QED
    BY <2>1, ModIs
<1>2. due \in 0 .. SeqValues - 1
  BY ModIs
<1>3. due \notin DOMAIN P
  <2> SUFFICES ASSUME due \in DOMAIN P PROVE FALSE
    OBVIOUS
  <2> DEFINE b == P[due]
  <2>1. b \in d + 2 .. n /\ (b - 1) % SeqValues = d % SeqValues
    BY DEF Early
  <2> HIDE DEF b
  <2>2. b - 1 \in Int /\ -SeqValues < (b - 1) - d /\ (b - 1) - d < SeqValues
    BY <2>1, WidthIs
  <2>3. b - 1 = d
    BY <2>1, <2>2, ModTells
  <2> QED
    BY <2>1, <2>3
<1> HIDE DEF due
<1>4. /\ IsFiniteSet(0 .. SeqValues - 1) /\ Cardinality(0 .. SeqValues - 1) = SeqValues
  <2>1. 0 \in Int /\ SeqValues - 1 \in Int /\ ~ 0 > SeqValues - 1 /\ SeqValues - 1 - 0 + 1 = SeqValues
    BY WidthIs
  <2> QED
    BY <2>1, FS_Interval
<1>5. /\ IsFiniteSet((0 .. SeqValues - 1) \ {due})
      /\ Cardinality((0 .. SeqValues - 1) \ {due}) = SeqValues - 1
  BY <1>2, <1>4, FS_RemoveElement
<1>6. DOMAIN P \in SUBSET ((0 .. SeqValues - 1) \ {due})
  BY <1>1, <1>3
<1>7. Cardinality(DOMAIN P) <= SeqValues - 1
  BY <1>5, <1>6, FS_Subset
<1>8. Cardinality(DOMAIN P) \in Nat
  BY FS_CardinalityType DEF Early
<1> QED
  BY <1>1, <1>3, <1>7, <1>8, WidthIs DEF due

\* The first message after those that follow on.
Gap(P, d, n) == /\ (d + 1 + n) % SeqValues \notin DOMAIN P
                /\ \A k \in 0 .. n - 1 : (d + 1 + k) % SeqValues \in DOMAIN P

LEMMA GapIs ==
  ASSUME NEW P, NEW d \in Nat, NEW n \in Nat, n <= d + SeqValues, Early(P, d, n)
  PROVE  \E f \in 0 .. Cardinality(DOMAIN P) : Gap(P, d, f)
<1> DEFINE c == Cardinality(DOMAIN P)
           at(k) == (d + 1 + k) % SeqValues
           missing == {k \in 0 .. c : at(k) \notin DOMAIN P}
<1>1. c \in 0 .. SeqValues - 1 /\ IsFiniteSet(DOMAIN P) /\ c = Cardinality(DOMAIN P)
  BY FewEarly DEF Early
<1> HIDE DEF c
<1>2. ASSUME missing = {} PROVE FALSE
  <2>1. \A k \in 0 .. c : at(k) \in DOMAIN P
    BY <1>2
  <2> DEFINE f == [k \in 0 .. c |-> at(k)]
  <2>2. \A k, m \in 0 .. c : at(k) = at(m) => k = m
    <3> SUFFICES ASSUME NEW k \in 0 .. c, NEW m \in 0 .. c, at(k) = at(m) PROVE k = m
      OBVIOUS
    <3>1. d + 1 + k \in Int /\ d + 1 + m \in Int /\ -SeqValues < (d + 1 + k) - (d + 1 + m)
          /\ (d + 1 + k) - (d + 1 + m) < SeqValues
      BY <1>1, WidthIs
    <3>2. d + 1 + k = d + 1 + m
      BY <3>1, ModTells
    <3> QED
      BY <3>2, <1>1
  <2> HIDE DEF at
  <2>3. f \in Injection(0 .. c, DOMAIN P)
    BY <2>1, <2>2 DEF Injection, IsInjective
  <2>4. Cardinality(0 .. c) <= c
    BY <1>1, <2>3, FS_Injection
  <2>5. Cardinality(0 .. c) = c + 1
    <3>1. 0 \in Int /\ c \in Int /\ ~ 0 > c /\ c - 0 + 1 = c + 1
      BY <1>1
    <3> QED
      BY <3>1, FS_Interval
  <2> QED
    BY <1>1, <2>4, <2>5
<1>3. missing \in SUBSET Nat
  BY <1>1
<1>4. PICK f \in missing : \A k \in missing : f <= k
  BY <1>2, <1>3, LeastNat
<1>5. f \in 0 .. c /\ at(f) \notin DOMAIN P
  BY <1>4
<1>6. ASSUME NEW k \in 0 .. f - 1 PROVE at(k) \in DOMAIN P
  <2>1. k \in 0 .. c /\ k \in Int /\ f \in Int /\ k < f
    BY <1>1, <1>5
  <2> QED
    BY <1>4, <2>1
<1>7. Gap(P, d, f)
  BY <1>5, <1>6 DEF Gap
<1> QED
  BY <1>1, <1>5, <1>7

-----------------------------------------------------------------------------
(***************************************************************************)
(* Handling one message.                                                   *)
(***************************************************************************)
\* The receiver when n messages were sent: he has taken the first ones, in order.
ReceiverOK(s, n) ==
  /\ s = [counter |-> s.counter, pending |-> s.pending, done |-> s.done]
  /\ s.done \in Seq(Nat) /\ Len(s.done) <= n
  /\ \A i \in 1 .. Len(s.done) : s.done[i] = i
  /\ s.counter = Len(s.done) % SeqValues
  /\ Early(s.pending, Len(s.done), n)
  /\ Cardinality(DOMAIN s.pending) <= PendingMax

LEMMA TakeOK ==
  ASSUME NEW n \in Nat, NEW s, ReceiverOK(s, n), n <= Len(s.done) + SeqValues,
         NEW m, m.body = Len(s.done) + 1, Len(s.done) + 1 <= n
  PROVE  ReceiverOK(Take(s, m), n) /\ Len(Take(s, m).done) >= Len(s.done)
<1> DEFINE d == Len(s.done)
           P == s.pending
           next == (s.counter + 1) % SeqValues
           follow == CHOOSE f \in 0 .. Cardinality(DOMAIN P) :
                       /\ (next + f) % SeqValues \notin DOMAIN P
                       /\ \A k \in 0 .. f - 1 : (next + k) % SeqValues \in DOMAIN P
           taken == [k \in 1 .. follow |-> (next + k - 1) % SeqValues]
           rest == Without(P, {taken[k] : k \in 1 .. follow})
           bodies == [k \in 1 .. follow |-> P[taken[k]]]
           done == Append(s.done, m.body) \o bodies
<1>1. Take(s, m) = [counter |-> (next + follow) % SeqValues, pending |-> rest, done |-> done]
  BY DEF Take
<1>2. /\ d \in Nat /\ d = Len(s.done) /\ s.done \in Seq(Nat) /\ d + 1 <= n /\ n <= d + SeqValues
      /\ \A i \in 1 .. d : s.done[i] = i
      /\ s.counter = d % SeqValues /\ Early(P, d, n) /\ Cardinality(DOMAIN P) <= PendingMax
  BY DEF ReceiverOK
<1> HIDE DEF d
<1>a. d \in Nat /\ d \in Int /\ d + 1 <= n
  BY <1>2
<1>3. \A k \in Int : (next + k) % SeqValues = (d + 1 + k) % SeqValues
  <2> SUFFICES ASSUME NEW k \in Int PROVE (next + k) % SeqValues = (d + 1 + k) % SeqValues
    OBVIOUS
  <2>1. next = (d + 1) % SeqValues
    <3>1. d \in Int /\ 1 \in Int
      BY <1>2
    <3>2. ((d % SeqValues) + 1) % SeqValues = (d + 1) % SeqValues
      BY <3>1, ModSum
    <3> QED
      BY <1>2, <3>2
  <2> HIDE DEF next
  <2>2. (((d + 1) % SeqValues) + k) % SeqValues = ((d + 1) + k) % SeqValues
    <3>1. d + 1 \in Int
      BY <1>2
    <3> DEFINE e == d + 1
    <3> HIDE DEF e
    <3>2. e \in Int => ((e % SeqValues) + k) % SeqValues = (e + k) % SeqValues
      BY ModSum
    <3> QED
      BY <3>1, <3>2 DEF e
  <2> QED
    BY <2>1, <2>2
<1>4. next \in Int
  <2>1. d % SeqValues \in 0 .. SeqValues - 1
    BY <1>a, ModIs
  <2> DEFINE e == s.counter + 1
  <2>2. e \in Int
    BY <1>2, <2>1
  <2> HIDE DEF e
  <2>3. e % SeqValues \in 0 .. SeqValues - 1
    BY <2>2, ModIs
  <2> QED
    BY <2>3 DEF e
<1> HIDE DEF P, next
<1>5. \E f \in 0 .. Cardinality(DOMAIN P) : Gap(P, d, f)
  BY <1>2, GapIs
<1>6. \E f \in 0 .. Cardinality(DOMAIN P) :
        /\ (next + f) % SeqValues \notin DOMAIN P
        /\ \A k \in 0 .. f - 1 : (next + k) % SeqValues \in DOMAIN P
  BY <1>3, <1>5 DEF Gap
<1>7. /\ follow \in 0 .. Cardinality(DOMAIN P)
      /\ (next + follow) % SeqValues \notin DOMAIN P
      /\ \A k \in 0 .. follow - 1 : (next + k) % SeqValues \in DOMAIN P
  BY <1>6
<1>8. Cardinality(DOMAIN P) \in 0 .. SeqValues - 1 /\ DOMAIN P \subseteq 0 .. SeqValues - 1
  BY <1>2, FewEarly
<1> HIDE DEF follow
<1>9. follow \in Nat /\ follow <= SeqValues - 1
  BY <1>7, <1>8, WidthIs
<1>10. \A k \in 1 .. follow : /\ taken[k] = (d + k) % SeqValues /\ taken[k] \in DOMAIN P
                              /\ P[taken[k]] = d + 1 + k /\ d + 1 + k <= n
  <2> SUFFICES ASSUME NEW k \in 1 .. follow
               PROVE  /\ taken[k] = (d + k) % SeqValues /\ taken[k] \in DOMAIN P
                      /\ P[taken[k]] = d + 1 + k /\ d + 1 + k <= n
    OBVIOUS
  <2> DEFINE j == k - 1
  <2>1. j \in 0 .. follow - 1 /\ j \in Int /\ j \in 0 .. SeqValues - 1 /\ k = j + 1 /\ k \in Int
    BY <1>9, WidthIs
  <2>2. taken[k] = (next + j) % SeqValues
    <3>1. next + k - 1 = next + j
      BY <1>4, <1>9
    <3> QED
      BY <3>1
  <2> HIDE DEF j, taken
  <2>3. taken[k] = (d + 1 + j) % SeqValues /\ (d + 1 + j) % SeqValues \in DOMAIN P
    BY <1>3, <1>7, <2>1, <2>2
  <2>4. P[(d + 1 + j) % SeqValues] = d + 2 + j /\ d + 2 + j <= n
    <3>1. \A i \in 0 .. SeqValues - 1 :
            (d + 1 + i) % SeqValues \in DOMAIN P
              => P[(d + 1 + i) % SeqValues] = d + 2 + i /\ d + 2 + i <= n
      BY <1>2, EarlyIs, ZenonT(30)
    <3> QED
      BY <2>1, <2>3, <3>1, ZenonT(30)
  <2>5. d + 1 + j = d + k /\ d + 2 + j = d + 1 + k
    BY <1>a, <2>1
  <2> QED
    BY <2>3, <2>4, <2>5
<1> HIDE DEF taken
<1>11. /\ bodies \in Seq(Nat) /\ Len(bodies) = follow /\ \A k \in 1 .. follow : bodies[k] = d + 1 + k
  BY <1>2, <1>9, <1>10
<1> HIDE DEF bodies
<1>12. /\ done \in Seq(Nat) /\ Len(done) = d + 1 + follow
       /\ \A i \in 1 .. Len(done) : done[i] = i
  <2>1. m.body = d + 1
    BY <1>2
  <2>2. /\ Append(s.done, d + 1) \in Seq(Nat) /\ Len(Append(s.done, d + 1)) = d + 1
        /\ \A i \in 1 .. d + 1 : Append(s.done, d + 1)[i] = i
    BY <1>2
  <2> DEFINE head == Append(s.done, d + 1)
  <2>3. done = head \o bodies
    BY <2>1
  <2> HIDE DEF head, done
  <2>4. head \in Seq(Nat) /\ Len(head) = d + 1 /\ \A i \in 1 .. d + 1 : head[i] = i
    BY <2>2 DEF head
  <2>5. /\ done \in Seq(Nat) /\ Len(done) = d + 1 + follow
        /\ \A i \in 1 .. d + 1 + follow : done[i] = IF i <= d + 1 THEN head[i] ELSE bodies[i - (d + 1)]
    <3>1. /\ head \o bodies \in Seq(Nat) /\ Len(head \o bodies) = Len(head) + Len(bodies)
          /\ \A i \in 1 .. Len(head) + Len(bodies) :
               (head \o bodies)[i] = IF i <= Len(head) THEN head[i] ELSE bodies[i - Len(head)]
      BY <1>11, <2>4, ConcatProperties
    <3>2. Len(head) + Len(bodies) = d + 1 + follow
      BY <1>11, <2>4
    <3> QED
      BY <2>3, <2>4, <3>1, <3>2
  <2>6. ASSUME NEW i \in 1 .. d + 1 + follow PROVE done[i] = i
    <3>1. CASE i <= d + 1
      BY <1>a, <1>9, <2>4, <2>5, <3>1
    <3>2. CASE i > d + 1
      <4>1. i - (d + 1) \in 1 .. follow /\ done[i] = bodies[i - (d + 1)]
        BY <1>a, <1>9, <2>5, <3>2
      <4> QED
        BY <1>a, <1>9, <1>11, <4>1
    <3> QED
      BY <1>a, <1>9, <3>1, <3>2
  <2> QED
    BY <2>5, <2>6
<1>13. d + 1 + follow <= n
  <2>1. CASE follow = 0
    BY <1>2, <2>1
  <2>2. CASE follow # 0
    <3>1. follow \in 1 .. follow
      BY <1>9, <2>2
    <3> QED
      BY <1>10, <3>1
  <2> QED
    BY <2>1, <2>2
<1>14. DOMAIN rest = DOMAIN P \ {taken[k] : k \in 1 .. follow} /\ \A k \in DOMAIN rest : rest[k] = P[k]
  BY DEF Without
<1> HIDE DEF rest, done
<1>15. IsFiniteSet(DOMAIN rest) /\ Cardinality(DOMAIN rest) <= PendingMax
  <2>1. DOMAIN rest \in SUBSET DOMAIN P /\ IsFiniteSet(DOMAIN P)
    BY <1>2, <1>14 DEF Early
  <2>2. IsFiniteSet(DOMAIN rest) /\ Cardinality(DOMAIN rest) <= Cardinality(DOMAIN P)
    BY <2>1, FS_Subset
  <2>3. Cardinality(DOMAIN rest) \in Nat /\ Cardinality(DOMAIN P) \in Nat
    BY <2>1, <2>2, FS_CardinalityType
  <2> QED
    BY <1>2, <2>2, <2>3, StreamAssumption
<1>16. ASSUME NEW k \in DOMAIN rest
       PROVE  rest[k] \in (d + 1 + follow) + 2 .. n /\ (rest[k] - 1) % SeqValues = k
  <2> DEFINE b == P[k]
  <2>1. k \in DOMAIN P /\ rest[k] = b /\ b \in d + 2 .. n /\ (b - 1) % SeqValues = k
    BY <1>2, <1>14 DEF Early
  <2>2. \A j \in 1 .. follow : k # (d + j) % SeqValues
    BY <1>10, <1>14
  <2>3. k # (d + 1 + follow) % SeqValues
    BY <1>3, <1>7, <1>9, <2>1
  <2> HIDE DEF b
  <2>4. b # d + 2 + follow
    <3> SUFFICES ASSUME b = d + 2 + follow PROVE FALSE
      OBVIOUS
    <3>1. b - 1 = d + 1 + follow
      BY <1>2, <1>9
    <3> QED
      BY <2>1, <2>3, <3>1
  <2>5. \A j \in 1 .. follow : b # d + 1 + j
    <3> SUFFICES ASSUME NEW j \in 1 .. follow, b = d + 1 + j PROVE FALSE
      OBVIOUS
    <3>1. b - 1 = d + j
      BY <1>2, <1>9
    <3> QED
      BY <2>1, <2>2, <3>1
  <2>6. b >= d + 3 + follow
    <3> SUFFICES ASSUME b < d + 3 + follow PROVE FALSE
      BY <1>2, <1>9, <2>1
    <3>1. b - (d + 1) \in 1 .. follow \/ b = d + 2 + follow
      BY <1>2, <1>9, <2>1
    <3>2. b = d + 1 + (b - (d + 1))
      BY <1>2, <2>1
    <3> QED
      BY <2>4, <2>5, <3>1, <3>2
  <2> QED
    BY <1>2, <1>9, <2>1, <2>6
<1>17. (next + follow) % SeqValues = (d + 1 + follow) % SeqValues
  BY <1>3, <1>9
<1>18. Early(rest, Len(done), n)
  BY <1>12, <1>15, <1>16 DEF Early
<1> DEFINE t == [counter |-> (next + follow) % SeqValues, pending |-> rest, done |-> done]
<1>19. t.counter = Len(done) % SeqValues /\ t.pending = rest /\ t.done = done
  BY <1>12, <1>17
<1>20. ReceiverOK(t, n) /\ Len(t.done) >= d
  BY <1>2, <1>9, <1>12, <1>13, <1>15, <1>18, <1>19 DEF ReceiverOK
<1> HIDE DEF t
<1>21. Take(s, m) = t
  BY <1>1 DEF t
<1> QED
  BY <1>2, <1>20, <1>21

LEMMA KeepOK ==
  ASSUME NEW n \in Nat, NEW s, ReceiverOK(s, n),
         NEW b \in Len(s.done) + 2 .. n, Cardinality(DOMAIN s.pending) < PendingMax
  PROVE  ReceiverOK(Keep(s, Msg(b)), n) /\ Len(Keep(s, Msg(b)).done) >= Len(s.done)
<1> DEFINE w == (b - 1) % SeqValues
           P == s.pending
           Q == [k \in DOMAIN P \cup {w} |-> IF k = w THEN b ELSE P[k]]
           t == [counter |-> s.counter, pending |-> Q, done |-> s.done]
<1>1. Msg(b).number = w /\ Msg(b).body = b
  BY DEF Msg
<1>2. Len(s.done) \in Nat
  BY DEF ReceiverOK
<1>3. CASE w \in DOMAIN P
  <2>1. Keep(s, Msg(b)) = s
    BY <1>1, <1>3 DEF Keep
  <2> QED
    BY <1>2, <2>1
<1>4. CASE w \notin DOMAIN P
  <2>1. Keep(s, Msg(b)) = [s EXCEPT !.pending = Q]
    BY <1>1, <1>4 DEF Keep
  <2>2. s = [counter |-> s.counter, pending |-> P, done |-> s.done]
    BY DEF ReceiverOK
  <2> HIDE DEF Q, P
  <2>3. Keep(s, Msg(b)) = t
    BY <2>1, <2>2
  <2>4. t.counter = s.counter /\ t.pending = Q /\ t.done = s.done
    OBVIOUS
  <2>5. /\ Early(P, Len(s.done), n) /\ P = s.pending
    BY DEF ReceiverOK, P
  <2>6. /\ DOMAIN Q = DOMAIN P \cup {w} /\ Q[w] = b
        /\ \A k \in DOMAIN P : Q[k] = P[k]
    BY <1>4 DEF Q, P
  <2>7. IsFiniteSet(DOMAIN Q) /\ Cardinality(DOMAIN Q) <= PendingMax
    <3>1. IsFiniteSet(DOMAIN P) /\ Cardinality(DOMAIN P) \in Nat
      BY <2>5, FS_CardinalityType DEF Early
    <3>2. IsFiniteSet(DOMAIN P \cup {w}) /\ Cardinality(DOMAIN P \cup {w}) = Cardinality(DOMAIN P) + 1
      BY <1>4, <3>1, FS_AddElement DEF P
    <3>3. Cardinality(DOMAIN P) + 1 <= PendingMax
      BY <3>1, <2>5, StreamAssumption
    <3> QED
      BY <2>6, <3>2, <3>3
  <2>8. (b - 1) % SeqValues = w
    OBVIOUS
  <2> HIDE DEF w, t
  <2>9. Early(Q, Len(s.done), n)
    BY <2>5, <2>6, <2>7, <2>8 DEF Early
  <2>10. t = [counter |-> t.counter, pending |-> t.pending, done |-> t.done]
    BY <2>4 DEF t
  <2>11. ReceiverOK(t, n)
    BY <2>4, <2>7, <2>9, <2>10 DEF ReceiverOK
  <2> QED
    BY <1>2, <2>3, <2>4, <2>11
<1> QED
  BY <1>3, <1>4

\* A message sent not too long ago is taken if it is due, kept if it is still to come, and
\* ignored if it was taken, though other messages have had its number.
LEMMA ProcessOK ==
  ASSUME NEW n \in Nat, NEW s, ReceiverOK(s, n), n <= Len(s.done) + MaxAhead,
         NEW b \in 1 .. n, n - b < Lifetime + RecentPackets - 1
  PROVE  ReceiverOK(Process(s, Msg(b)), n) /\ Len(Process(s, Msg(b)).done) >= Len(s.done)
<1> DEFINE d == Len(s.done)
           due == Msg(b).number = s.counter
           new == is_future_message(Msg(b).number, s.counter) /\ Cardinality(DOMAIN s.pending) < PendingMax
<1>1. d \in Nat /\ d <= n /\ n <= d + SeqValues /\ s.counter = d % SeqValues
  BY StreamAssumption DEF ReceiverOK
<1>2. Msg(b).number = (b - 1) % SeqValues /\ Msg(b).body = b
  BY DEF Msg
<1> DEFINE x == b - 1
<1>3. x \in Int /\ x - d >= Half - SeqValues /\ x - d < SeqValues /\ x - d > -SeqValues /\ b = x + 1
  <2>1. d \in Nat /\ d <= n /\ n <= d + SeqValues
    BY <1>1
  <2>2. /\ Half \in Nat /\ SeqValues \in Nat /\ Half > 0 /\ Lifetime \in Nat /\ RecentPackets \in Nat
        /\ Lifetime + RecentPackets - 1 <= SeqValues - Half
    BY WidthIs, StreamAssumption
  <2> HIDE DEF d
  <2> QED
    BY <2>1, <2>2
<1>4. CASE due
  <2>1. x % SeqValues = d % SeqValues
    BY <1>1, <1>2, <1>4
  <2> HIDE DEF d, x
  <2>2. x = d
    BY <1>1, <1>3, <2>1, ModTells
  <2>3. b = d + 1 /\ d + 1 <= n
    BY <1>1, <1>3, <2>2
  <2>4. Msg(b).body = Len(s.done) + 1 /\ Len(s.done) + 1 <= n
    BY <1>2, <2>3 DEF d
  <2>5. Process(s, Msg(b)) = Take(s, Msg(b))
    <3>1. s.counter \in Int
      <4>1. d \in Int /\ s.counter = d % SeqValues
        BY <1>1
      <4>2. d % SeqValues \in 0 .. SeqValues - 1
        BY <4>1, ModIs
      <4> QED
        BY <4>1, <4>2
    <3>2. (s.counter - s.counter) % SeqValues = 0
      BY <3>1, WidthIs, ModSmall
    <3>3. ~ is_future_message(Msg(b).number, s.counter)
      BY <1>4, <3>2 DEF is_future_message
    <3> QED
      BY <1>4, <3>3 DEF Process
  <2>6. n <= Len(s.done) + SeqValues
    BY <1>1 DEF d
  <2> QED
    BY <2>4, <2>5, <2>6, TakeOK
<1>5. CASE ~ due /\ new
  <2>1. ((x % SeqValues) - (d % SeqValues)) % SeqValues \in 1 .. Half - 1
    BY <1>1, <1>2, <1>5 DEF is_future_message
  <2> HIDE DEF d, x
  <2>2. (x - d) % SeqValues \in 1 .. Half - 1
    BY <1>1, <1>3, <2>1, ModDiff
  <2> DEFINE y == x - d
  <2>3. y \in Int /\ y >= Half - SeqValues /\ y < SeqValues /\ -SeqValues <= y /\ y = x - d
    BY <1>1, <1>3, WidthIs
  <2>4. y % SeqValues \in 1 .. Half - 1
    BY <2>2
  <2> HIDE DEF y
  <2>5. y % SeqValues = IF y >= 0 THEN y ELSE y + SeqValues
    BY <2>3, ModSmall
  <2>6. y >= 1
    BY <2>3, <2>4, <2>5, WidthIs
  <2>7. b \in d + 2 .. n
    BY <1>1, <1>3, <2>3, <2>6
  <2>8. Process(s, Msg(b)) = Keep(s, Msg(b))
    BY <1>5 DEF Process
  <2> QED
    BY <1>5, <2>7, <2>8, KeepOK DEF d
<1>6. CASE ~ due /\ ~ new
  <2>1. Process(s, Msg(b)) = s
    BY <1>6 DEF Process
  <2> QED
    BY <1>1, <2>1
<1> QED
  BY <1>4, <1>5, <1>6

-----------------------------------------------------------------------------
(***************************************************************************)
(* Handling a bundle: the recursive function of the action exists, and the *)
(* receiver is in order after each of its messages.                        *)
(***************************************************************************)
Along(bundle, start, s) ==
  s = [i \in 0 .. Len(bundle) |-> IF i > 0 THEN Process(s[i - 1], bundle[i]) ELSE start]

Through(bundle, start) == CHOOSE s : Along(bundle, start, s)

\* As far as m, the states that the messages lead through.
Upto(bundle, start, m, s) ==
  /\ s[0] = start
  /\ \A i \in 1 .. m : s[i] = Process(s[i - 1], bundle[i])

LEMMA UptoExists ==
  ASSUME NEW bundle, NEW start, NEW len \in Nat
  PROVE  \A m \in 0 .. len : \E s : s = [i \in 0 .. m |-> s[i]] /\ Upto(bundle, start, m, s)
<1> DEFINE Fine(m) == \E s : s = [i \in 0 .. m |-> s[i]] /\ Upto(bundle, start, m, s)
           bad == {m \in 0 .. len : ~ Fine(m)}
<1>1. Fine(0)
  <2> DEFINE s == [i \in 0 .. 0 |-> start]
  <2>1. s = [i \in 0 .. 0 |-> s[i]] /\ s[0] = start
    OBVIOUS
  <2>2. Upto(bundle, start, 0, s)
    BY <2>1 DEF Upto
  <2> QED
    BY <2>1, <2>2
<1>2. ASSUME NEW m \in 0 .. len, m > 0, Fine(m - 1) PROVE Fine(m)
  <2>1. PICK r : r = [i \in 0 .. m - 1 |-> r[i]] /\ Upto(bundle, start, m - 1, r)
    BY <1>2
  <2> DEFINE s == [i \in 0 .. m |-> IF i < m THEN r[i] ELSE Process(r[m - 1], bundle[m])]
  <2>2. m \in Nat /\ m - 1 \in 0 .. m
    BY <1>2
  <2>3. /\ \A i \in 0 .. m - 1 : s[i] = r[i]
        /\ s[m] = Process(r[m - 1], bundle[m])
        /\ s = [i \in 0 .. m |-> s[i]]
    BY <2>2
  <2> HIDE DEF s
  <2>4. s[0] = start
    <3>1. 0 \in 0 .. m - 1
      BY <1>2
    <3> QED
      BY <2>1, <2>3, <3>1 DEF Upto
  <2>5. ASSUME NEW i \in 1 .. m PROVE s[i] = Process(s[i - 1], bundle[i])
    <3>1. CASE i < m
      <4>1. i \in 1 .. m - 1 /\ i \in 0 .. m - 1 /\ i - 1 \in 0 .. m - 1
        BY <2>2, <3>1
      <4> QED
        BY <2>1, <2>3, <4>1 DEF Upto
    <3>2. CASE i = m
      <4>1. m - 1 \in 0 .. m - 1
        BY <2>2
      <4> QED
        BY <2>3, <3>2, <4>1
    <3> QED
      BY <2>2, <3>1, <3>2
  <2>6. Upto(bundle, start, m, s)
    BY <2>4, <2>5 DEF Upto
  <2> QED
    BY <2>3, <2>6
<1> HIDE DEF Fine
<1>3. ASSUME bad # {} PROVE FALSE
  <2>1. bad \in SUBSET Nat
    OBVIOUS
  <2>2. PICK m \in bad : \A k \in bad : m <= k
    BY <1>3, <2>1, LeastNat
  <2>3. m \in 0 .. len /\ ~ Fine(m)
    BY <2>2
  <2>4. m # 0
    BY <1>1, <2>3
  <2>5. m - 1 \in 0 .. len /\ m > 0 /\ ~ (m <= m - 1)
    BY <2>3, <2>4
  <2>6. Fine(m - 1)
    BY <2>2, <2>5
  <2> QED
    BY <1>2, <2>3, <2>5, <2>6
<1>4. \A m \in 0 .. len : Fine(m)
  BY <1>3
<1> QED
  BY <1>4 DEF Fine

LEMMA ThroughIs ==
  ASSUME NEW bundle, NEW start, Len(bundle) \in Nat
  PROVE  /\ Through(bundle, start)[0] = start
         /\ \A i \in 1 .. Len(bundle) :
              Through(bundle, start)[i] = Process(Through(bundle, start)[i - 1], bundle[i])
<1> DEFINE n == Len(bundle)
<1>0. \A m \in 0 .. n : \E s : s = [i \in 0 .. m |-> s[i]] /\ Upto(bundle, start, m, s)
  BY UptoExists
<1>a. n \in Nat /\ n \in 0 .. n
  OBVIOUS
<1> HIDE DEF n
<1>1. PICK s : s = [i \in 0 .. n |-> s[i]] /\ Upto(bundle, start, n, s)
  BY <1>0, <1>a
<1>2. \A i \in 0 .. n : s[i] = IF i > 0 THEN Process(s[i - 1], bundle[i]) ELSE start
  BY <1>1 DEF Upto, n
<1> DEFINE r == [i \in 0 .. n |-> IF i > 0 THEN Process(s[i - 1], bundle[i]) ELSE start]
<1>3. s = r
  <2>1. \A i \in 0 .. n : s[i] = r[i]
    BY <1>2
  <2>2. r = [i \in 0 .. n |-> r[i]]
    OBVIOUS
  <2> HIDE DEF r
  <2>3. [i \in 0 .. n |-> s[i]] = [i \in 0 .. n |-> r[i]]
    BY <2>1
  <2> QED
    BY <1>1, <2>2, <2>3
<1>4. Along(bundle, start, s)
  BY <1>3 DEF Along, n
<1>5. Along(bundle, start, Through(bundle, start))
  BY <1>4 DEF Through
<1> DEFINE t == Through(bundle, start)
<1> HIDE DEF t
<1>6. t = [i \in 0 .. n |-> IF i > 0 THEN Process(t[i - 1], bundle[i]) ELSE start]
  BY <1>5 DEF Along, t, n
<1>7. \A i \in 0 .. n : t[i] = IF i > 0 THEN Process(t[i - 1], bundle[i]) ELSE start
  BY <1>6
<1>8. t[0] = start /\ \A i \in 1 .. n : t[i] = Process(t[i - 1], bundle[i])
  BY <1>a, <1>7
<1> QED
  BY <1>8 DEF t, n
-----------------------------------------------------------------------------
(***************************************************************************)
(* The sender.                                                             *)
(***************************************************************************)
\* How many messages the i-th bundle holds: the i-th, and those before it.
Held(i) == IF i < RecentPackets THEN i ELSE RecentPackets

Message == [number : 0 .. SeqValues - 1, body : Nat]

SenderOK ==
  /\ bundles \in Seq(Seq(Message)) /\ recent_packets \in Seq(Message)
  /\ send_count = Sent % SeqValues
  /\ Len(recent_packets) = Held(Sent)
  /\ \A j \in 1 .. Held(Sent) : recent_packets[j] = Msg(Sent - Held(Sent) + j)
  /\ \A i \in 1 .. Sent : /\ Len(bundles[i]) = Held(i)
                          /\ \A j \in 1 .. Held(i) : bundles[i][j] = Msg(i - j + 1)

LEMMA HeldIs ==
  ASSUME NEW i \in Nat
  PROVE  Held(i) \in 0 .. RecentPackets /\ Held(i) <= i /\ (i > 0 => Held(i) > 0)
  BY StreamAssumption DEF Held

LEMMA MsgIs ==
  ASSUME NEW b \in Nat
  PROVE  Msg(b) \in Message
<1>1. (b - 1) % SeqValues \in 0 .. SeqValues - 1
  <2>1. b - 1 \in Int
    OBVIOUS
  <2> QED
    BY <2>1, ModIs
<1> QED
  BY <1>1 DEF Msg, Message

\* A bundle goes out with the message that is new and those before it.
LEMMA SendOK ==
  ASSUME SenderOK, make_send_packet
  PROVE  SenderOK' /\ Sent \in Nat /\ Sent' = Sent + 1
<1> DEFINE n == Sent
           h == Held(n)
           g == Held(n + 1)
           kept == Recent(recent_packets)
           m == [number |-> send_count, body |-> n + 1]
           rp == Append(kept, m)
           bundle == Reverse(rp)
<1>1. n \in Nat /\ h \in Nat /\ g \in Nat /\ h <= n /\ RecentPackets \in Nat \ {0}
  <2>1. n \in Nat
    BY DEF SenderOK, Sent
  <2>2. n + 1 \in Nat
    BY <2>1
  <2> HIDE DEF n
  <2>3. h \in 0 .. RecentPackets /\ h <= n /\ g \in 0 .. RecentPackets
    BY <2>1, <2>2, HeldIs
  <2> HIDE DEF h, g
  <2> QED
    BY <2>1, <2>3, StreamAssumption
<1>2. g = IF h < RecentPackets THEN h + 1 ELSE h
  BY <1>1 DEF Held
<1>3. h <= RecentPackets /\ (h >= RecentPackets <=> n >= RecentPackets)
  BY <1>1 DEF Held
<1>4. m = Msg(n + 1) /\ m \in Message
  <2>1. n + 1 - 1 = n
    BY <1>1
  <2>2. m = Msg(n + 1)
    <3>1. send_count = n % SeqValues
      BY DEF SenderOK
    <3> HIDE DEF n
    <3>2. (n + 1 - 1) % SeqValues = send_count
      BY <2>1, <3>1
    <3>3. Msg(n + 1) = [number |-> (n + 1 - 1) % SeqValues, body |-> n + 1]
      BY <1>1 DEF Msg
    <3> QED
      BY <3>2, <3>3, Zenon DEF m
  <2>3. n + 1 \in Nat
    BY <1>1
  <2> HIDE DEF n, m
  <2> QED
    BY <2>2, <2>3, MsgIs
<1> HIDE DEF m
<1>5. /\ kept \in Seq(Message) /\ Len(kept) = g - 1
      /\ \A j \in 1 .. g - 1 : kept[j] = Msg(n + 1 - g + j)
  <2>1. /\ recent_packets \in Seq(Message) /\ Len(recent_packets) = h
        /\ \A j \in 1 .. h : recent_packets[j] = Msg(n - h + j)
    BY DEF SenderOK
  <2>2. CASE h < RecentPackets
    <3>1. kept = recent_packets /\ g - 1 = h
      BY <1>1, <1>2, <2>1, <2>2 DEF Recent
    <3>2. n + 1 - g = n - h
      BY <1>1, <1>2, <2>2
    <3> HIDE DEF n, h, g, kept
    <3> QED
      BY <2>1, <3>1, <3>2
  <2>3. CASE h >= RecentPackets
    <3>1. kept = Tail(recent_packets) /\ g = h /\ recent_packets # <<>>
      BY <1>1, <1>2, <2>1, <2>3 DEF Recent
    <3> HIDE DEF n, h, g, kept
    <3>2. /\ kept \in Seq(Message) /\ Len(kept) = h - 1
          /\ \A j \in 1 .. h - 1 : kept[j] = recent_packets[j + 1]
      BY <1>1, <2>1, <3>1
    <3>3. ASSUME NEW j \in 1 .. h - 1 PROVE kept[j] = Msg(n + 1 - g + j)
      <4>1. j + 1 \in 1 .. h /\ n - h + (j + 1) = n + 1 - g + j
        BY <1>1, <3>1
      <4>2. recent_packets[j + 1] = Msg(n - h + (j + 1))
        BY <2>1, <4>1
      <4> QED
        BY <3>2, <4>1, <4>2
    <3> QED
      BY <3>1, <3>2, <3>3
  <2> QED
    BY <1>1, <1>3, <2>2, <2>3
<1> HIDE DEF kept
<1>6. g \in Nat /\ g > 0
  BY <1>1, <1>2
<1> HIDE DEF h, g, n
<1>7. /\ rp \in Seq(Message) /\ Len(rp) = g
      /\ \A j \in 1 .. g : rp[j] = Msg(n + 1 - g + j)
  <2>1. /\ rp \in Seq(Message) /\ Len(rp) = g /\ rp[g] = m
        /\ \A j \in 1 .. g - 1 : rp[j] = kept[j]
    BY <1>4, <1>5, <1>6
  <2>2. n + 1 - g + g = n + 1
    BY <1>1, <1>6
  <2>3. ASSUME NEW j \in 1 .. g PROVE rp[j] = Msg(n + 1 - g + j)
    <3>1. CASE j = g
      BY <1>4, <2>1, <2>2, <3>1
    <3>2. CASE j # g
      <4>1. j \in 1 .. g - 1
        BY <1>6, <3>2
      <4> QED
        BY <1>5, <2>1, <4>1
    <3> QED
      BY <3>1, <3>2
  <2> QED
    BY <2>1, <2>3
<1> HIDE DEF rp
<1>8. /\ bundle \in Seq(Message) /\ Len(bundle) = g
      /\ \A j \in 1 .. g : bundle[j] = Msg(n + 1 - j + 1)
  <2>1. /\ bundle \in Seq(Message) /\ Len(bundle) = g
        /\ \A j \in 1 .. g : bundle[j] = rp[(g - j) + 1]
    BY <1>6, <1>7 DEF Reverse
  <2>2. ASSUME NEW j \in 1 .. g PROVE bundle[j] = Msg(n + 1 - j + 1)
    <3>1. (g - j) + 1 \in 1 .. g /\ n + 1 - g + ((g - j) + 1) = n + 1 - j + 1
      BY <1>1, <1>6
    <3>2. rp[(g - j) + 1] = Msg(n + 1 - g + ((g - j) + 1))
      BY <1>7, <3>1
    <3> QED
      BY <2>1, <3>1, <3>2
  <2> QED
    BY <2>1, <2>2
<1> HIDE DEF bundle
<1>9. recent_packets' = rp /\ bundles' = Append(bundles, bundle) /\ send_count' = (send_count + 1) % SeqValues
  BY DEF make_send_packet, rp, bundle, kept, m, n
<1>10. bundles \in Seq(Seq(Message)) /\ Len(bundles) = n /\ send_count = n % SeqValues
  BY DEF SenderOK, n, Sent
<1>11. /\ bundles' \in Seq(Seq(Message)) /\ Len(bundles') = n + 1 /\ bundles'[n + 1] = bundle
       /\ \A i \in 1 .. n : bundles'[i] = bundles[i]
  BY <1>1, <1>8, <1>9, <1>10
<1>12. Sent' = n + 1
  BY <1>11 DEF Sent
<1>13. send_count' = (n + 1) % SeqValues
  <2>1. n \in Int /\ 1 \in Int
    BY <1>1
  <2> QED
    BY <1>9, <1>10, <2>1, ModSum
<1>14. ASSUME NEW i \in 1 .. n + 1
       PROVE  /\ Len(bundles'[i]) = Held(i)
              /\ \A j \in 1 .. Held(i) : bundles'[i][j] = Msg(i - j + 1)
  <2>1. CASE i = n + 1
    <3>1. Held(i) = g
      BY <2>1 DEF g
    <3>2. bundles'[i] = bundle
      BY <1>11, <2>1
    <3>3. \A j \in 1 .. g : bundle[j] = Msg(i - j + 1)
      BY <1>1, <1>8, <2>1
    <3> QED
      BY <1>8, <3>1, <3>2, <3>3
  <2>2. CASE i # n + 1
    <3>1. i \in 1 .. n
      BY <1>1, <2>2
    <3> QED
      BY <1>11, <3>1 DEF SenderOK, n
  <2> QED
    BY <2>1, <2>2
<1>15. SenderOK'
  <2>1. recent_packets' \in Seq(Message) /\ Len(recent_packets') = g
        /\ \A j \in 1 .. g : recent_packets'[j] = Msg(n + 1 - g + j)
    BY <1>7, <1>9
  <2>2. g = Held(n + 1)
    BY DEF g
  <2>3. send_count' = Sent' % SeqValues
    BY <1>12, <1>13
  <2>4. Len(recent_packets') = Held(Sent')
    BY <1>12, <2>1, <2>2
  <2>5. \A j \in 1 .. Held(Sent') : recent_packets'[j] = Msg(Sent' - Held(Sent') + j)
    <3>1. Held(Sent') = g
      BY <1>12, <2>2
    <3> QED
      BY <1>1, <1>12, <2>1, <3>1
  <2>6. \A i \in 1 .. Sent' : /\ Len(bundles'[i]) = Held(i)
                              /\ \A j \in 1 .. Held(i) : bundles'[i][j] = Msg(i - j + 1)
    BY <1>12, <1>14
  <2> QED
    BY <1>11, <2>1, <2>3, <2>4, <2>5, <2>6 DEF SenderOK
<1> QED
  BY <1>1, <1>12, <1>15 DEF n
-----------------------------------------------------------------------------
(***************************************************************************)
(* The receiver.                                                           *)
(***************************************************************************)
Advanced(s, n, d) == ReceiverOK(s, n) /\ Len(s.done) >= d

\* However late a bundle arrives within its lifetime, the receiver is in order after it.
LEMMA BundleOK ==
  ASSUME NEW n \in Nat, NEW start, ReceiverOK(start, n), n <= Len(start.done) + MaxAhead,
         NEW i \in 1 .. n, n - i < Lifetime,
         NEW bundle, Len(bundle) = Held(i), \A j \in 1 .. Held(i) : bundle[j] = Msg(i - j + 1)
  PROVE  Advanced(Through(bundle, start)[Len(bundle)], n, Len(start.done))
<1> DEFINE len == Len(bundle)
           d == Len(start.done)
           t == Through(bundle, start)
           bad == {m \in 0 .. len : ~ Advanced(t[m], n, d)}
<1>1. d \in Nat /\ n <= d + MaxAhead
  BY DEF ReceiverOK
<1>2. len \in Nat /\ len <= i /\ len <= RecentPackets /\ RecentPackets \in Nat /\ Lifetime \in Nat /\ MaxAhead \in Nat
  <2>1. i \in Nat /\ RecentPackets \in Nat /\ Lifetime \in Nat /\ MaxAhead \in Nat
    BY StreamAssumption
  <2>2. Held(i) \in 0 .. RecentPackets /\ Held(i) <= i
    BY <2>1, HeldIs
  <2> QED
    BY <2>1, <2>2
<1>3. t[0] = start /\ \A m \in 1 .. len : t[m] = Process(t[m - 1], bundle[m])
  BY <1>2, ThroughIs
<1>4. \A m \in 1 .. len : bundle[m] = Msg(i - m + 1)
  OBVIOUS
<1> HIDE DEF t, len
<1>5. Advanced(t[0], n, d)
  BY <1>1, <1>3 DEF Advanced
<1> HIDE DEF d
<1>6. ASSUME NEW m \in 1 .. len, Advanced(t[m - 1], n, d)
      PROVE  Advanced(t[m], n, d)
  <2> DEFINE b == i - m + 1
             s == t[m - 1]
  <2>1. b \in 1 .. n /\ n - b < Lifetime + RecentPackets - 1
    BY <1>2
  <2>2. t[m] = Process(s, Msg(b))
    BY <1>3, <1>4
  <2>3. ReceiverOK(s, n) /\ Len(s.done) >= d
    BY <1>6 DEF Advanced
  <2> HIDE DEF b, s
  <2>4. n <= Len(s.done) + MaxAhead /\ Len(s.done) \in Nat
    <3>1. Len(s.done) \in Nat
      BY <2>3 DEF ReceiverOK
    <3> QED
      BY <1>1, <1>2, <2>3, <3>1
  <2>5. ReceiverOK(Process(s, Msg(b)), n) /\ Len(Process(s, Msg(b)).done) >= Len(s.done)
    BY <2>1, <2>3, <2>4, ProcessOK
  <2>6. ReceiverOK(t[m], n) /\ Len(t[m].done) >= Len(s.done)
    BY <2>2, <2>5
  <2>7. Len(t[m].done) \in Nat
    BY <2>6 DEF ReceiverOK
  <2>8. Len(t[m].done) >= d
    BY <1>1, <2>3, <2>4, <2>6, <2>7
  <2> QED
    BY <2>6, <2>8 DEF Advanced
<1>7. ASSUME bad # {} PROVE FALSE
  <2>1. bad \in SUBSET Nat
    BY <1>2
  <2>2. PICK m \in bad : \A k \in bad : m <= k
    BY <1>7, <2>1, LeastNat
  <2>3. m \in 0 .. len /\ ~ Advanced(t[m], n, d)
    OBVIOUS
  <2>4. m # 0
    BY <1>5, <2>3
  <2>5. m \in 1 .. len /\ m - 1 \in 0 .. len /\ ~ (m <= m - 1)
    BY <1>2, <2>3, <2>4
  <2>6. Advanced(t[m - 1], n, d)
    BY <2>2, <2>5
  <2> QED
    BY <1>6, <2>3, <2>5, <2>6
<1>8. len \in 0 .. len
  BY <1>2
<1>9. Advanced(t[len], n, d)
  BY <1>7, <1>8
<1> QED
  BY <1>9 DEF t, d, len

\* What is in order stays so when more has been sent.
LEMMA SentMore ==
  ASSUME NEW n \in Nat, NEW s, ReceiverOK(s, n)
  PROVE  ReceiverOK(s, n + 1)
<1>1. Len(s.done) \in Nat /\ Len(s.done) <= n + 1
  BY DEF ReceiverOK
<1>2. Early(s.pending, Len(s.done), n + 1)
  <2> DEFINE d == Len(s.done)
             P == s.pending
  <2>1. IsFiniteSet(DOMAIN P) /\ \A k \in DOMAIN P : P[k] \in d + 2 .. n /\ (P[k] - 1) % SeqValues = k
    BY DEF ReceiverOK, Early
  <2>2. d \in Nat
    BY <1>1
  <2> HIDE DEF d, P
  <2>3. \A k \in DOMAIN P : P[k] \in d + 2 .. n + 1
    BY <2>1, <2>2
  <2> QED
    BY <2>1, <2>3 DEF Early, d, P
<1> QED
  BY <1>1, <1>2 DEF ReceiverOK

Now == [counter |-> packet_counter, pending |-> pending, done |-> delivered]

LEMMA NowIs ==
  /\ Now.counter = packet_counter /\ Now.pending = pending /\ Now.done = delivered
  /\ (Now.counter)' = packet_counter' /\ (Now.pending)' = pending' /\ (Now.done)' = delivered'
  BY DEF Now

\* With nothing kept aside any more the receiver is still in order.
LEMMA ForgetOK ==
  ASSUME NEW n \in Nat, ReceiverOK(Now, n), NEW P, P = pending \/ P = [k \in {} |-> 0]
  PROVE  ReceiverOK([counter |-> packet_counter, pending |-> P, done |-> delivered], n)
<1>1. CASE P = pending
  BY <1>1 DEF Now
<1>2. CASE P # pending
  <2>1. DOMAIN P = {}
    BY <1>2
  <2>2. IsFiniteSet(DOMAIN P) /\ Cardinality(DOMAIN P) = 0
    BY <2>1, FS_EmptySet
  <2>3. Early(P, Len(delivered), n)
    BY <2>1, <2>2 DEF Early
  <2>4. Cardinality(DOMAIN P) <= PendingMax
    BY <2>2, StreamAssumption
  <2> DEFINE s == [counter |-> packet_counter, pending |-> P, done |-> delivered]
  <2>5. s.counter = packet_counter /\ s.pending = P /\ s.done = delivered
        /\ s = [counter |-> s.counter, pending |-> s.pending, done |-> s.done]
    OBVIOUS
  <2> HIDE DEF s
  <2>6. ReceiverOK(s, n)
    BY <2>3, <2>4, <2>5, NowIs DEF ReceiverOK
  <2> QED
    BY <2>6 DEF s
<1> QED
  BY <1>1, <1>2

-----------------------------------------------------------------------------
(***************************************************************************)
(* The invariant.                                                          *)
(***************************************************************************)
Inv == SenderOK /\ ReceiverOK(Now, Sent) /\ Sent <= Len(delivered) + MaxAhead

LEMMA InitInv == Init => Inv
<1> SUFFICES ASSUME Init PROVE Inv
  OBVIOUS
<1>1. Sent = 0 /\ Len(recent_packets) = 0 /\ Len(delivered) = 0
  BY DEF Init, Sent
<1>2. 0 % SeqValues = 0
  BY WidthIs, ModSmall
<1>3. Held(0) = 0
  BY StreamAssumption DEF Held
<1>4. SenderOK
  <2>1. bundles \in Seq(Seq(Message)) /\ recent_packets \in Seq(Message)
    BY DEF Init
  <2>2. send_count = Sent % SeqValues
    BY <1>1, <1>2 DEF Init
  <2> QED
    BY <1>1, <1>3, <2>1, <2>2 DEF SenderOK
<1>5. ReceiverOK(Now, 0)
  <2> DEFINE P == [n \in {} |-> 0]
  <2>1. DOMAIN P = {} /\ pending = P
    BY DEF Init
  <2> HIDE DEF P
  <2>2. IsFiniteSet(DOMAIN pending) /\ Cardinality(DOMAIN pending) = 0
    BY <2>1, FS_EmptySet
  <2>3. Early(pending, 0, 0)
    BY <2>1, <2>2 DEF Early
  <2>4. Cardinality(DOMAIN pending) <= PendingMax
    BY <2>2, StreamAssumption
  <2>5. delivered \in Seq(Nat) /\ Len(delivered) = 0 /\ packet_counter = 0
    BY <1>1 DEF Init
  <2>6. packet_counter = Len(delivered) % SeqValues
    BY <1>2, <2>5
  <2>7. Now = [counter |-> Now.counter, pending |-> Now.pending, done |-> Now.done]
    BY DEF Now
  <2>8. \A i \in 1 .. Len(delivered) : delivered[i] = i
    BY <2>5
  <2> QED
    BY <2>3, <2>4, <2>5, <2>6, <2>7, <2>8, NowIs DEF ReceiverOK
<1> QED
  BY <1>1, <1>4, <1>5, StreamAssumption DEF Inv

\* A message sent: the bound on how far the sender gets ahead is what the guard keeps.
LEMMA SendInv ==
  ASSUME Inv, make_send_packet
  PROVE  Inv' /\ delivered' = delivered /\ Sent' = Sent + 1
<1>1. SenderOK' /\ Sent \in Nat /\ Sent' = Sent + 1
  BY SendOK DEF Inv
<1>2. packet_counter' = packet_counter /\ pending' = pending /\ delivered' = delivered
      /\ Sent < Len(delivered) + MaxAhead
  BY DEF make_send_packet, receiver
<1>3. Now' = Now
  BY <1>2 DEF Now
<1>4. ReceiverOK(Now, Sent + 1)
  BY <1>1, SentMore DEF Inv
<1>5. ReceiverOK(Now', Sent')
  BY <1>1, <1>3, <1>4
<1>6. Len(delivered) \in Nat /\ MaxAhead \in Nat
  BY NowIs, StreamAssumption DEF Inv, ReceiverOK
<1>7. Sent' <= Len(delivered') + MaxAhead
  BY <1>1, <1>2, <1>6
<1> QED
  BY <1>1, <1>2, <1>5, <1>7 DEF Inv
\* A bundle arrives: the action is what BundleOK is about.
LEMMA ArriveInv ==
  ASSUME Inv, NEW i \in Sent - Lifetime + 1 .. Sent, Arrive(i)
  PROVE  Inv' /\ Len(delivered') >= Len(delivered) /\ Sent' = Sent
<1> DEFINE bundle == bundles[i]
           P == IF Restart(bundle) THEN [n \in {} |-> 0] ELSE pending
           start == [counter |-> packet_counter, pending |-> P, done |-> delivered]
           t == Through(bundle, start)
<1>1. Sent \in Nat /\ i \in 1 .. Sent /\ Sent - i < Lifetime
  <2>1. Sent \in Nat /\ DOMAIN bundles = 1 .. Sent
    BY DEF Inv, SenderOK, Sent
  <2>2. i \in DOMAIN bundles
    BY DEF Arrive
  <2>3. Lifetime \in Nat
    BY StreamAssumption
  <2> QED
    BY <2>1, <2>2, <2>3
<1>2. Len(bundle) = Held(i) /\ \A j \in 1 .. Held(i) : bundle[j] = Msg(i - j + 1)
  BY <1>1 DEF Inv, SenderOK
<1>3. Len(bundle) \in Nat
  <2>1. i \in Nat
    BY <1>1
  <2>2. Held(i) \in 0 .. RecentPackets
    BY <2>1, HeldIs
  <2> QED
    BY <1>2, <2>2
<1>4. process_packet_in_session(bundle)
  BY DEF Arrive
<1>5. /\ packet_counter' = t[Len(bundle)].counter
      /\ pending' = t[Len(bundle)].pending
      /\ delivered' = t[Len(bundle)].done
      /\ UNCHANGED sender
  BY <1>4 DEF process_packet_in_session, Through, Along
<1>6. P = pending \/ P = [n \in {} |-> 0]
  OBVIOUS
<1> HIDE DEF bundle, P
<1>7. ReceiverOK(start, Sent) /\ start.done = delivered
  BY <1>1, <1>6, ForgetOK DEF Inv
<1> HIDE DEF start
<1>8. Sent <= Len(start.done) + MaxAhead
  BY <1>7 DEF Inv
<1>9. Advanced(t[Len(bundle)], Sent, Len(start.done))
  BY <1>1, <1>2, <1>7, <1>8, BundleOK
<1> DEFINE s == t[Len(bundle)]
<1> HIDE DEF t
<1>10. ReceiverOK(s, Sent) /\ Len(s.done) >= Len(delivered)
  BY <1>7, <1>9 DEF Advanced
<1>11. Now' = s
  <2>1. Now' = [counter |-> s.counter, pending |-> s.pending, done |-> s.done]
    BY <1>5 DEF Now
  <2>2. s = [counter |-> s.counter, pending |-> s.pending, done |-> s.done]
    BY <1>10 DEF ReceiverOK
  <2> QED
    BY <2>1, <2>2
<1>12. Len(delivered') >= Len(delivered) /\ Len(delivered') \in Nat
  BY <1>5, <1>10 DEF ReceiverOK
<1> HIDE DEF s
<1>13. Sent' = Sent /\ SenderOK'
  <2>1. send_count' = send_count /\ recent_packets' = recent_packets /\ bundles' = bundles
    BY <1>5 DEF sender
  <2> QED
    BY <2>1 DEF Inv, SenderOK, Sent
<1>14. ReceiverOK(Now', Sent')
  BY <1>10, <1>11, <1>13
<1>15. Sent' <= Len(delivered') + MaxAhead
  <2>1. Sent <= Len(delivered) + MaxAhead /\ Len(delivered) \in Nat /\ MaxAhead \in Nat
    BY NowIs, StreamAssumption DEF Inv, ReceiverOK
  <2> QED
    BY <1>1, <1>12, <1>13, <2>1
<1> QED
  BY <1>12, <1>13, <1>14, <1>15 DEF Inv

LEMMA NextInv == Inv /\ [Next]_stream => Inv'
<1> SUFFICES ASSUME Inv, [Next]_stream PROVE Inv'
  OBVIOUS
<1>1. CASE make_send_packet
  BY <1>1, SendInv
<1>2. ASSUME NEW i \in Sent - Lifetime + 1 .. Sent, Arrive(i) PROVE Inv'
  BY <1>2, ArriveInv
<1>3. CASE UNCHANGED stream
  <2>1. /\ send_count' = send_count /\ recent_packets' = recent_packets /\ bundles' = bundles
        /\ packet_counter' = packet_counter /\ pending' = pending /\ delivered' = delivered
    BY <1>3 DEF stream, sender, receiver
  <2>2. SenderOK' /\ Sent' = Sent
    BY <2>1 DEF Inv, SenderOK, Sent
  <2>3. Now' = Now
    BY <2>1 DEF Now
  <2>4. ReceiverOK(Now', Sent')
    BY <2>2, <2>3 DEF Inv
  <2> QED
    BY <2>1, <2>2, <2>4 DEF Inv
<1> QED
  BY <1>1, <1>2, <1>3 DEF Next

\* In every reachable state the last bundles hold what was sent last, and the receiver
\* has taken the first of the messages and keeps only later ones.
LEMMA SpecInv == Spec => []Inv
<1>1. Spec => Init /\ [][Next]_stream
  BY PTL DEF Spec
<1> QED
  BY <1>1, InitInv, NextInv, PTL

-----------------------------------------------------------------------------
(***************************************************************************)
(* What follows.                                                           *)
(***************************************************************************)
LEMMA InvTypeOK == Inv => TypeOK
<1> SUFFICES ASSUME Inv PROVE TypeOK
  OBVIOUS
<1>1. Sent \in Nat /\ Sent <= Len(delivered) + SeqValues /\ Len(delivered) \in Nat
  <2>1. Sent \in Nat
    BY DEF Inv, SenderOK, Sent
  <2>2. Len(delivered) \in Nat /\ Sent <= Len(delivered) + MaxAhead
    BY NowIs DEF Inv, ReceiverOK
  <2> QED
    BY <2>1, <2>2, StreamAssumption
<1>2. send_count \in 0 .. SeqValues - 1
  <2>1. send_count = Sent % SeqValues
    BY DEF Inv, SenderOK
  <2>2. Sent \in Int
    BY <1>1
  <2>3. Sent % SeqValues \in 0 .. SeqValues - 1
    BY <2>2, ModIs
  <2> QED
    BY <2>1, <2>3
<1>3. packet_counter \in 0 .. SeqValues - 1
  <2>1. packet_counter = Len(delivered) % SeqValues
    BY NowIs DEF Inv, ReceiverOK
  <2>2. Len(delivered) \in Int
    BY <1>1
  <2>3. Len(delivered) % SeqValues \in 0 .. SeqValues - 1
    BY <2>2, ModIs
  <2> QED
    BY <2>1, <2>3
<1>4. Len(recent_packets) <= RecentPackets
  <2>1. Len(recent_packets) = Held(Sent)
    BY DEF Inv, SenderOK
  <2>2. Held(Sent) \in 0 .. RecentPackets
    BY <1>1, HeldIs
  <2> QED
    BY <2>1, <2>2
<1>5. ASSUME NEW s \in Seq(Message) PROVE Messages(s)
  <2>1. \A i \in DOMAIN s : s[i] \in Message
    OBVIOUS
  <2>2. \A m \in Message : m.number \in 0 .. SeqValues - 1 /\ m.body \in Nat
    BY DEF Message
  <2> QED
    BY <2>1, <2>2 DEF Messages
<1>6. Messages(recent_packets) /\ \A i \in DOMAIN bundles : Messages(bundles[i])
  <2>1. recent_packets \in Seq(Message) /\ \A i \in DOMAIN bundles : bundles[i] \in Seq(Message)
    BY DEF Inv, SenderOK
  <2> QED
    BY <1>5, <2>1
<1>7. DOMAIN pending \subseteq 0 .. SeqValues - 1
  <2>1. Early(pending, Len(delivered), Sent)
    BY NowIs DEF Inv, ReceiverOK
  <2> QED
    BY <1>1, <2>1, FewEarly
<1>8. Cardinality(DOMAIN pending) <= PendingMax
  BY NowIs DEF Inv, ReceiverOK
<1> QED
  BY <1>2, <1>3, <1>4, <1>6, <1>7, <1>8 DEF TypeOK

\* Numbers keep to their width and `pending` to its bound, whatever is lost, repeated or
\* late (kaillera/protocol.rs, main.rs).
THEOREM StreamTypesHold == Spec => []TypeOK
  BY SpecInv, InvTypeOK, PTL

\* What is kept aside is a message not yet taken, under the number it was sent with:
\* never one that an old message has been taken for.
THEOREM KeptMessagesAreAhead == Spec => []PendingIsAhead
<1>1. Inv => PendingIsAhead
  BY NowIs DEF Inv, ReceiverOK, Early, PendingIsAhead
<1> QED
  BY <1>1, SpecInv, PTL

\* The stream is a channel that keeps the order: over any loss, repetition and delay
\* within a bundle's lifetime, messages are taken in order, each once and none skipped.
THEOREM MessagesKeepTheirOrder == Spec => KeepsOrder
<1> DEFINE A == Channel!Send \/ Channel!Deliver
<1>1. Init => Channel!Init
  BY DEF Init, Sent, Channel!Init
<1>2. Inv /\ [Next]_stream => [A]_(Channel!channel)
  <2> SUFFICES ASSUME Inv, [Next]_stream PROVE A \/ UNCHANGED <<Sent, delivered>>
    BY DEF Channel!channel
  <2>1. CASE make_send_packet
    BY <2>1, SendInv DEF Channel!Send
  <2>2. ASSUME NEW i \in Sent - Lifetime + 1 .. Sent, Arrive(i)
        PROVE  A \/ UNCHANGED <<Sent, delivered>>
    <3>1. Inv' /\ Len(delivered') >= Len(delivered) /\ Sent' = Sent
      BY <2>2, ArriveInv
    <3>2. /\ delivered \in Seq(Nat) /\ \A j \in 1 .. Len(delivered) : delivered[j] = j
      BY NowIs DEF Inv, ReceiverOK
    <3>3. ReceiverOK(Now', Sent')
      BY <3>1 DEF Inv
    <3>4. /\ delivered' \in Seq(Nat) /\ Len(delivered') <= Sent
          /\ \A j \in 1 .. Len(delivered') : delivered'[j] = j
      BY <3>1, <3>3, NowIs DEF ReceiverOK
    <3> DEFINE n == Len(delivered')
    <3>5. delivered' = [j \in 1 .. n |-> j] /\ n \in Nat
      BY <3>4
    <3>6. CASE n = Len(delivered)
      <4>1. delivered = [j \in 1 .. n |-> j]
        BY <3>2, <3>6
      <4> QED
        BY <3>1, <3>5, <4>1
    <3>7. CASE n # Len(delivered)
      <4>1. Sent \in Nat /\ Len(delivered) \in Nat
        BY <3>2 DEF Inv, SenderOK, Sent
      <4>2. n \in Len(delivered) + 1 .. Sent
        BY <3>1, <3>4, <3>5, <3>7, <4>1
      <4>3. Channel!Deliver
        BY <3>1, <3>5, <4>2 DEF Channel!Deliver
      <4> QED
        BY <4>3
    <3> QED
      BY <3>6, <3>7
  <2>3. CASE UNCHANGED stream
    BY <2>3 DEF stream, sender, receiver, Sent
  <2> QED
    BY <2>1, <2>2, <2>3 DEF Next
<1>3. Spec => Init /\ [][Next]_stream
  BY PTL DEF Spec
<1> QED
  BY <1>1, <1>2, <1>3, SpecInv, PTL DEF KeepsOrder, Channel!Spec

================================================================================
