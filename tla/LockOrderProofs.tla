---------------------------- MODULE LockOrderProofs ----------------------------
(***************************************************************************)
(* No tasks wait for each other in a circle, however many there are, as    *)
(* long as the spans that may be under way together take their locks along *)
(* one order. The spans of the code have such an order if either the end   *)
(* of a game or the status for a login is set aside, and not with both.    *)
(*                                                                         *)
(* The invariant (Inv): a task has a lock at most once (OneEach); what its *)
(* span has yet to take comes after all it has, in the order of the crew   *)
(* (Planned); and if it waits, then for the last of what it has (WaitsLast)*)
(* So of the tasks in a circle take one that waits for the highest lock,   *)
(* and of those the first in its queue: whom it waits for waits for a      *)
(* higher lock, or is before it.                                           *)
(***************************************************************************)
EXTENDS LockOrder, ListsProofs

Request == [lock : Locks, mode : {"read", "write", "free"}]
Entry == [task : Tasks, mode : {"read", "write"}]

\* What is taken along span s comes after l, unless l is let go before.
Above(rank, l, s) ==
  \A j \in DOMAIN s : s[j].mode # "free" =>
    rank[l] < rank[s[j].lock] \/ \E i \in 1 .. j - 1 : s[i] = Free(l)

InOrder(rank, s) ==
  \A i, j \in DOMAIN s : i < j /\ s[i].mode # "free" /\ s[j].mode # "free" =>
    \/ rank[s[i].lock] < rank[s[j].lock]
    \/ \E k \in i + 1 .. j - 1 : s[k] = Free(s[i].lock)

Orders(rank, c) ==
  \A span \in c : span \in Seq(Request) /\ span # <<>> /\ InOrder(rank, span)

Ranks == [Locks -> Nat]
OrderedCrew(c) == \E rank \in Ranks : Orders(rank, c)
RankOf(c) == CHOOSE rank \in Ranks : Orders(rank, c)
Rank == RankOf(crew)

LockTypeOK == /\ crew \in Crews
              /\ todo \in [Tasks -> Seq(Request)]
              /\ queue \in [Locks -> Seq(Entry)]

OneEach == \A l \in Locks : \A i, j \in DOMAIN queue[l] :
             queue[l][i].task = queue[l][j].task => i = j

Planned == \A t \in Tasks : /\ InOrder(Rank, todo[t])
                            /\ \A l \in Requested(t) : Above(Rank, l, todo[t])

WaitsLast == \A t \in Tasks : \A l, m \in Requested(t) :
               Ahead(t, l) # {} /\ m # l => Rank[m] < Rank[l]

Inv == LockTypeOK /\ OneEach /\ Planned /\ WaitsLast

-----------------------------------------------------------------------------
(***************************************************************************)
(* A queue that some requests have left.                                   *)
(***************************************************************************)
Shrinks(new, old) ==
  \A k, m \in DOMAIN new : \E i, j \in DOMAIN old :
    /\ new[k] = old[i] /\ new[m] = old[j]
    /\ k < m => i < j
    /\ i = j => k = m

LEMMA Released ==
  ASSUME NEW t, NEW l \in Locks, queue[l] \in Seq(Entry)
  PROVE  /\ Without(l, t) \in Seq(Entry) /\ Shrinks(Without(l, t), queue[l])
         /\ \A k \in DOMAIN Without(l, t) : Without(l, t)[k].task # t
<1> DEFINE old == queue[l]
           I == {i \in DOMAIN old : old[i].task # t}
           new == Kept(old, I)
<1>1. Without(l, t) = new
  BY DEF Without
<1>2. old \in Seq(Entry) /\ I \in SUBSET DOMAIN old /\ \A i \in I : old[i].task # t
  OBVIOUS
<1> HIDE DEF old, I, new
<1>3. new \in Seq(Entry) /\ \A k \in DOMAIN new : Nth(I, k) \in I /\ new[k] = old[Nth(I, k)]
  BY <1>2, KeptIs DEF new
<1>4. \A k, m \in DOMAIN new : /\ k < m => Nth(I, k) < Nth(I, m)
                               /\ Nth(I, k) = Nth(I, m) => k = m
  BY <1>2, KeptInOrder DEF new
<1>5. Shrinks(new, old)
  <2> SUFFICES ASSUME NEW k \in DOMAIN new, NEW m \in DOMAIN new
               PROVE  \E i, j \in DOMAIN old : /\ new[k] = old[i] /\ new[m] = old[j]
                                               /\ k < m => i < j
                                               /\ i = j => k = m
    BY DEF Shrinks
  <2>1. Nth(I, k) \in DOMAIN old /\ Nth(I, m) \in DOMAIN old
    BY <1>2, <1>3
  <2> QED
    BY <1>3, <1>4, <2>1
<1>6. \A k \in DOMAIN new : new[k].task # t
  BY <1>2, <1>3
<1> QED
  BY <1>1, <1>3, <1>5, <1>6 DEF old

\* Then a task has, and waits for, no more than before.
LEMMA LessWaiting ==
  ASSUME NEW l \in Locks, Shrinks(queue'[l], queue[l]), NEW t
  PROVE  /\ l \in Requested(t)' => l \in Requested(t)
         /\ Ahead(t, l)' \subseteq Ahead(t, l)
<1>1. l \in Requested(t)' => l \in Requested(t)
  BY DEF Requested, Shrinks
<1>2. ASSUME NEW u \in Ahead(t, l)' PROVE u \in Ahead(t, l)
  <2>1. PICK k \in DOMAIN queue'[l], m \in DOMAIN queue'[l] :
          /\ u = queue'[l][k].task /\ k < m /\ queue'[l][m].task = t
          /\ "write" \in {queue'[l][k].mode, queue'[l][m].mode}
    BY <1>2 DEF Ahead
  <2>2. PICK i \in DOMAIN queue[l], j \in DOMAIN queue[l] :
          /\ queue'[l][k] = queue[l][i] /\ queue'[l][m] = queue[l][j]
          /\ k < m => i < j
    BY DEF Shrinks
  <2>3. /\ u = queue[l][i].task /\ i < j /\ queue[l][j].task = t
        /\ "write" \in {queue[l][i].mode, queue[l][j].mode}
    BY <2>1, <2>2
  <2>4. QED
    BY <2>3 DEF Ahead
<1>3. QED
  BY <1>1, <1>2

\* A queue that one more request has joined: only its task can wait for more.
LEMMA MoreWaiting ==
  ASSUME NEW l \in Locks, NEW t, NEW r, queue[l] \in Seq(Entry), r \in Entry,
         queue'[l] = Append(queue[l], r), r.task # t
  PROVE  /\ l \in Requested(t)' => l \in Requested(t)
         /\ Ahead(t, l)' \subseteq Ahead(t, l)
<1> DEFINE n == Len(queue[l])
<1>1. /\ n \in Nat /\ DOMAIN queue[l] = 1 .. n /\ DOMAIN queue'[l] = 1 .. n + 1
      /\ \A k \in 1 .. n : queue'[l][k] = queue[l][k]
      /\ queue'[l][n + 1] = r
  OBVIOUS
<1> HIDE DEF n
<1>2. \A m \in DOMAIN queue'[l] : queue'[l][m].task = t =>
        m \in 1 .. n /\ queue'[l][m] = queue[l][m]
  BY <1>1
<1>3. l \in Requested(t)' => l \in Requested(t)
  BY <1>1, <1>2 DEF Requested
<1>4. ASSUME NEW u \in Ahead(t, l)' PROVE u \in Ahead(t, l)
  <2>1. PICK k \in DOMAIN queue'[l], m \in DOMAIN queue'[l] :
          /\ u = queue'[l][k].task /\ k < m /\ queue'[l][m].task = t
          /\ "write" \in {queue'[l][k].mode, queue'[l][m].mode}
    BY <1>4 DEF Ahead
  <2>2. m \in 1 .. n /\ k \in 1 .. n
    BY <1>1, <1>2, <2>1
  <2>3. QED
    BY <1>1, <2>1, <2>2 DEF Ahead
<1>5. QED
  BY <1>3, <1>4

-----------------------------------------------------------------------------
(***************************************************************************)
(* What is left of a span when its first step is taken.                    *)
(***************************************************************************)
LEMMA TailOf ==
  ASSUME NEW s \in Seq(Request), s # <<>>
  PROVE  /\ Tail(s) \in Seq(Request) /\ Head(s) = s[1] /\ Head(s) \in Request
         /\ 1 \in DOMAIN s
         /\ \A j \in DOMAIN Tail(s) : j + 1 \in DOMAIN s /\ Tail(s)[j] = s[j + 1] /\ j \in Nat \ {0}
         /\ \A j \in DOMAIN s : j \in Nat \ {0}
         /\ \A j \in DOMAIN s : \A i \in 1 .. j - 1 : i \in DOMAIN s
         /\ \A i \in DOMAIN s : i # 1 => i - 1 \in DOMAIN Tail(s) /\ Tail(s)[i - 1] = s[i]
OBVIOUS

LEMMA AboveTail ==
  ASSUME NEW rank \in Ranks, NEW l \in Locks, NEW s \in Seq(Request), s # <<>>,
         Head(s) # Free(l), Above(rank, l, s)
  PROVE  Above(rank, l, Tail(s))
<1> SUFFICES ASSUME NEW j \in DOMAIN Tail(s), Tail(s)[j].mode # "free",
                    ~ (rank[l] < rank[Tail(s)[j].lock])
             PROVE  \E i \in 1 .. j - 1 : Tail(s)[i] = Free(l)
  BY DEF Above
<1>1. j + 1 \in DOMAIN s /\ Tail(s)[j] = s[j + 1] /\ j \in Nat \ {0}
  BY TailOf
<1>2. PICK i \in 1 .. (j + 1) - 1 : s[i] = Free(l)
  BY <1>1 DEF Above
<1>3. i # 1 /\ i \in DOMAIN s
  BY <1>1, <1>2, TailOf
<1>4. i - 1 \in DOMAIN Tail(s) /\ Tail(s)[i - 1] = s[i] /\ i - 1 \in 1 .. j - 1
  BY <1>1, <1>3, TailOf
<1> QED
  BY <1>2, <1>4

LEMMA HeadAbove ==
  ASSUME NEW rank \in Ranks, NEW s \in Seq(Request), s # <<>>,
         Head(s).mode # "free", InOrder(rank, s)
  PROVE  Above(rank, Head(s).lock, Tail(s))
<1> SUFFICES ASSUME NEW j \in DOMAIN Tail(s), Tail(s)[j].mode # "free",
                    ~ (rank[Head(s).lock] < rank[Tail(s)[j].lock])
             PROVE  \E i \in 1 .. j - 1 : Tail(s)[i] = Free(Head(s).lock)
  BY DEF Above
<1>1. /\ j + 1 \in DOMAIN s /\ Tail(s)[j] = s[j + 1] /\ j \in Nat \ {0}
      /\ 1 \in DOMAIN s /\ Head(s) = s[1]
  BY TailOf
<1>2. PICK i \in 1 + 1 .. (j + 1) - 1 : s[i] = Free(s[1].lock)
  BY <1>1 DEF InOrder
<1>3. i # 1 /\ i \in DOMAIN s
  BY <1>1, <1>2, TailOf
<1>4. i - 1 \in DOMAIN Tail(s) /\ Tail(s)[i - 1] = s[i] /\ i - 1 \in 1 .. j - 1
  BY <1>1, <1>3, TailOf
<1> QED
  BY <1>1, <1>2, <1>4

LEMMA TailInOrder ==
  ASSUME NEW rank \in Ranks, NEW s \in Seq(Request), s # <<>>, InOrder(rank, s)
  PROVE  InOrder(rank, Tail(s))
<1> SUFFICES ASSUME NEW i \in DOMAIN Tail(s), NEW j \in DOMAIN Tail(s), i < j,
                    Tail(s)[i].mode # "free", Tail(s)[j].mode # "free",
                    ~ (rank[Tail(s)[i].lock] < rank[Tail(s)[j].lock])
             PROVE  \E k \in i + 1 .. j - 1 : Tail(s)[k] = Free(Tail(s)[i].lock)
  BY DEF InOrder
<1>1. /\ i + 1 \in DOMAIN s /\ Tail(s)[i] = s[i + 1] /\ i \in Nat \ {0}
      /\ j + 1 \in DOMAIN s /\ Tail(s)[j] = s[j + 1] /\ j \in Nat \ {0}
  BY TailOf
<1>2. PICK k \in (i + 1) + 1 .. (j + 1) - 1 : s[k] = Free(s[i + 1].lock)
  BY <1>1 DEF InOrder
<1>3. k # 1 /\ k \in DOMAIN s
  BY <1>1, <1>2, TailOf
<1>4. k - 1 \in DOMAIN Tail(s) /\ Tail(s)[k - 1] = s[k] /\ k - 1 \in i + 1 .. j - 1
  BY <1>1, <1>3, TailOf
<1> QED
  BY <1>1, <1>2, <1>4

\* The next step is not for a lock that the task has.
LEMMA NextIsHigher ==
  ASSUME NEW rank \in Ranks, NEW l \in Locks, NEW s \in Seq(Request), s # <<>>,
         Head(s).mode # "free", Above(rank, l, s)
  PROVE  rank[l] < rank[Head(s).lock] /\ Head(s).lock # l
<1>1. 1 \in DOMAIN s /\ Head(s) = s[1] /\ Head(s) \in Request
  BY TailOf
<1>2. ~ \E i \in 1 .. 1 - 1 : s[i] = Free(l)
  OBVIOUS
<1>3. rank[l] < rank[Head(s).lock]
  BY <1>1, <1>2 DEF Above
<1>4. rank[l] \in Nat
  BY DEF Ranks
<1> QED
  BY <1>3, <1>4

-----------------------------------------------------------------------------
(***************************************************************************)
(* The steps.                                                              *)
(***************************************************************************)
\* A step that lets requests go, at l all of t's: at the end of a span, and by Free.
LEMMA ReleaseKeepsInv ==
  ASSUME Inv, UNCHANGED crew, Rank \in Ranks,
         queue' \in [Locks -> Seq(Entry)], \A l \in Locks : Shrinks(queue'[l], queue[l]),
         todo' \in [Tasks -> Seq(Request)],
         \A t \in Tasks : /\ InOrder(Rank, todo'[t])
                          /\ \A l \in Requested(t)' : Above(Rank, l, todo'[t])
  PROVE  Inv'
<1>1. Rank' = Rank
  BY DEF Rank
<1>2. LockTypeOK'
  BY DEF Inv, LockTypeOK
<1>3. OneEach'
  <2> SUFFICES ASSUME NEW l \in Locks, NEW k \in DOMAIN queue'[l], NEW m \in DOMAIN queue'[l],
                      queue'[l][k].task = queue'[l][m].task
               PROVE  k = m
    BY DEF OneEach
  <2>1. PICK i \in DOMAIN queue[l], j \in DOMAIN queue[l] :
          /\ queue'[l][k] = queue[l][i] /\ queue'[l][m] = queue[l][j]
          /\ i = j => k = m
    BY DEF Shrinks
  <2> QED
    BY <2>1 DEF Inv, OneEach
<1>4. Planned'
  BY <1>1 DEF Planned
<1>5. WaitsLast'
  <2> SUFFICES ASSUME NEW t \in Tasks, NEW l \in Requested(t)', NEW m \in Requested(t)',
                      Ahead(t, l)' # {}, m # l
               PROVE  Rank[m] < Rank[l]
    BY <1>1 DEF WaitsLast
  <2>1. l \in Locks /\ m \in Locks
    BY DEF Requested
  <2>2. l \in Requested(t) /\ m \in Requested(t) /\ Ahead(t, l) # {}
    BY <2>1, LessWaiting
  <2> QED
    BY <2>2 DEF Inv, WaitsLast
<1> QED
  BY <1>2, <1>3, <1>4, <1>5 DEF Inv

\* The next step of a span, by a task that waits for nobody.
LEMMA TakeKeepsInv ==
  ASSUME Inv, Rank \in Ranks, NEW t \in Tasks, NEW span \in Seq(Request), span # <<>>,
         InOrder(Rank, span), \A l \in Requested(t) : Above(Rank, l, span),
         WaitsFor(t) = {}, Take(t, span)
  PROVE  Inv'
<1> DEFINE next == Head(span)
           lock == next.lock
<1>1. /\ queue \in [Locks -> Seq(Entry)] /\ todo \in [Tasks -> Seq(Request)]
      /\ next \in Request /\ lock \in Locks /\ Tail(span) \in Seq(Request)
  BY TailOf DEF Inv, LockTypeOK, Request
<1>2. /\ todo' = [todo EXCEPT ![t] = Tail(span)] /\ UNCHANGED crew
      /\ queue' = [queue EXCEPT ![lock] = IF next.mode = "free" THEN Without(lock, t)
                                          ELSE Append(@, [task |-> t, mode |-> next.mode])]
  BY DEF Take
<1>3. todo' \in [Tasks -> Seq(Request)] /\ InOrder(Rank, Tail(span))
  BY <1>1, <1>2, TailInOrder
<1>4. \A u \in Tasks : InOrder(Rank, todo'[u])
  BY <1>1, <1>2, <1>3 DEF Inv, Planned
<1>5. \A l \in Locks : l # lock => queue'[l] = queue[l]
  BY <1>1, <1>2
<1>6. \A u, l : l \in Requested(u) => l \in Locks
  BY DEF Requested
<1> HIDE DEF lock
<1>7. CASE next.mode = "free"
  <2>1. queue'[lock] = Without(lock, t)
    BY <1>1, <1>2, <1>7
  <2>2. /\ Without(lock, t) \in Seq(Entry) /\ Shrinks(Without(lock, t), queue[lock])
        /\ \A k \in DOMAIN Without(lock, t) : Without(lock, t)[k].task # t
    BY <1>1, Released
  <2>3. queue' \in [Locks -> Seq(Entry)]
    BY <1>1, <1>2, <1>7, <2>2
  <2>4. \A l \in Locks : Shrinks(queue[l], queue[l])
    BY DEF Shrinks
  <2>5. \A l \in Locks : Shrinks(queue'[l], queue[l])
    BY <1>5, <2>1, <2>2, <2>4
  <2>6. ASSUME NEW u \in Tasks, NEW l \in Requested(u)' PROVE Above(Rank, l, todo'[u])
    <3>1. l \in Locks /\ l \in Requested(u)
      BY <2>5, LessWaiting DEF Requested
    <3>2. CASE u # t
      BY <1>1, <1>2, <3>1, <3>2 DEF Inv, Planned
    <3>3. CASE u = t
      <4>1. l # lock
        BY <2>1, <2>2, <3>3 DEF Requested
      <4>2. next # Free(l)
        BY <4>1 DEF lock, Free
      <4>3. Above(Rank, l, Tail(span))
        BY <3>1, <3>3, <4>2, AboveTail
      <4> QED
        BY <1>1, <1>2, <3>3, <4>3
    <3> QED
      BY <3>2, <3>3
  <2> QED
    BY <1>2, <1>3, <1>4, <2>3, <2>5, <2>6, ReleaseKeepsInv
<1>8. CASE next.mode # "free"
  <2> DEFINE r == [task |-> t, mode |-> next.mode]
             old == queue[lock]
             n == Len(old)
  <2>1. r \in Entry /\ r.task = t
    BY <1>1, <1>8 DEF Request, Entry
  <2>2. queue'[lock] = Append(old, r)
    BY <1>1, <1>2, <1>8
  <2>3. /\ n \in Nat /\ DOMAIN old = 1 .. n /\ DOMAIN queue'[lock] = 1 .. n + 1
        /\ \A k \in 1 .. n : queue'[lock][k] = old[k]
        /\ queue'[lock][n + 1] = r
    BY <1>1, <2>1, <2>2
  <2>4. queue' \in [Locks -> Seq(Entry)]
    BY <1>1, <1>2, <1>8, <2>1
  <2>5. \A l \in Requested(t) : Rank[l] < Rank[lock] /\ lock # l
    BY <1>6, <1>8, NextIsHigher DEF lock
  <2>6. \A k \in 1 .. n : old[k].task # t
    BY <1>1, <2>3, <2>5 DEF Requested
  <2> HIDE DEF r, old, n
  <2>7. ASSUME NEW u \in Tasks, u # t, NEW l \in Locks
        PROVE  /\ l \in Requested(u)' => l \in Requested(u)
               /\ Ahead(u, l)' \subseteq Ahead(u, l)
    <3>1. CASE l = lock
      BY <1>1, <2>1, <2>2, <2>7, <3>1, MoreWaiting DEF old
    <3>2. CASE l # lock
      BY <1>5, <3>2 DEF Requested, Ahead
    <3> QED
      BY <3>1, <3>2
  <2>8. ASSUME NEW l \in Requested(t)' PROVE l = lock \/ (l \in Requested(t) /\ Ahead(t, l)' = {})
    <3>1. l \in Locks
      BY DEF Requested
    <3>2. CASE l # lock
      <4>1. l \in Requested(t)
        BY <1>5, <3>1, <3>2 DEF Requested
      <4>2. Ahead(t, l) = {}
        BY <4>1 DEF WaitsFor
      <4> QED
        BY <1>5, <3>1, <3>2, <4>1, <4>2, ZenonT(30) DEF Ahead
    <3> QED
      BY <3>2
  <2>9. LockTypeOK' /\ Rank' = Rank
    BY <1>2, <1>3, <2>4 DEF Inv, LockTypeOK, Rank
  <2>10. OneEach'
    <3> SUFFICES ASSUME NEW l \in Locks, NEW i \in DOMAIN queue'[l], NEW j \in DOMAIN queue'[l],
                        queue'[l][i].task = queue'[l][j].task
                 PROVE  i = j
      BY DEF OneEach
    <3>1. CASE l # lock
      BY <1>5, <3>1 DEF Inv, OneEach
    <3>2. CASE l = lock
      <4>1. \A k \in 1 .. n + 1 : k = n + 1 \/ k \in 1 .. n
        BY <2>3
      <4>2. CASE i \in 1 .. n /\ j \in 1 .. n
        BY <2>3, <3>2, <4>2 DEF Inv, OneEach, old
      <4>3. CASE i \in 1 .. n /\ j = n + 1
        BY <2>1, <2>3, <2>6, <3>2, <4>3
      <4>4. CASE i = n + 1 /\ j \in 1 .. n
        BY <2>1, <2>3, <2>6, <3>2, <4>4
      <4> QED
        BY <2>3, <3>2, <4>1, <4>2, <4>3, <4>4
    <3> QED
      BY <3>1, <3>2
  <2>11. Planned'
    <3>1. ASSUME NEW u \in Tasks, NEW l \in Requested(u)' PROVE Above(Rank, l, todo'[u])
      <4>0. l \in Locks
        BY DEF Requested
      <4>1. CASE u # t
        BY <1>1, <1>2, <2>7, <4>0, <4>1 DEF Inv, Planned
      <4>2. CASE u = t
        <5>1. todo'[u] = Tail(span)
          BY <1>1, <1>2, <4>2
        <5>2. CASE l = lock
          BY <1>8, <5>1, <5>2, HeadAbove DEF lock
        <5>3. CASE l # lock
          <6>1. l \in Requested(t) /\ next # Free(l)
            BY <2>8, <4>2, <5>3 DEF lock, Free
          <6> QED
            BY <4>0, <5>1, <6>1, AboveTail
        <5> QED
          BY <5>2, <5>3
      <4> QED
        BY <4>1, <4>2
    <3> QED
      BY <1>4, <2>9, <3>1 DEF Planned
  <2>12. WaitsLast'
    <3> SUFFICES ASSUME NEW u \in Tasks, NEW l \in Requested(u)', NEW m \in Requested(u)',
                        Ahead(u, l)' # {}, m # l
                 PROVE  Rank[m] < Rank[l]
      BY <2>9 DEF WaitsLast
    <3>0. l \in Locks /\ m \in Locks
      BY DEF Requested
    <3>1. CASE u # t
      BY <2>7, <3>0, <3>1 DEF Inv, WaitsLast
    <3>2. CASE u = t
      <4>1. l = lock /\ m \in Requested(t)
        BY <2>8, <3>2
      <4> QED
        BY <2>5, <4>1
    <3> QED
      BY <3>1, <3>2
  <2> QED
    BY <2>9, <2>10, <2>11, <2>12 DEF Inv
<1> QED
  BY <1>7, <1>8

LEMMA InitInv == Init /\ Rank \in Ranks => Inv
<1> SUFFICES ASSUME Init, Rank \in Ranks PROVE Inv
  OBVIOUS
<1>1. \A t \in Tasks : Requested(t) = {} /\ todo[t] = <<>>
  BY DEF Init, Requested
<1>2. LockTypeOK /\ OneEach
  BY DEF Init, LockTypeOK, OneEach
<1>3. InOrder(Rank, <<>>)
  BY DEF InOrder
<1> QED
  BY <1>1, <1>2, <1>3 DEF Inv, Planned, WaitsLast

LEMMA RankIs ==
  ASSUME \A c \in Crews : OrderedCrew(c), crew \in Crews
  PROVE  Rank \in Ranks /\ Orders(Rank, crew)
BY DEF Rank, RankOf, OrderedCrew

LEMMA StepInv ==
  ASSUME \A c \in Crews : OrderedCrew(c), Inv, [Next]_vars
  PROVE  Inv'
<1>0. Rank \in Ranks /\ Orders(Rank, crew)
  BY RankIs DEF Inv, LockTypeOK
<1>1. ASSUME NEW t \in Tasks, Begin(t) PROVE Inv'
  <2>1. PICK span \in crew : Take(t, span)
    BY <1>1 DEF Begin
  <2>2. Requested(t) = {} /\ WaitsFor(t) = {}
    BY <1>1 DEF Begin, WaitsFor
  <2>3. span \in Seq(Request) /\ span # <<>> /\ InOrder(Rank, span)
    BY <1>0 DEF Orders
  <2> QED
    BY <1>0, <2>1, <2>2, <2>3, TakeKeepsInv
<1>2. ASSUME NEW t \in Tasks, Continue(t) PROVE Inv'
  <2>1. WaitsFor(t) = {} /\ todo[t] # <<>> /\ Take(t, todo[t])
    BY <1>2 DEF Continue
  <2>2. /\ todo[t] \in Seq(Request) /\ InOrder(Rank, todo[t])
        /\ \A l \in Requested(t) : Above(Rank, l, todo[t])
    BY DEF Inv, LockTypeOK, Planned
  <2> QED
    BY <1>0, <2>1, <2>2, TakeKeepsInv
<1>3. ASSUME NEW t \in Tasks, Return(t) PROVE Inv'
  <2>1. /\ queue' = [l \in Locks |-> Without(l, t)] /\ todo' = [todo EXCEPT ![t] = <<>>]
        /\ UNCHANGED crew
    BY <1>3 DEF Return
  <2>2. \A l \in Locks : /\ Without(l, t) \in Seq(Entry) /\ Shrinks(Without(l, t), queue[l])
                         /\ \A k \in DOMAIN Without(l, t) : Without(l, t)[k].task # t
    BY Released DEF Inv, LockTypeOK
  <2>3. queue' \in [Locks -> Seq(Entry)] /\ \A l \in Locks : Shrinks(queue'[l], queue[l])
    BY <2>1, <2>2
  <2>4. todo \in [Tasks -> Seq(Request)] /\ InOrder(Rank, <<>>)
    BY DEF Inv, LockTypeOK, InOrder
  <2>5. todo' \in [Tasks -> Seq(Request)]
    BY <2>1, <2>4
  <2>6. ASSUME NEW u \in Tasks
        PROVE  InOrder(Rank, todo'[u]) /\ \A l \in Requested(u)' : Above(Rank, l, todo'[u])
    <3>1. CASE u = t
      <4>1. todo'[u] = <<>>
        BY <2>1, <2>4, <3>1
      <4>2. \A l \in Locks : Above(Rank, l, <<>>)
        BY DEF Above
      <4> QED
        BY <2>4, <4>1, <4>2 DEF Requested
    <3>2. CASE u # t
      <4>1. todo'[u] = todo[u]
        BY <2>1, <2>4, <3>2
      <4>2. \A l \in Requested(u)' : l \in Requested(u)
        BY <2>3, LessWaiting DEF Requested
      <4> QED
        BY <4>1, <4>2 DEF Inv, Planned
    <3> QED
      BY <3>1, <3>2
  <2> QED
    BY <1>0, <2>1, <2>3, <2>5, <2>6, ReleaseKeepsInv
<1>4. CASE UNCHANGED vars
  <2>1. crew' = crew /\ todo' = todo /\ queue' = queue
    BY <1>4 DEF vars
  <2>2. /\ Rank' = Rank /\ \A t : Requested(t)' = Requested(t)
        /\ \A t, l : Ahead(t, l)' = Ahead(t, l)
    BY <2>1 DEF Rank, Requested, Ahead
  <2>3. LockTypeOK' /\ OneEach'
    BY <2>1 DEF Inv, LockTypeOK, OneEach
  <2>4. Planned' /\ WaitsLast'
    BY <2>1, <2>2 DEF Inv, Planned, WaitsLast
  <2> QED
    BY <2>3, <2>4 DEF Inv
<1> QED
  BY <1>1, <1>2, <1>3, <1>4 DEF Next

\* Of some locks, one is the highest.
LEMMA HighestLock ==
  ASSUME NEW rank \in Ranks, NEW L \in SUBSET Locks, L # {}
  PROVE  \E top \in L : \A l \in L : rank[l] <= rank[top]
<1> DEFINE sum == rank["clients_by_addr"] + rank["clients_by_id"] + rank["games"] + rank["game"]
           below(l) == sum - rank[l]
           T == {k \in Nat : \E l \in L : k = below(l)}
<1>1. \A l \in L : rank[l] \in Nat /\ below(l) \in Nat
  BY DEF Ranks, Locks
<1>2. sum \in Nat
  BY DEF Ranks, Locks
<1> HIDE DEF sum
<1>3. T # {}
  BY <1>1
<1>4. PICK k \in T : \A j \in T : k <= j
  BY <1>3, LeastNat
<1>5. PICK top \in L : k = below(top)
  OBVIOUS
<1>6. \A l \in L : below(l) \in T
  BY <1>1
<1> QED
  BY <1>1, <1>2, <1>4, <1>5, <1>6

LEMMA NoCircle ==
  ASSUME Inv, Rank \in Ranks
  PROVE  NoCircularWait
<1> SUFFICES ASSUME NEW S \in SUBSET Tasks, S # {}, \A t \in S : WaitsFor(t) \cap S # {}
             PROVE  FALSE
  BY DEF NoCircularWait
<1> DEFINE waits(t, l) == l \in Requested(t) /\ Ahead(t, l) \cap S # {}
           L == {l \in Locks : \E t \in S : waits(t, l)}
<1>1. \A t \in S : \E l \in Locks : waits(t, l)
  BY DEF WaitsFor, Requested
<1>2. PICK top \in L : \A l \in L : Rank[l] <= Rank[top]
  BY <1>1, HighestLock
<1> DEFINE q == queue[top]
           P == {i \in DOMAIN q : q[i].task \in S}
<1>3. top \in Locks /\ q \in Seq(Entry)
  BY DEF Inv, LockTypeOK
<1>4. P # {} /\ P \in SUBSET Nat
  <2>1. PICK t \in S : top \in Requested(t)
    OBVIOUS
  <2> QED
    BY <1>3, <2>1 DEF Requested
<1>5. PICK i \in P : \A j \in P : i <= j
  BY <1>4, LeastNat
<1> DEFINE u == q[i].task
<1>6. u \in S /\ top \in Requested(u)
  BY <1>3 DEF Requested
<1>7. PICK l \in Locks : waits(u, l)
  BY <1>1, <1>6
<1>8. l = top
  <2>1. Rank[l] <= Rank[top] /\ Rank[l] \in Nat /\ Rank[top] \in Nat
    BY <1>2, <1>3, <1>6, <1>7 DEF Ranks
  <2>2. l # top => Rank[top] < Rank[l]
    BY <1>6, <1>7 DEF Inv, WaitsLast
  <2> QED
    BY <2>1, <2>2
<1>9. PICK k \in DOMAIN q, j \in DOMAIN q : k < j /\ q[j].task = u /\ q[k].task \in S
  BY <1>7, <1>8 DEF Ahead
<1>10. j = i
  BY <1>3, <1>9 DEF Inv, OneEach
<1>11. k \in P /\ ~ (i <= k)
  BY <1>3, <1>9, <1>10
<1> QED
  BY <1>5, <1>11

-----------------------------------------------------------------------------
(***************************************************************************)
(* The theorems.                                                           *)
(***************************************************************************)
LEMMA AlwaysInv ==
  ASSUME \A c \in Crews : OrderedCrew(c)
  PROVE  Spec => []Inv
<1>1. Init => Inv
  BY InitInv, RankIs DEF Init
<1>2. Inv /\ [Next]_vars => Inv'
  BY StepInv
<1> QED
  BY <1>1, <1>2, PTL DEF Spec

\* Handlers that keep to an order of the locks never wait for each other in a circle,
\* however many tasks there are and however readers and writers queue.
THEOREM OrderedNeverDeadlocks ==
  ASSUME \A c \in Crews : OrderedCrew(c)
  PROVE  Spec => []NoCircularWait
<1>1. Inv => NoCircularWait
  BY NoCircle, RankIs DEF Inv, LockTypeOK
<1> QED
  BY <1>1, AlwaysInv, PTL

\* addr before id and games before game, and a game's lock before the maps of the clients:
\* what all spans but that of make_server_status keep to (state.rs:89-91, game.rs:842).
GameFirst == [l \in Locks |-> CASE l = "games" -> 1 [] l = "game" -> 2
                                [] l = "clients_by_addr" -> 3 [] l = "clients_by_id" -> 4]

\* The maps before the games: what all but execute_drop_game keep to (util.rs:581, 626).
MapsFirst == [l \in Locks |-> CASE l = "clients_by_addr" -> 1 [] l = "clients_by_id" -> 2
                                [] l = "games" -> 3 [] l = "game" -> 4]

LEMMA RankTypes ==
  /\ GameFirst \in Ranks /\ MapsFirst \in Ranks
  /\ GameFirst["games"] = 1 /\ GameFirst["game"] = 2
  /\ GameFirst["clients_by_addr"] = 3 /\ GameFirst["clients_by_id"] = 4
  /\ MapsFirst["clients_by_addr"] = 1 /\ MapsFirst["clients_by_id"] = 2
  /\ MapsFirst["games"] = 3 /\ MapsFirst["game"] = 4
BY DEF GameFirst, MapsFirst, Ranks, Locks

\* A span that takes one lock, or two.
LEMMA OneLock ==
  ASSUME NEW rank \in Ranks, NEW r \in Request
  PROVE  <<r>> \in Seq(Request) /\ <<r>> # <<>> /\ InOrder(rank, <<r>>)
BY DEF InOrder

LEMMA TwoLocks ==
  ASSUME NEW rank \in Ranks, NEW r \in Request, NEW q \in Request, rank[r.lock] < rank[q.lock]
  PROVE  <<r, q>> \in Seq(Request) /\ <<r, q>> # <<>> /\ InOrder(rank, <<r, q>>)
BY DEF InOrder

LEMMA RequestTypes ==
  \A l \in Locks : /\ Read(l) \in Request /\ Write(l) \in Request /\ Free(l) \in Request
                   /\ Read(l).lock = l /\ Write(l).lock = l /\ Free(l).lock = l
                   /\ Read(l).mode = "read" /\ Write(l).mode = "write" /\ Free(l).mode = "free"
BY DEF Request, Read, Write, Free

\* The spans of both crews.
Shared == UNION {get_client, add_client, remove_client, remove_client_by_username,
                 find_client_by_username, update_client, get_all_client_addrs, add_game,
                 get_game, remove_game, broadcast_packet, collect, start_stall_resend_task}

LEMMA SharedInOrder ==
  ASSUME NEW rank \in Ranks, rank["clients_by_addr"] < rank["clients_by_id"],
         rank["games"] < rank["game"]
  PROVE  Orders(rank, Shared)
<1>1. ASSUME NEW s \in Shared
      PROVE  \/ \E l \in Locks : s = <<Read(l)>> \/ s = <<Write(l)>>
             \/ \E r \in {Read("clients_by_addr"), Write("clients_by_addr")},
                   q \in {Read("clients_by_id"), Write("clients_by_id")} : s = <<r, q>>
             \/ s = <<Read("games"), Write("game")>>
  BY <1>1, Zenon DEF Shared, Locks, get_client, add_client, remove_client, remove_client_by_username,
       find_client_by_username, update_client, get_all_client_addrs, add_game, get_game,
       remove_game, broadcast_packet, collect, start_stall_resend_task
<1> QED
  BY <1>1, OneLock, TwoLocks, RequestTypes, ZenonT(30) DEF Orders, Locks

LEMMA StatusInOrder == Orders(MapsFirst, make_server_status)
<1> DEFINE span == <<Read("clients_by_addr"), Read("clients_by_id"), Read("games"),
                     Free("games"), Write("game")>>
<1>1. span \in Seq(Request) /\ span # <<>> /\ DOMAIN span = 1 .. 5
  BY RequestTypes DEF Locks
<1>2. /\ span[1].lock = "clients_by_addr" /\ span[2].lock = "clients_by_id"
      /\ span[3].lock = "games" /\ span[4].mode = "free" /\ span[5].lock = "game"
  BY RequestTypes DEF Locks
<1>3. \A i, j \in 1 .. 5 : i < j /\ i # 4 /\ j # 4 => MapsFirst[span[i].lock] < MapsFirst[span[j].lock]
  <2> HIDE DEF span
  <2>1. SUFFICES ASSUME NEW i \in 1 .. 5, NEW j \in 1 .. 5, i < j, i # 4, j # 4
                 PROVE  MapsFirst[span[i].lock] < MapsFirst[span[j].lock]
    OBVIOUS
  <2>2. CASE i = 1
    BY <1>2, <2>1, <2>2, RankTypes
  <2>3. CASE i = 2
    BY <1>2, <2>1, <2>3, RankTypes
  <2>4. CASE i = 3
    BY <1>2, <2>1, <2>4, RankTypes
  <2> QED
    BY <2>1, <2>2, <2>3, <2>4
<1> HIDE DEF span
<1>4. InOrder(MapsFirst, span)
  BY <1>1, <1>2, <1>3 DEF InOrder
<1> QED
  BY <1>1, <1>4 DEF Orders, make_server_status, span

LEMMA DropInOrder == Orders(GameFirst, execute_drop_game)
<1> DEFINE span == <<Write("game"), Read("clients_by_addr"), Free("clients_by_addr"),
                     Read("clients_by_addr"), Write("clients_by_id")>>
<1>1. span \in Seq(Request) /\ span # <<>> /\ DOMAIN span = 1 .. 5
  BY RequestTypes DEF Locks
<1>2. /\ span[1].lock = "game" /\ span[2].lock = "clients_by_addr"
      /\ span[3].mode = "free" /\ span[3] = Free("clients_by_addr")
      /\ span[4].lock = "clients_by_addr" /\ span[5].lock = "clients_by_id"
  BY RequestTypes DEF Locks
<1> HIDE DEF span
<1>3. ASSUME NEW i \in 1 .. 5, NEW j \in 1 .. 5, i < j, i # 3, j # 3
      PROVE  \/ GameFirst[span[i].lock] < GameFirst[span[j].lock]
             \/ \E k \in i + 1 .. j - 1 : span[k] = Free(span[i].lock)
  <2>1. CASE i = 1
    BY <1>2, <1>3, <2>1, RankTypes
  <2>2. CASE i = 2 /\ j = 4
    <3>1. 3 \in i + 1 .. j - 1 /\ span[3] = Free(span[i].lock)
      BY <1>2, <2>2
    <3> QED
      BY <3>1
  <2>3. CASE i = 2 /\ j = 5
    BY <1>2, <2>3, RankTypes
  <2>4. CASE i = 4
    BY <1>2, <1>3, <2>4, RankTypes
  <2> QED
    BY <1>3, <2>1, <2>2, <2>3, <2>4
<1>4. InOrder(GameFirst, span)
  BY <1>1, <1>2, <1>3 DEF InOrder
<1> QED
  BY <1>1, <1>4 DEF Orders, execute_drop_game, span

\* The spans of the code are in an order, if no status is made for a login or no game ends.
LEMMA ApartInOrder ==
  ASSUME NEW c, c \subseteq Spans \ make_server_status \/ c \subseteq Spans \ execute_drop_game
  PROVE  OrderedCrew(c)
<1>1. Spans = Shared \cup make_server_status \cup execute_drop_game
  BY Zenon DEF Spans, Shared
<1>2. Orders(GameFirst, Shared) /\ Orders(MapsFirst, Shared)
  BY SharedInOrder, RankTypes
<1>3. CASE c \subseteq Spans \ make_server_status
  <2>1. Orders(GameFirst, c)
    BY <1>1, <1>2, <1>3, DropInOrder DEF Orders
  <2> QED
    BY <2>1, RankTypes DEF OrderedCrew
<1>4. CASE c \subseteq Spans \ execute_drop_game
  <2>1. Orders(MapsFirst, c)
    BY <1>1, <1>2, <1>4, StatusInOrder DEF Orders
  <2> QED
    BY <2>1, RankTypes DEF OrderedCrew
<1> QED
  BY <1>3, <1>4

\* The locks of state.rs never deadlock, whatever else the handlers do, as long as the status
\* for a login and the end of a game are not under way together (util.rs:581, game.rs:842).
THEOREM HandlersApartNeverDeadlock ==
  ASSUME \A c \in Crews : c \subseteq Spans \ make_server_status \/ c \subseteq Spans \ execute_drop_game
  PROVE  Spec => []NoCircularWait
<1>1. \A c \in Crews : OrderedCrew(c)
  BY ApartInOrder
<1> QED
  BY <1>1, OrderedNeverDeadlocks

\* And there is no order that both keep to: the run lock_deadlock is no accident of the
\* order chosen here, and no reordering of the other handlers would help.
THEOREM NoOrderForBoth ==
  ASSUME NEW c, make_server_status \subseteq c, execute_drop_game \subseteq c
  PROVE  ~ OrderedCrew(c)
<1> SUFFICES ASSUME NEW rank \in Ranks, Orders(rank, c) PROVE FALSE
  BY DEF OrderedCrew
<1> DEFINE status == <<Read("clients_by_addr"), Read("clients_by_id"), Read("games"),
                       Free("games"), Write("game")>>
           drop == <<Write("game"), Read("clients_by_addr"), Free("clients_by_addr"),
                     Read("clients_by_addr"), Write("clients_by_id")>>
<1>1. InOrder(rank, status) /\ InOrder(rank, drop)
  BY DEF Orders, make_server_status, execute_drop_game
<1>2. /\ DOMAIN status = 1 .. 5 /\ DOMAIN drop = 1 .. 5
      /\ status[1] = Read("clients_by_addr") /\ status[2] = Read("clients_by_id")
      /\ status[3] = Read("games") /\ status[4] = Free("games") /\ status[5] = Write("game")
      /\ drop[1] = Write("game") /\ drop[2] = Read("clients_by_addr")
  OBVIOUS
<1> HIDE DEF status, drop
<1>3. "clients_by_addr" \in Locks /\ "clients_by_id" \in Locks /\ "games" \in Locks /\ "game" \in Locks
  BY DEF Locks
<1>4. rank["clients_by_addr"] < rank["game"]
  <2>1. \A k \in 1 + 1 .. 5 - 1 : status[k] # Free("clients_by_addr")
    <3>1. \A k \in 1 + 1 .. 5 - 1 : k = 2 \/ k = 3 \/ k = 4
      OBVIOUS
    <3>2. status[2] # Free("clients_by_addr") /\ status[3] # Free("clients_by_addr")
          /\ status[4] # Free("clients_by_addr")
      BY <1>2 DEF Read, Free
    <3> QED
      BY <3>1, <3>2
  <2> QED
    BY <1>1, <1>2, <1>3, <2>1, RequestTypes DEF InOrder
<1>5. rank["game"] < rank["clients_by_addr"]
  <2>1. ~ \E k \in 1 + 1 .. 2 - 1 : drop[k] = Free("game")
    OBVIOUS
  <2> QED
    BY <1>1, <1>2, <1>3, <2>1, RequestTypes DEF InOrder
<1>6. rank["game"] \in Nat /\ rank["clients_by_addr"] \in Nat
  BY <1>3 DEF Ranks
<1> QED
  BY <1>4, <1>5, <1>6
================================================================================
