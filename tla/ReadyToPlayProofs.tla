--------------------------- MODULE ReadyToPlayProofs ---------------------------
(***************************************************************************)
(* What holds of the start of a game for every number of players and of    *)
(* games: the types, and that nobody plays early in a game which starts    *)
(* while no handler of an earlier one is at work.                          *)
(*                                                                         *)
(* The statuses a handler reads may be anything an earlier game left. Two  *)
(* facts make them mean something. While the starter is still resetting    *)
(* them, nobody has been told to start, and whoever is still NET_SYNC is   *)
(* on the starter's list (OneStart, ResetGoesOn). Once the game is         *)
(* announced, whoever is NET_SYNC, among those in the room and those that  *)
(* a handler of this game has counted, has signalled (ReadySignalled).     *)
(***************************************************************************)
EXTENDS ReadyToPlay, ListsProofs

Kinds == {"idle", "starting", "announcing", "fetching", "checking", "marking", "dropping"}
TaskTypes == [at : Kinds, todo : Seq(Players), slots : Seq(Players), game : Nat]

ReadyTypes ==
  /\ players \in Seq(Players) /\ dropped \subseteq Players /\ clients \subseteq Players
  /\ task \in [Tasks -> TaskTypes] /\ game \in Nat

\* This game was announced to somebody, or is about to be.
Announced == \/ told # {}
             \/ \E t \in Tasks : task[t].at \in {"announcing", "fetching", "checking", "marking"}

\* Whose statuses a handler of this game has asked for, or could ask for.
Counting(t, q) == /\ task[t].at \in {"checking", "marking"} /\ task[t].game = game
                  /\ q \in Range(task[t].slots)
Watched(q) == q \in Slots \/ \E t \in Tasks : Counting(t, q)

OneStart ==
  \A t \in Tasks : fresh /\ At(t, "starting")
    => ~ Announced /\ \A u \in Tasks : At(u, "starting") => u = t

ResetGoesOn ==
  \A t \in Tasks : fresh /\ At(t, "starting")
    => \A q \in Slots : status[q] = NET_SYNC => q \in Range(task[t].todo)

ReadySignalled ==
  fresh /\ Announced => \A q \in Players : Watched(q) /\ status[q] = NET_SYNC => q \in signalled

InStart == OneStart /\ ResetGoesOn /\ ReadySignalled /\ NobodyPlaysEarly

ReadyInv == ReadyTypes /\ ReadyTypeOK /\ InStart

-----------------------------------------------------------------------------
(***************************************************************************)
(* Lists of players and tasks.                                             *)
(***************************************************************************)
LEMMA ListIs ==
  ASSUME NEW s \in Seq(Players)
  PROVE  /\ Range(s) \subseteq Players
         /\ s # <<>> => /\ Head(s) \in Players /\ Tail(s) \in Seq(Players)
                        /\ Head(s) \in Range(s) /\ Range(s) \subseteq {Head(s)} \cup Range(Tail(s))
         /\ s = <<>> => Range(s) = {}
<1>1. Range(s) \subseteq Players
  BY DEF Range
<1>2. CASE s = <<>>
  BY <1>1, <1>2 DEF Range
<1>3. CASE s # <<>>
  <2>1. Len(s) \in Nat /\ Len(s) > 0 /\ DOMAIN s = 1 .. Len(s)
    BY <1>3
  <2>2. /\ Head(s) = s[1] /\ Tail(s) \in Seq(Players) /\ DOMAIN Tail(s) = 1 .. Len(s) - 1
        /\ \A i \in 1 .. Len(s) - 1 : Tail(s)[i] = s[i + 1]
    BY <1>3, <2>1
  <2>3. 1 \in DOMAIN s
    BY <2>1
  <2>4. Head(s) \in Range(s) /\ Head(s) \in Players
    BY <2>2, <2>3, <1>1 DEF Range
  <2>5. ASSUME NEW i \in DOMAIN s, i # 1
        PROVE  s[i] \in Range(Tail(s))
    <3>1. i - 1 \in DOMAIN Tail(s) /\ Tail(s)[i - 1] = s[i]
      BY <2>1, <2>2, <2>5
    <3>2. QED
      BY <3>1 DEF Range
  <2>6. Range(s) \subseteq {Head(s)} \cup Range(Tail(s))
    BY <2>2, <2>5 DEF Range
  <2>7. QED
    BY <1>1, <1>3, <2>2, <2>4, <2>6
<1>4. QED
  BY <1>2, <1>3

LEMMA WithoutIs ==
  ASSUME players \in Seq(Players), NEW left
  PROVE  Without(left) \in Seq(Players) /\ Range(Without(left)) = Slots \ left
<1> DEFINE I == {i \in DOMAIN players : players[i] \notin left}
<1>1. I \in SUBSET DOMAIN players /\ Without(left) = Kept(players, I)
  BY DEF Without
<1>2. /\ Kept(players, I) \in Seq(Players)
      /\ \A k \in DOMAIN Kept(players, I) : Nth(I, k) \in I /\ Kept(players, I)[k] = players[Nth(I, k)]
  BY <1>1, KeptIs
<1>3. \A k \in DOMAIN Kept(players, I) : Kept(players, I)[k] \in Slots \ left
  BY <1>1, <1>2 DEF Slots, Range
<1>4. ASSUME NEW q \in Slots \ left
      PROVE  \E k \in DOMAIN Kept(players, I) : Kept(players, I)[k] = q
  <2>1. PICK i \in DOMAIN players : players[i] = q
    BY <1>4 DEF Slots, Range
  <2>2. i \in I
    BY <2>1, <1>4
  <2>3. QED
    BY <1>1, <2>1, <2>2, KeptAll, ZenonT(30)
<1> HIDE DEF I
<1>5. QED
  BY <1>1, <1>2, <1>3, <1>4 DEF Range

\* A task goes on; the others stay as they are.
LEMMA DoIs ==
  ASSUME task \in [Tasks -> TaskTypes], NEW t \in Tasks,
         NEW at \in Kinds, NEW todo \in Seq(Players), Do(t, at, todo)
  PROVE  /\ task' \in [Tasks -> TaskTypes]
         /\ task'[t].at = at /\ task'[t].todo = todo
         /\ task'[t].slots = task[t].slots /\ task'[t].game = task[t].game
         /\ \A u \in Tasks : u # t => task'[u] = task[u]
<1>1. task[t] \in TaskTypes
  OBVIOUS
<1>2. task' = [task EXCEPT ![t] = [[task[t] EXCEPT !.at = at] EXCEPT !.todo = todo]]
  BY DEF Do
<1> DEFINE r == [[task[t] EXCEPT !.at = at] EXCEPT !.todo = todo]
<1>3. /\ r \in TaskTypes /\ r.at = at /\ r.todo = todo
      /\ r.slots = task[t].slots /\ r.game = task[t].game
  BY <1>1 DEF TaskTypes
<1> HIDE DEF r
<1>4. task' = [task EXCEPT ![t] = r]
  BY <1>2 DEF r
<1>5. QED
  BY <1>3, <1>4

LEMMA DoneIs ==
  ASSUME task \in [Tasks -> TaskTypes], NEW t \in Tasks, Done(t)
  PROVE  /\ task' \in [Tasks -> TaskTypes] /\ task'[t].at = "idle"
         /\ \A u \in Tasks : u # t => task'[u] = task[u]
<1>1. Idle \in TaskTypes /\ Idle.at = "idle"
  BY DEF Idle, TaskTypes, Kinds
<1>2. QED
  BY <1>1 DEF Done

\* One who is free stands nowhere.
LEMMA FreeIs ==
  ASSUME NEW t \in Tasks, Free(t)
  PROVE  task[t].at = "idle" /\ task[t].todo = <<>> /\ task[t].slots = <<>>
BY DEF Free, Idle

-----------------------------------------------------------------------------
(***************************************************************************)
(* The four parts about a start.                                           *)
(***************************************************************************)
\* What a task that goes on may do to it: end, or take up a drop; or stay where it is,
\* about the same players, and with those on its list whose status a start must reset.
Still(t) ==
  \/ task'[t].at \in {"idle", "dropping"}
  \/ /\ task'[t].at = task[t].at /\ task'[t].slots = task[t].slots /\ task'[t].game = task[t].game
     /\ task[t].at = "starting" =>
          \A q \in Range(task[t].todo) : status'[q] = NET_SYNC => q \in Range(task'[t].todo)

\* A step that announces nothing, lets nobody signal and puts nobody in the room.
Calms ==
  /\ fresh' = fresh /\ game' = game /\ signalled' = signalled
  /\ told' \subseteq told /\ Range(players') \subseteq Slots
  /\ \A q \in Players : status'[q] = NET_SYNC => status[q] = NET_SYNC
  /\ \A t \in Tasks : Still(t)

LEMMA CalmKeepsStart ==
  ASSUME InStart, Calms, ReadyTypes, ReadyTypes'
  PROVE  InStart'
<1>1. Slots' \subseteq Slots /\ Slots \subseteq Players
  BY ListIs DEF Calms, Slots, ReadyTypes
<1>2. Announced' => Announced
  BY DEF Calms, Still, Announced
<1>3. ASSUME NEW q, Watched(q)'
      PROVE  Watched(q)
  BY <1>1, <1>3 DEF Calms, Still, Watched, Counting
<1>4. OneStart'
  BY <1>2 DEF InStart, OneStart, Calms, Still, At
<1>5. ResetGoesOn'
  <2>1. SUFFICES ASSUME NEW t \in Tasks, fresh', task'[t].at = "starting",
                        NEW q \in Slots', status'[q] = NET_SYNC
                 PROVE  q \in Range(task'[t].todo)
    BY DEF ResetGoesOn, At
  <2>2. fresh /\ task[t].at = "starting" /\ q \in Slots /\ status[q] = NET_SYNC
    BY <1>1, <2>1 DEF Calms, Still
  <2>3. q \in Range(task[t].todo)
    BY <2>2 DEF InStart, ResetGoesOn, At
  <2>4. QED
    BY <2>1, <2>3 DEF Calms, Still
<1>6. ReadySignalled'
  BY <1>2, <1>3 DEF InStart, ReadySignalled, Calms
<1>7. NobodyPlaysEarly'
  BY DEF InStart, NobodyPlaysEarly, Calms, Still, At, Tasks
<1>8. QED
  BY <1>4, <1>5, <1>6, <1>7 DEF InStart

\* handle_start_game. If a handler is still at work nothing is claimed of this game.
LEMMA StartKeepsStart ==
  ASSUME ReadyTypes, ReadyTypes', NEW p \in Players, handle_start_game(p)
  PROVE  InStart'
<1>1. /\ fresh' = (\A t \in Tasks : task[t] = Idle)
      /\ told' = {} /\ p \in Tasks /\ players' = Without(left_room)
  BY DEF handle_start_game, Tasks
<1>2. /\ task'[p].at = "starting" /\ task'[p].todo = Without(left_room)
      /\ \A u \in Tasks : u # p => task'[u] = task[u]
  BY <1>1, WithoutIs, DoIs DEF handle_start_game, ReadyTypes, Kinds
<1>3. CASE ~ fresh'
  BY <1>3 DEF InStart, OneStart, ResetGoesOn, ReadySignalled, NobodyPlaysEarly
<1>4. CASE fresh'
  <2>0. Idle.at = "idle" /\ \A u \in Tasks : task[u] = Idle
    BY <1>1, <1>4 DEF Idle
  <2>1. \A u \in Tasks : u # p => task'[u].at = "idle"
    BY <1>2, <2>0
  <2>2. ~ Announced'
    BY <1>1, <1>2, <2>1 DEF Announced
  <2>3. OneStart'
    BY <2>1, <2>2 DEF OneStart, At
  <2>4. ResetGoesOn'
    BY <1>1, <1>2, <2>1 DEF ResetGoesOn, At, Slots
  <2>5. ReadySignalled' /\ NobodyPlaysEarly'
    BY <1>2, <2>1, <2>2 DEF ReadySignalled, NobodyPlaysEarly, At, Tasks
  <2>6. QED
    BY <2>3, <2>4, <2>5 DEF InStart
<1>5. QED
  BY <1>3, <1>4

\* A step of one task that leaves the statuses, the room and the signals alone.
Steps(t) ==
  /\ t \in Tasks /\ fresh' = fresh /\ game' = game /\ signalled' = signalled
  /\ players' = players /\ status' = status
  /\ \A u \in Tasks : u # t => task'[u] = task[u]

LEMMA StepsIs ==
  ASSUME NEW t, Steps(t)
  PROVE  /\ Slots' = Slots
         /\ \A u \in Tasks, q \in Players : u # t => (Counting(u, q)' <=> Counting(u, q))
BY DEF Steps, Slots, Counting

\* The announcement begins when the list is empty: nobody in the room is NET_SYNC.
LEMMA AnnounceKeepsStart ==
  ASSUME InStart, ReadyTypes, ReadyTypes', NEW t \in Tasks, Steps(t), told' = told,
         task[t].at = "starting", task[t].todo = <<>>, task'[t].at = "announcing"
  PROVE  InStart'
<1>1. CASE ~ fresh
  BY <1>1 DEF Steps, InStart, OneStart, ResetGoesOn, ReadySignalled, NobodyPlaysEarly
<1>2. CASE fresh
  <2>1. ~ Announced /\ \A u \in Tasks : task[u].at = "starting" => u = t
    BY <1>2 DEF InStart, OneStart, At
  <2>2. \A q \in Slots : status[q] # NET_SYNC
    BY <1>2, ListIs DEF InStart, ResetGoesOn, At, ReadyTypes, TaskTypes, Range
  <2>3. \A u \in Tasks : task'[u].at \notin {"starting", "checking", "marking"}
    BY <2>1 DEF Steps, Announced
  <2>4. OneStart' /\ ResetGoesOn' /\ NobodyPlaysEarly'
    BY <2>3 DEF OneStart, ResetGoesOn, NobodyPlaysEarly, At, Tasks
  <2>5. ReadySignalled'
    BY <2>2, <2>3, StepsIs DEF ReadySignalled, Watched, Counting, Steps
  <2>6. QED
    BY <2>4, <2>5 DEF InStart
<1>3. QED
  BY <1>1, <1>2

\* What goes on once the game is announced: START_GAME is sent to one more, and a handler
\* takes a copy of the players and asks for their statuses.
LEMMA AnnouncedGoesOn ==
  ASSUME InStart, ReadyTypes, ReadyTypes', NEW t \in Tasks, Steps(t), Announced,
         task'[t].at # "starting",
         \A q \in Players : Counting(t, q)' => Watched(q),
         fresh /\ task'[t].at = "marking" /\ task'[t].game = game
           => Range(task'[t].slots) \subseteq signalled
  PROVE  InStart'
<1>1. fresh => \A u \in Tasks : task'[u].at # "starting"
  BY DEF InStart, OneStart, Steps, At
<1>2. OneStart' /\ ResetGoesOn'
  BY <1>1 DEF OneStart, ResetGoesOn, Steps, At
<1>3. \A q \in Players : Watched(q)' => Watched(q)
  BY StepsIs DEF Watched
<1>4. ReadySignalled'
  BY <1>3 DEF InStart, ReadySignalled, Steps
<1>5. NobodyPlaysEarly'
  BY DEF InStart, NobodyPlaysEarly, Steps, At, Tasks
<1>6. QED
  BY <1>2, <1>4, <1>5 DEF InStart

\* A signal: whoever is told has signalled before he is NET_SYNC.
LEMMA SignalKeepsStart ==
  ASSUME InStart, ReadyTypes, ReadyTypes', NEW p \in Players, p \in told,
         signalled' = signalled \cup {p}, told' = told,
         \A q \in Players : q # p => status'[q] = status[q],
         players' = players, fresh' = fresh, game' = game,
         \A u \in Tasks : u # p => task'[u] = task[u],
         task'[p].at \in {"idle", "fetching"}
  PROVE  InStart'
<1>1. Announced
  BY DEF Announced
<1>2. fresh => \A u \in Tasks : task'[u].at # "starting"
  BY <1>1 DEF InStart, OneStart, At
<1>3. OneStart' /\ ResetGoesOn'
  BY <1>2 DEF OneStart, ResetGoesOn, At
<1>4. \A q \in Players : Watched(q)' => Watched(q)
  BY DEF Watched, Counting, Slots
<1>5. ReadySignalled'
  BY <1>1, <1>4 DEF InStart, ReadySignalled
<1>6. NobodyPlaysEarly'
  BY DEF InStart, NobodyPlaysEarly, At, Tasks
<1>7. QED
  BY <1>3, <1>5, <1>6 DEF InStart

-----------------------------------------------------------------------------
(***************************************************************************)
(* Types, and the room: step by step.                                      *)
(***************************************************************************)
LEMMA InitInv == Init => ReadyInv
<1> SUFFICES ASSUME Init PROVE ReadyInv
  OBVIOUS
<1>1. NumPlayers \in Nat /\ Cleanup \notin Players
  BY ReadyAssumption DEF Players, Cleanup
<1>2. players \in Seq(Players) /\ Range(players) = Players
  <2>1. players \in [1 .. NumPlayers -> Players] /\ DOMAIN players = Players
    BY DEF Init, Players
  <2>2. players \in Seq(Players)
    BY <1>1, <2>1, SeqDef
  <2>3. \A i \in Players : players[i] = i
    BY DEF Init
  <2>4. QED
    BY <2>1, <2>2, <2>3 DEF Range
<1>3. task \in [Tasks -> TaskTypes] /\ \A t \in Tasks : task[t].at = "idle"
  BY DEF Init, Idle, TaskTypes, Kinds
<1>4. ReadyTypes
  BY <1>2, <1>3 DEF ReadyTypes, Init
<1>5. ReadyTypeOK
  BY <1>2 DEF ReadyTypeOK, Init, Slots
<1>6. InStart
  BY <1>3 DEF InStart, OneStart, ResetGoesOn, ReadySignalled, NobodyPlaysEarly, Init, At, Tasks
<1>7. QED
  BY <1>4, <1>5, <1>6 DEF ReadyInv

\* A step that leaves the room and the clients alone, and sets a status or none.
LEMMA TypesGoOn ==
  ASSUME ReadyInv, task' \in [Tasks -> TaskTypes], UNCHANGED <<room, clients, game>>,
         status' \in [Players -> {IDLE, NET_SYNC, PLAYING}],
         signalled' \subseteq Players, told' \subseteq Players, notified' \subseteq Players
  PROVE  ReadyTypes' /\ ReadyTypeOK'
<1>1. /\ players' = players /\ left_room' = left_room /\ dropped' = dropped
      /\ playing' = playing /\ clients' = clients /\ game' = game
  BY DEF room
<1>2. ReadyTypes'
  BY <1>1 DEF ReadyInv, ReadyTypes
<1>3. ReadyTypeOK'
  BY <1>1 DEF ReadyInv, ReadyTypeOK, Slots
<1>4. QED
  BY <1>2, <1>3

LEMMA ResetStatusKeeps ==
  ASSUME ReadyInv, NEW t \in Tasks, ResetStatus(t)
  PROVE  ReadyInv'
<1> DEFINE q == Head(task[t].todo)
<1>1. /\ task \in [Tasks -> TaskTypes] /\ task[t].todo \in Seq(Players) /\ task[t].todo # <<>>
      /\ task[t].at \in {"starting", "dropping"}
  BY DEF ReadyInv, ReadyTypes, TaskTypes, ResetStatus
<1>2. /\ q \in Players /\ Tail(task[t].todo) \in Seq(Players)
      /\ Range(task[t].todo) \subseteq {q} \cup Range(Tail(task[t].todo))
  BY <1>1, ListIs
<1>3. status \in [Players -> {IDLE, NET_SYNC, PLAYING}]
  BY DEF ReadyInv, ReadyTypeOK
<1>4. UNCHANGED <<room, clients, game, told, signalled, notified, fresh, players>>
  BY DEF ResetStatus, round, room
<1>5. CASE q \in clients
  <2>1. status' = [status EXCEPT ![q] = IDLE] /\ Do(t, task[t].at, Tail(task[t].todo))
    BY <1>5 DEF ResetStatus
  <2>2. /\ task' \in [Tasks -> TaskTypes] /\ task'[t].at = task[t].at
        /\ task'[t].todo = Tail(task[t].todo)
        /\ task'[t].slots = task[t].slots /\ task'[t].game = task[t].game
        /\ \A u \in Tasks : u # t => task'[u] = task[u]
    <3>1. task[t].at \in Kinds /\ Tail(task[t].todo) \in Seq(Players)
      BY <1>1, <1>2 DEF Kinds
    <3>2. QED
      BY <1>1, <2>1, <3>1, DoIs
  <2>3. /\ status' \in [Players -> {IDLE, NET_SYNC, PLAYING}] /\ status'[q] = IDLE
        /\ \A r \in Players : status'[r] = NET_SYNC => status[r] = NET_SYNC
    BY <1>2, <1>3, <2>1 DEF IDLE, NET_SYNC
  <2>4. ReadyTypes' /\ ReadyTypeOK'
    BY <1>4, <2>2, <2>3, TypesGoOn DEF ReadyInv, ReadyTypeOK
  <2>5. Still(t)
    BY <1>2, <2>2, <2>3 DEF Still, IDLE, NET_SYNC
  <2>6. \A u \in Tasks : Still(u)
    BY <2>2, <2>5 DEF Still
  <2>7. Calms
    BY <1>4, <2>3, <2>6 DEF Calms, Slots
  <2>8. QED
    BY <2>4, <2>7, CalmKeepsStart DEF ReadyInv
<1>6. CASE q \notin clients
  <2>1. Done(t) /\ status' = status
    BY <1>6 DEF ResetStatus
  <2>2. /\ task' \in [Tasks -> TaskTypes] /\ task'[t].at = "idle"
        /\ \A u \in Tasks : u # t => task'[u] = task[u]
    BY <1>1, <2>1, DoneIs
  <2>3. ReadyTypes' /\ ReadyTypeOK'
    BY <1>3, <1>4, <2>1, <2>2, TypesGoOn DEF ReadyInv, ReadyTypeOK
  <2>4. Calms
    BY <1>4, <2>1, <2>2 DEF Calms, Slots, Still
  <2>5. QED
    BY <2>3, <2>4, CalmKeepsStart DEF ReadyInv
<1>7. QED
  BY <1>5, <1>6

\* A handler that ends, or that takes up the next on a list no start depends on.
LEMMA EndKeeps ==
  ASSUME ReadyInv, NEW t \in Tasks, UNCHANGED <<room, clients, game, signalled, fresh>>,
         told' \subseteq told, notified' \subseteq Players,
         status' \in [Players -> {IDLE, NET_SYNC, PLAYING}],
         \A q \in Players : status'[q] = NET_SYNC => status[q] = NET_SYNC,
         \/ Done(t)
         \/ \E todo \in Seq(Players) : task[t].at # "starting" /\ Do(t, task[t].at, todo)
  PROVE  ReadyInv'
<1>1. task \in [Tasks -> TaskTypes] /\ task[t].at \in Kinds
  BY DEF ReadyInv, ReadyTypes, TaskTypes
<1>2. /\ task' \in [Tasks -> TaskTypes]
      /\ \A u \in Tasks : u # t => task'[u] = task[u]
      /\ \/ task'[t].at = "idle"
         \/ /\ task'[t].at = task[t].at /\ task[t].at # "starting"
            /\ task'[t].slots = task[t].slots /\ task'[t].game = task[t].game
  <2>1. CASE Done(t)
    BY <1>1, <2>1, DoneIs
  <2>2. CASE \E todo \in Seq(Players) : task[t].at # "starting" /\ Do(t, task[t].at, todo)
    <3>1. PICK todo \in Seq(Players) : task[t].at # "starting" /\ Do(t, task[t].at, todo)
      BY <2>2
    <3>2. QED
      BY <1>1, <3>1, DoIs
  <2>3. QED
    BY <2>1, <2>2
<1>3. ReadyTypes' /\ ReadyTypeOK'
  BY <1>2, TypesGoOn DEF ReadyInv, ReadyTypeOK
<1>4. Calms
  <2>1. \A u \in Tasks : Still(u)
    BY <1>2 DEF Still
  <2>2. players' = players
    BY DEF room
  <2>3. QED
    BY <2>1, <2>2 DEF Calms, Slots
<1>5. QED
  BY <1>3, <1>4, CalmKeepsStart DEF ReadyInv

LEMMA MarkKeeps ==
  ASSUME ReadyInv, NEW t \in Tasks, Mark(t)
  PROVE  ReadyInv'
<1>1. task[t].todo \in Seq(Players) /\ task[t].todo # <<>> /\ task[t].at = "marking"
  BY DEF Mark, At, ReadyInv, ReadyTypes, TaskTypes
<1>2. Tail(task[t].todo) \in Seq(Players)
  BY <1>1, ListIs
<1>3. status \in [Players -> {IDLE, NET_SYNC, PLAYING}] /\ notified \subseteq Players
  BY DEF ReadyInv, ReadyTypeOK
<1>4. /\ status' \in [Players -> {IDLE, NET_SYNC, PLAYING}]
      /\ \A q \in Players : status'[q] = NET_SYNC => status[q] = NET_SYNC
  BY <1>3 DEF Mark, PLAYING, NET_SYNC
<1>5. UNCHANGED <<room, clients, game, signalled, fresh>> /\ told' = told /\ notified' = notified
  BY DEF Mark, round
<1>6. \E todo \in Seq(Players) : task[t].at # "starting" /\ Do(t, task[t].at, todo)
  BY <1>1, <1>2 DEF Mark
<1>7. QED
  BY <1>3, <1>4, <1>5, <1>6, EndKeeps

LEMMA NotifyKeeps ==
  ASSUME ReadyInv, NEW t \in Tasks, Notify(t)
  PROVE  ReadyInv'
<1>1. status \in [Players -> {IDLE, NET_SYNC, PLAYING}] /\ notified \subseteq Players
      /\ clients \subseteq Players
  BY DEF ReadyInv, ReadyTypeOK, ReadyTypes
<1>2. Done(t) /\ UNCHANGED <<room, clients, game, signalled, fresh>> /\ told' = told
      /\ status' = status /\ notified' \subseteq Players
  BY <1>1 DEF Notify
<1>3. QED
  BY <1>1, <1>2, EndKeeps

\* What the special steps have in common.
LEMMA OneTaskSteps ==
  ASSUME ReadyInv, NEW t \in Tasks, UNCHANGED <<room, clients, game, signalled, fresh, status>>,
         told' \subseteq Players, notified' = notified,
         task' \in [Tasks -> TaskTypes], \A u \in Tasks : u # t => task'[u] = task[u]
  PROVE  ReadyTypes' /\ ReadyTypeOK' /\ Steps(t)
<1>1. ReadyTypes' /\ ReadyTypeOK'
  BY TypesGoOn DEF ReadyInv, ReadyTypeOK
<1>2. players' = players
  BY DEF room
<1>3. QED
  BY <1>1, <1>2 DEF Steps

LEMMA AnnounceKeeps ==
  ASSUME ReadyInv, NEW t \in Tasks, Announce(t)
  PROVE  ReadyInv'
<1>1. /\ UNCHANGED <<room, clients, game, signalled, fresh, status>>
      /\ told' = told /\ notified' = notified
      /\ task[t].todo = <<>> /\ task \in [Tasks -> TaskTypes] /\ players \in Seq(Players)
  BY DEF Announce, round, ReadyInv, ReadyTypes
<1>2. status \in [Players -> {IDLE, NET_SYNC, PLAYING}] /\ notified \subseteq Players
      /\ told \subseteq Players
  BY DEF ReadyInv, ReadyTypeOK
<1>3. CASE At(t, "starting") /\ InRoom(t)
  <2>1. Do(t, "announcing", players) /\ "announcing" \in Kinds
    BY <1>3 DEF Announce, Kinds
  <2>2. /\ task' \in [Tasks -> TaskTypes] /\ task'[t].at = "announcing"
        /\ \A u \in Tasks : u # t => task'[u] = task[u]
    BY <1>1, <2>1, DoIs
  <2>3. ReadyTypes' /\ ReadyTypeOK' /\ Steps(t)
    BY <1>1, <1>2, <2>2, OneTaskSteps
  <2>4. InStart'
    BY <1>1, <1>3, <2>2, <2>3, AnnounceKeepsStart DEF ReadyInv, At
  <2>5. QED
    BY <2>3, <2>4 DEF ReadyInv
<1>4. CASE ~ (At(t, "starting") /\ InRoom(t))
  <2>1. Done(t)
    BY <1>4 DEF Announce
  <2>2. QED
    BY <1>1, <1>2, <2>1, EndKeeps
<1>5. QED
  BY <1>3, <1>4

LEMMA SendStartKeeps ==
  ASSUME ReadyInv, NEW t \in Tasks, SendStart(t)
  PROVE  ReadyInv'
<1>1. /\ UNCHANGED <<room, clients, game, signalled, fresh, status>> /\ notified' = notified
      /\ task[t].at = "announcing" /\ task[t].todo \in Seq(Players)
      /\ task \in [Tasks -> TaskTypes]
  BY DEF SendStart, At, ReadyInv, ReadyTypes, TaskTypes
<1>2. status \in [Players -> {IDLE, NET_SYNC, PLAYING}] /\ notified \subseteq Players
      /\ told \subseteq Players
  BY DEF ReadyInv, ReadyTypeOK
<1>3. CASE task[t].todo = <<>> \/ Head(task[t].todo) \notin clients
  BY <1>1, <1>2, <1>3, EndKeeps DEF SendStart
<1>4. CASE ~ (task[t].todo = <<>> \/ Head(task[t].todo) \notin clients)
  <2>1. Head(task[t].todo) \in Players /\ Tail(task[t].todo) \in Seq(Players)
    BY <1>1, <1>4, ListIs
  <2>2. /\ told' = told \cup {Head(task[t].todo)} /\ "announcing" \in Kinds
        /\ Do(t, "announcing", Tail(task[t].todo))
    BY <1>4 DEF SendStart, Kinds
  <2>3. /\ task' \in [Tasks -> TaskTypes] /\ task'[t].at = "announcing"
        /\ \A u \in Tasks : u # t => task'[u] = task[u]
    BY <1>1, <2>1, <2>2, DoIs
  <2>4. told' \subseteq Players
    BY <1>2, <2>1, <2>2
  <2>5. ReadyTypes' /\ ReadyTypeOK' /\ Steps(t)
    BY <1>1, <2>3, <2>4, OneTaskSteps
  <2>6. Announced
    BY <1>1 DEF Announced
  <2>7. \A q \in Players : ~ Counting(t, q)'
    BY <2>3 DEF Counting
  <2>8. InStart'
    BY <2>3, <2>5, <2>6, <2>7, AnnouncedGoesOn DEF ReadyInv
  <2>9. QED
    BY <2>5, <2>8 DEF ReadyInv
<1>5. QED
  BY <1>3, <1>4

LEMMA FetchKeeps ==
  ASSUME ReadyInv, NEW t \in Tasks, Fetch(t)
  PROVE  ReadyInv'
<1>1. /\ UNCHANGED <<room, clients, game, signalled, fresh, status>>
      /\ notified' = notified /\ told' = told /\ task[t].at = "fetching"
      /\ task \in [Tasks -> TaskTypes] /\ players \in Seq(Players) /\ game \in Nat
  BY DEF Fetch, At, round, ReadyInv, ReadyTypes
<1>2. status \in [Players -> {IDLE, NET_SYNC, PLAYING}] /\ notified \subseteq Players
      /\ told \subseteq Players
  BY DEF ReadyInv, ReadyTypeOK
<1>3. CASE ~ InRoom(t)
  BY <1>1, <1>2, <1>3, EndKeeps DEF Fetch
<1>4. CASE InRoom(t)
  <2> DEFINE r == [at |-> "checking", todo |-> <<>>, slots |-> players, game |-> game]
  <2>1. r \in TaskTypes /\ r.at = "checking" /\ r.slots = players
    BY <1>1 DEF TaskTypes, Kinds
  <2>2. task' = [task EXCEPT ![t] = r]
    BY <1>4 DEF Fetch
  <2> HIDE DEF r
  <2>3. /\ task' \in [Tasks -> TaskTypes] /\ task'[t] = r
        /\ \A u \in Tasks : u # t => task'[u] = task[u]
    BY <1>1, <2>1, <2>2
  <2>4. ReadyTypes' /\ ReadyTypeOK' /\ Steps(t)
    BY <1>1, <1>2, <2>3, OneTaskSteps
  <2>5. Announced
    BY <1>1 DEF Announced
  <2>6. \A q \in Players : Counting(t, q)' => Watched(q)
    BY <2>1, <2>3 DEF Counting, Watched, Slots
  <2>7. InStart'
    BY <2>1, <2>3, <2>4, <2>5, <2>6, AnnouncedGoesOn DEF ReadyInv
  <2>8. QED
    BY <2>4, <2>7 DEF ReadyInv
<1>5. QED
  BY <1>3, <1>4

LEMMA CheckKeeps ==
  ASSUME ReadyInv, NEW t \in Tasks, Check(t)
  PROVE  ReadyInv'
<1>1. /\ UNCHANGED <<room, clients, game, signalled, fresh, status>>
      /\ notified' = notified /\ told' = told /\ task[t].at = "checking"
      /\ task \in [Tasks -> TaskTypes] /\ task[t].slots \in Seq(Players)
  BY DEF Check, At, round, ReadyInv, ReadyTypes, TaskTypes
<1>2. status \in [Players -> {IDLE, NET_SYNC, PLAYING}] /\ notified \subseteq Players
      /\ told \subseteq Players
  BY DEF ReadyInv, ReadyTypeOK
<1> DEFINE all == \A q \in Range(task[t].slots) : q \in clients /\ status[q] = NET_SYNC
<1>3. CASE ~ all
  BY <1>1, <1>2, <1>3, EndKeeps DEF Check
<1>4. CASE all
  <2>1. Do(t, "marking", task[t].slots) /\ "marking" \in Kinds
    BY <1>4 DEF Check, Kinds
  <2>2. /\ task' \in [Tasks -> TaskTypes] /\ task'[t].at = "marking"
        /\ task'[t].slots = task[t].slots /\ task'[t].game = task[t].game
        /\ \A u \in Tasks : u # t => task'[u] = task[u]
    BY <1>1, <2>1, DoIs
  <2>3. ReadyTypes' /\ ReadyTypeOK' /\ Steps(t)
    BY <1>1, <1>2, <2>2, OneTaskSteps
  <2>4. Announced
    BY <1>1 DEF Announced
  <2>5. \A q \in Players : Counting(t, q)' => Watched(q)
    BY <1>1, <2>2 DEF Counting, Watched
  <2>6. ASSUME fresh, task[t].game = game
        PROVE  Range(task[t].slots) \subseteq signalled
    <3>1. Range(task[t].slots) \subseteq Players
      BY <1>1, ListIs
    <3>2. \A q \in Range(task[t].slots) : Watched(q)
      BY <1>1, <2>6 DEF Counting, Watched
    <3>3. QED
      BY <1>4, <2>4, <2>6, <3>1, <3>2 DEF ReadyInv, InStart, ReadySignalled
  <2>7. InStart'
    BY <2>2, <2>3, <2>4, <2>5, <2>6, AnnouncedGoesOn DEF ReadyInv
  <2>8. QED
    BY <2>3, <2>7 DEF ReadyInv
<1>5. QED
  BY <1>3, <1>4

LEMMA SignalKeeps ==
  ASSUME ReadyInv, NEW p \in Players, handle_ready_to_play_signal(p)
  PROVE  ReadyInv'
<1>1. /\ UNCHANGED <<room, clients, game, told, notified, fresh>> /\ players' = players
      /\ p \in told /\ signalled' = signalled \cup {p} /\ p \in Tasks
      /\ task \in [Tasks -> TaskTypes] /\ task[p].at = "idle"
  BY FreeIs DEF handle_ready_to_play_signal, room, Tasks, ReadyInv, ReadyTypes
<1>2. status \in [Players -> {IDLE, NET_SYNC, PLAYING}] /\ notified \subseteq Players
      /\ told \subseteq Players /\ signalled \subseteq Players
  BY DEF ReadyInv, ReadyTypeOK
<1>3. /\ task' \in [Tasks -> TaskTypes] /\ task'[p].at \in {"idle", "fetching"}
      /\ \A u \in Tasks : u # p => task'[u] = task[u]
  <2>1. CASE status[p] = PLAYING
    BY <1>1, <2>1 DEF handle_ready_to_play_signal
  <2>2. CASE status[p] # PLAYING
    <3>1. Do(p, "fetching", <<>>) /\ "fetching" \in Kinds /\ <<>> \in Seq(Players)
      BY <2>2 DEF handle_ready_to_play_signal, Kinds
    <3>2. QED
      BY <1>1, <3>1, DoIs
  <2>3. QED
    BY <2>1, <2>2
<1>4. /\ status' \in [Players -> {IDLE, NET_SYNC, PLAYING}]
      /\ \A q \in Players : q # p => status'[q] = status[q]
  BY <1>2 DEF handle_ready_to_play_signal
<1>5. ReadyTypes' /\ ReadyTypeOK'
  BY <1>1, <1>2, <1>3, <1>4, TypesGoOn
<1>6. InStart'
  BY <1>1, <1>3, <1>4, <1>5, SignalKeepsStart DEF ReadyInv
<1>7. QED
  BY <1>5, <1>6 DEF ReadyInv

-----------------------------------------------------------------------------
(***************************************************************************)
(* The steps that change the room.                                         *)
(***************************************************************************)
LEMMA StartKeeps ==
  ASSUME ReadyInv, NEW p \in Players, handle_start_game(p)
  PROVE  ReadyInv'
<1>1. /\ players \in Seq(Players) /\ game \in Nat /\ task \in [Tasks -> TaskTypes]
      /\ clients \subseteq Players /\ p \in Tasks
  BY DEF ReadyInv, ReadyTypes, Tasks
<1>2. /\ players' = Without(left_room) /\ left_room' = {} /\ playing' = TRUE /\ dropped' = {}
      /\ game' = game + 1 /\ told' = {} /\ signalled' = {} /\ notified' = {}
      /\ clients' = clients /\ status' = status /\ p \in Slots \ left_room
      /\ Do(p, "starting", Without(left_room))
  BY DEF handle_start_game, Owner, InRoom
<1>3. Without(left_room) \in Seq(Players) /\ Range(players') = Slots \ left_room
  BY <1>1, <1>2, WithoutIs
<1>4. task' \in [Tasks -> TaskTypes]
  BY <1>1, <1>2, <1>3, DoIs DEF Kinds
<1>5. ReadyTypes'
  BY <1>1, <1>2, <1>3, <1>4 DEF ReadyTypes
<1>6. ReadyTypeOK'
  BY <1>1, <1>2, <1>3 DEF ReadyInv, ReadyTypeOK, Slots
<1>7. InStart'
  BY <1>5, StartKeepsStart DEF ReadyInv
<1>8. QED
  BY <1>5, <1>6, <1>7 DEF ReadyInv

\* A drop or a departure, by a task that was free: what is left of the room is the
\* members it had.
LEMMA ShrinkKeeps ==
  ASSUME ReadyInv, ReadyTypes', ReadyTypeOK', NEW t \in Tasks, task[t].at = "idle",
         UNCHANGED <<game, signalled, fresh>>, told' \subseteq told, Range(players') \subseteq Slots,
         \A q \in Players : status'[q] = NET_SYNC => status[q] = NET_SYNC,
         task'[t].at \in {"idle", "dropping"}, \A u \in Tasks : u # t => task'[u] = task[u]
  PROVE  ReadyInv'
<1>1. \A u \in Tasks : Still(u)
  BY DEF Still
<1>2. Calms
  BY <1>1 DEF Calms
<1>3. QED
  BY <1>2, CalmKeepsStart DEF ReadyInv

LEMMA DropIs ==
  ASSUME ReadyInv, NEW t \in Tasks, NEW p \in Players, NEW left \in SUBSET Slots,
         execute_drop_game(t, p, left), playing, InRoom(p),
         left_room \subseteq left, left \subseteq left_room \cup {p},
         clients' = clients, status' \in [Players -> {IDLE, NET_SYNC, PLAYING}], told' \subseteq told
  PROVE  /\ ReadyTypes' /\ ReadyTypeOK' /\ Range(players') \subseteq Slots
         /\ UNCHANGED <<game, signalled, fresh>>
         /\ task'[t].at \in {"idle", "dropping"} /\ \A u \in Tasks : u # t => task'[u] = task[u]
<1> DEFINE over == Slots \subseteq dropped'
<1>1. /\ players \in Seq(Players) /\ task \in [Tasks -> TaskTypes] /\ dropped \subseteq Players
      /\ Slots \subseteq Players
  BY ListIs DEF ReadyInv, ReadyTypes, Slots
<1>2. Without(left) \in Seq(Players) /\ Range(Without(left)) = Slots \ left
  BY <1>1, WithoutIs
<1>3. /\ dropped' = dropped \cup {p} /\ playing' = ~ over
      /\ players' = (IF over THEN Without(left) ELSE players)
      /\ left_room' = (IF over THEN {} ELSE left)
      /\ UNCHANGED <<game, signalled, notified, fresh>>
      /\ Done(t) \/ Do(t, "dropping", players)
  BY DEF execute_drop_game
<1> HIDE DEF over
<1>4. /\ task' \in [Tasks -> TaskTypes] /\ task'[t].at \in {"idle", "dropping"}
      /\ \A u \in Tasks : u # t => task'[u] = task[u]
  <2>1. "dropping" \in Kinds
    BY DEF Kinds
  <2>2. CASE Done(t)
    BY <1>1, <2>2, DoneIs
  <2>3. CASE Do(t, "dropping", players)
    BY <1>1, <2>1, <2>3, DoIs
  <2>4. QED
    BY <1>3, <2>2, <2>3
<1>5. players' \in Seq(Players) /\ Range(players') \subseteq Slots
  BY <1>1, <1>2, <1>3 DEF Slots
<1>6. ReadyTypes'
  BY <1>1, <1>3, <1>4, <1>5 DEF ReadyInv, ReadyTypes
<1>7. /\ left_room \subseteq Slots /\ Slots \ left_room \subseteq clients /\ game > 0
      /\ left_room \subseteq dropped
      /\ signalled \subseteq Players /\ told \subseteq Players /\ notified \subseteq Players
  BY DEF ReadyInv, ReadyTypeOK
<1>8. ReadyTypeOK'
  <2>1. CASE over
    <3>1. /\ players' = Without(left) /\ left_room' = {} /\ playing' = FALSE
          /\ Slots \subseteq dropped'
      BY <1>3, <2>1 DEF over
    <3>2. Slots' = Slots \ left
      BY <1>2, <3>1 DEF Slots
    <3>3. QED
      BY <1>3, <1>7, <3>1, <3>2 DEF ReadyTypeOK
  <2>2. CASE ~ over
    <3>1. /\ players' = players /\ left_room' = left /\ playing' = TRUE
          /\ ~ (Slots \subseteq dropped')
      BY <1>3, <2>2 DEF over
    <3>2. Slots' = Slots
      BY <3>1 DEF Slots
    <3>3. left \subseteq dropped'
      BY <1>3, <1>7
    <3>4. QED
      BY <1>3, <1>7, <3>1, <3>2, <3>3 DEF ReadyTypeOK
  <2>3. QED
    BY <2>1, <2>2
<1>9. QED
  BY <1>3, <1>4, <1>5, <1>6, <1>8

LEMMA DropKeeps ==
  ASSUME ReadyInv, NEW p \in Players, handle_drop_game(p)
  PROVE  ReadyInv'
<1>1. /\ p \in Tasks /\ task[p].at = "idle" /\ InRoom(p) /\ playing
      /\ execute_drop_game(p, p, left_room) /\ told' \subseteq told
      /\ clients' = clients /\ status' = status
  BY FreeIs DEF handle_drop_game, Tasks
<1>2. status \in [Players -> {IDLE, NET_SYNC, PLAYING}] /\ left_room \in SUBSET Slots
  BY DEF ReadyInv, ReadyTypeOK
<1>3. /\ ReadyTypes' /\ ReadyTypeOK' /\ Range(players') \subseteq Slots
      /\ UNCHANGED <<game, signalled, fresh>>
      /\ task'[p].at \in {"idle", "dropping"} /\ \A u \in Tasks : u # p => task'[u] = task[u]
  BY <1>1, <1>2, DropIs
<1>4. QED
  BY <1>1, <1>3, ShrinkKeeps

LEMMA LeaveKeeps ==
  ASSUME ReadyInv, NEW t \in Tasks, NEW p \in Players, Leave(t, p)
  PROVE  ReadyInv'
<1>1. /\ task[t].at = "idle" /\ InRoom(p) /\ p \in Slots /\ clients' = clients
      /\ status' = [status EXCEPT ![p] = IDLE] /\ told' \subseteq told
  BY FreeIs DEF Leave, InRoom
<1>2. /\ left_room \subseteq Slots /\ Slots \ left_room \subseteq clients
      /\ (playing <=> ~ (Slots \subseteq dropped) /\ game > 0) /\ left_room \subseteq dropped
      /\ signalled \subseteq Players /\ told \subseteq Players /\ notified \subseteq Players
      /\ status \in [Players -> {IDLE, NET_SYNC, PLAYING}] /\ p \notin left_room
  BY <1>1 DEF ReadyInv, ReadyTypeOK, InRoom
<1>3. /\ status' \in [Players -> {IDLE, NET_SYNC, PLAYING}]
      /\ \A q \in Players : status'[q] = NET_SYNC => status[q] = NET_SYNC
  BY <1>1, <1>2 DEF IDLE, NET_SYNC
<1>4. CASE playing
  <2>1. execute_drop_game(t, p, left_room \cup {p}) /\ left_room \cup {p} \in SUBSET Slots
    BY <1>1, <1>2, <1>4 DEF Leave
  <2>2. /\ ReadyTypes' /\ ReadyTypeOK' /\ Range(players') \subseteq Slots
        /\ UNCHANGED <<game, signalled, fresh>>
        /\ task'[t].at \in {"idle", "dropping"} /\ \A u \in Tasks : u # t => task'[u] = task[u]
    BY <1>1, <1>3, <1>4, <2>1, DropIs
  <2>3. QED
    BY <1>1, <1>3, <2>2, ShrinkKeeps
<1>5. CASE ~ playing
  <2>1. /\ players' = Without({p})
        /\ UNCHANGED <<left_room, dropped, playing, task, game, signalled, notified, fresh>>
    BY <1>5 DEF Leave
  <2>2. Without({p}) \in Seq(Players) /\ Slots' = Slots \ {p}
    BY <2>1, WithoutIs DEF ReadyInv, ReadyTypes, Slots
  <2>3. ReadyTypes'
    BY <1>1, <2>1, <2>2 DEF ReadyInv, ReadyTypes
  <2>4. ReadyTypeOK'
    BY <1>1, <1>2, <1>3, <1>5, <2>1, <2>2 DEF ReadyTypeOK
  <2>5. Range(players') \subseteq Slots
    BY <2>2 DEF Slots
  <2>6. QED
    BY <1>1, <1>3, <2>1, <2>3, <2>4, <2>5, ShrinkKeeps
<1>6. QED
  BY <1>4, <1>5

LEMMA RemoveClientKeeps ==
  ASSUME ReadyInv, NEW t \in Tasks, NEW p \in Players, RemoveClient(t, p)
  PROVE  ReadyInv'
<1>1. /\ clients' = clients \ {p} /\ ~ InRoom(p) /\ status' = status /\ task' = task
      /\ UNCHANGED <<players, left_room, dropped, playing>>
      /\ UNCHANGED <<game, told, signalled, notified, fresh>> /\ task[t].at = "idle"
  BY FreeIs DEF RemoveClient, room, round
<1>2. ReadyTypes'
  BY <1>1 DEF ReadyInv, ReadyTypes
<1>3. ReadyTypeOK'
  BY <1>1 DEF ReadyInv, ReadyTypeOK, Slots, InRoom
<1>4. QED
  BY <1>1, <1>2, <1>3, ShrinkKeeps DEF Slots

LEMMA StutterKeeps ==
  ASSUME ReadyInv, UNCHANGED vars
  PROVE  ReadyInv'
<1>1. /\ UNCHANGED <<room, clients, game, signalled, fresh, players, told, notified, status, task>>
  BY DEF vars, room, round
<1>2. ReadyTypes' /\ ReadyTypeOK'
  BY <1>1, TypesGoOn DEF ReadyInv, ReadyTypeOK, ReadyTypes
<1>3. Calms
  BY <1>1 DEF Calms, Slots, Still
<1>4. QED
  BY <1>2, <1>3, CalmKeepsStart DEF ReadyInv

LEMMA StepInv ==
  ASSUME ReadyInv, [Next]_vars
  PROVE  ReadyInv'
<1>1. CASE \E t \in Tasks : Continue(t)
  BY <1>1, ResetStatusKeeps, AnnounceKeeps, SendStartKeeps, FetchKeeps, CheckKeeps, MarkKeeps,
     NotifyKeeps DEF Continue
<1>2. ASSUME NEW p \in Players,
             \/ handle_start_game(p) \/ handle_ready_to_play_signal(p) \/ handle_drop_game(p)
      PROVE  ReadyInv'
  BY <1>2, StartKeeps, SignalKeeps, DropKeeps
<1>3. ASSUME NEW p \in Players,
             \/ handle_quit_game(p) \/ Reap(p)
             \/ \E t \in Players : handle_kick_user(t, p)
      PROVE  ReadyInv'
  BY <1>3, LeaveKeeps DEF handle_quit_game, Reap, handle_kick_user, Tasks
<1>4. ASSUME NEW p \in Players, \E t \in Tasks : RemoveClient(t, p)
      PROVE  ReadyInv'
  BY <1>4, RemoveClientKeeps
<1>5. QED
  BY <1>1, <1>2, <1>3, <1>4, StutterKeeps DEF Next

LEMMA AlwaysReady == Spec => []ReadyInv
<1>1. Spec => Init /\ [][Next]_vars
  BY PTL DEF Spec
<1>2. QED
  BY <1>1, InitInv, StepInv, PTL

-----------------------------------------------------------------------------
\* However many play, however many games: nobody is in the room who is no client, and no
\* game goes on without a slot that has not dropped (execute_drop_game, Leave).
THEOREM RoomStaysWhole == Spec => []ReadyTypeOK
BY AlwaysReady, PTL DEF ReadyInv

\* In a game that starts while no handler of an earlier one is at work, all whom a handler
\* is about to tell that everybody is ready have signalled in this game, whatever statuses
\* earlier games left and however drops and departures meet the signals.
THEOREM ReadyMeansAllSignalled == Spec => []NobodyPlaysEarly
<1>1. ReadyInv => NobodyPlaysEarly
  BY DEF ReadyInv, InStart
<1>2. QED
  BY <1>1, AlwaysReady, PTL

=============================================================================
