------------------------------ MODULE ReadyToPlay ------------------------------
(***************************************************************************)
(* The start of a game. The owner's START_GAME sets up the engine, resets  *)
(* everyone's status and tells everyone; each client signals READY_TO_PLAY *)
(* when its emulator has loaded; once all have, the server tells everyone  *)
(* to play (game.rs, sync.rs). The statuses are in the clients, not in the *)
(* game, and are read and set one client at a time while the tasks of the  *)
(* others go on, dropping and leaving included.                            *)
(* Entering and leaving a room are module GameRoom; here a room has the    *)
(* players it starts with, and a start or a departure takes the game's     *)
(* lock once. What is played is module GamePlay.                           *)
(***************************************************************************)
EXTENDS Lists, SequencesExt

CONSTANTS NumPlayers,
          MaxGames    \* bound on the games played in the room

ASSUME ReadyAssumption == NumPlayers \in Nat \ {0} /\ MaxGames \in Nat

Players == 1 .. NumPlayers

\* The session tasks, and the one that removes silent clients.
Cleanup == 0
Tasks == Players \cup {Cleanup}

IDLE == "IDLE"
NET_SYNC == "NET_SYNC"
PLAYING == "PLAYING"

VARIABLES players,    \* the slots of the game, in order
          left_room,  \* tombstones
          dropped,    \* slots dropped from the engine
          playing,    \* game_status is PLAYING
          clients,    \* who is a client of the server
          status,     \* player_status of each client
          task,       \* what each task is doing
          game,       \* the number of games started
          told,       \* who was sent START_GAME and is in the emulator
          signalled,  \* whose READY_TO_PLAY of this game was handled
          notified,   \* who was sent READY_TO_PLAY in this game
          fresh       \* no handler was still at work when this game started

room == <<players, left_room, dropped, playing>>
round == <<game, told, signalled, notified, fresh>>
vars == <<room, clients, status, task, round>>

Idle == [at |-> "idle", todo |-> <<>>, slots |-> <<>>, game |-> 0]

Init == /\ players = [i \in Players |-> i]
        /\ left_room = {} /\ dropped = {} /\ playing = FALSE
        /\ clients = Players /\ status = [p \in Players |-> IDLE]
        /\ task = [t \in Tasks |-> Idle]
        /\ game = 0 /\ told = {} /\ signalled = {} /\ notified = {} /\ fresh = FALSE

-----------------------------------------------------------------------------
Slots == Range(players)
InRoom(p) == p \in Slots \ left_room
Owner(p) == InRoom(p) /\ \A q \in Players : q < p => ~ InRoom(q)
Free(t) == task[t] = Idle /\ (t # Cleanup => t \in clients)
At(t, at) == task[t].at = at
Do(t, at, todo) == task' = [task EXCEPT ![t].at = at, ![t].todo = todo]
Done(t) == task' = [task EXCEPT ![t] = Idle]
Without(left) == Kept(players, {i \in DOMAIN players : players[i] \notin left})

\* handle_start_game, as far as the engine is set up.
handle_start_game(p) ==
  /\ Free(p) /\ Owner(p) /\ ~ playing /\ game < MaxGames
  /\ players' = Without(left_room) /\ left_room' = {}
  /\ playing' = TRUE /\ dropped' = {}
  /\ game' = game + 1 /\ told' = {} /\ signalled' = {} /\ notified' = {}
  /\ fresh' = (\A t \in Tasks : task[t] = Idle)
  /\ Do(p, "starting", Without(left_room))
  /\ UNCHANGED <<clients, status>>

\* The statuses go back to idle one by one, when a game starts and whenever somebody
\* drops; a player who is no client any more is an error, which ends the handler.
ResetStatus(t) ==
  /\ task[t].at \in {"starting", "dropping"} /\ task[t].todo # <<>>
  /\ LET q == Head(task[t].todo)
     IN IF q \in clients
        THEN /\ status' = [status EXCEPT ![q] = IDLE]
             /\ Do(t, task[t].at, Tail(task[t].todo))
        ELSE Done(t) /\ UNCHANGED status
  /\ UNCHANGED <<room, clients, round>>

\* A start goes on to announce the game; the last of a drop is to announce that.
Announce(t) ==
  /\ task[t].at \in {"starting", "dropping"} /\ task[t].todo = <<>>
  /\ IF At(t, "starting") /\ InRoom(t) THEN Do(t, "announcing", players) ELSE Done(t)
  /\ UNCHANGED <<room, clients, status, round>>

\* START_GAME to each player.
SendStart(t) ==
  /\ At(t, "announcing")
  /\ IF task[t].todo = <<>> \/ Head(task[t].todo) \notin clients
     THEN Done(t) /\ UNCHANGED told
     ELSE /\ told' = told \cup {Head(task[t].todo)}
          /\ Do(t, "announcing", Tail(task[t].todo))
  /\ UNCHANGED <<room, clients, status, game, signalled, notified, fresh>>

-----------------------------------------------------------------------------
(***************************************************************************)
(* handle_ready_to_play_signal.                                            *)
(***************************************************************************)
handle_ready_to_play_signal(p) ==
  /\ Free(p) /\ p \in told \ signalled
  /\ signalled' = signalled \cup {p}
  /\ IF status[p] = PLAYING
     THEN UNCHANGED <<status, task>>
     ELSE /\ status' = [status EXCEPT ![p] = NET_SYNC]
          /\ Do(p, "fetching", <<>>)
  /\ UNCHANGED <<room, clients, game, told, notified, fresh>>

Fetch(p) ==
  /\ At(p, "fetching")
  /\ IF InRoom(p)
     THEN task' = [task EXCEPT ![p] = [at |-> "checking", todo |-> <<>>, slots |-> players, game |-> game]]
     ELSE Done(p)
  /\ UNCHANGED <<room, clients, status, round>>

\* Mutation: one who is ready is enough.
Check_any(p) ==
  /\ At(p, "checking")
  /\ IF \E q \in Range(task[p].slots) : q \in clients /\ status[q] = NET_SYNC
     THEN Do(p, "marking", task[p].slots)
     ELSE Done(p)
  /\ UNCHANGED <<room, clients, status, round>>

Check(p) ==
  /\ At(p, "checking")
  /\ IF \A q \in Range(task[p].slots) : q \in clients /\ status[q] = NET_SYNC
     THEN Do(p, "marking", task[p].slots)
     ELSE Done(p)
  /\ UNCHANGED <<room, clients, status, round>>

Mark(p) ==
  /\ At(p, "marking") /\ task[p].todo # <<>>
  /\ LET q == Head(task[p].todo)
     IN status' = IF q \in clients THEN [status EXCEPT ![q] = PLAYING] ELSE status
  /\ Do(p, "marking", Tail(task[p].todo))
  /\ UNCHANGED <<room, clients, round>>

\* Mutation: only the one who signalled last is told.
Notify_sender(p) ==
  /\ At(p, "marking") /\ task[p].todo = <<>>
  /\ notified' = notified \cup ({p} \cap clients)
  /\ Done(p)
  /\ UNCHANGED <<room, clients, status, game, told, signalled, fresh>>

\* broadcast_packet_to_game: to whoever is in the room by now.
Notify(p) ==
  /\ At(p, "marking") /\ task[p].todo = <<>>
  /\ notified' = notified \cup {q \in clients : InRoom(q)}
  /\ Done(p)
  /\ UNCHANGED <<room, clients, status, game, told, signalled, fresh>>

-----------------------------------------------------------------------------
(***************************************************************************)
(* Drops and departures, by the task of the player or by another.          *)
(***************************************************************************)
\* The last drop ends the game; the room keeps who has not left, or is closed.
execute_drop_game(t, p, left) ==
  /\ dropped' = dropped \cup {p}
  /\ LET over == Slots \subseteq dropped'
         staying == Without(left)
     IN /\ playing' = ~ over
        /\ players' = IF over THEN staying ELSE players
        /\ left_room' = IF over THEN {} ELSE left
        /\ IF over /\ staying = <<>> THEN Done(t) ELSE Do(t, "dropping", players)
  /\ UNCHANGED <<game, signalled, notified, fresh>>

handle_drop_game(p) ==
  /\ Free(p) /\ InRoom(p) /\ playing /\ p \notin dropped
  /\ execute_drop_game(p, p, left_room)
  /\ told' = told \ {p}
  /\ UNCHANGED <<clients, status>>

\* handle_quit_game, or a kick: p's client is back in the lobby; his slot is a tombstone,
\* or in a waiting room is gone.
Leave(t, p) ==
  /\ Free(t) /\ InRoom(p)
  /\ status' = [status EXCEPT ![p] = IDLE]
  /\ told' = IF t = p THEN told \ {p} ELSE told
  /\ IF playing
     THEN execute_drop_game(t, p, left_room \cup {p})
     ELSE /\ players' = Without({p})
          /\ UNCHANGED <<left_room, dropped, playing, task, game, signalled, notified, fresh>>
  /\ UNCHANGED clients

handle_quit_game(p) == Leave(p, p)
Reap(p) == Leave(Cleanup, p)
handle_kick_user(t, p) == t # p /\ Owner(t) /\ Leave(t, p)

\* Mutation: a client goes without leaving his game.
RemoveClient_in_room(t, p) ==
  /\ t \in {p, Cleanup} /\ Free(t) /\ p \in clients
  /\ clients' = clients \ {p}
  /\ UNCHANGED <<room, status, task, round>>

RemoveClient(t, p) ==
  /\ t \in {p, Cleanup} /\ Free(t) /\ p \in clients /\ ~ InRoom(p)
  /\ clients' = clients \ {p}
  /\ UNCHANGED <<room, status, task, round>>

-----------------------------------------------------------------------------
Continue(t) ==
  \/ ResetStatus(t) \/ Announce(t) \/ SendStart(t)
  \/ Fetch(t) \/ Check(t) \/ Mark(t) \/ Notify(t)

Next ==
  \/ \E t \in Tasks : Continue(t)
  \/ \E p \in Players :
       \/ handle_start_game(p) \/ handle_ready_to_play_signal(p)
       \/ handle_drop_game(p) \/ handle_quit_game(p) \/ Reap(p)
       \/ \E t \in Players : handle_kick_user(t, p)
       \/ \E t \in Tasks : RemoveClient(t, p)

\* Handlers run to their end, and an emulator that was told to start loads some time.
\* Nobody has to start a game, drop or leave.
Spec == /\ Init /\ [][Next]_vars
        /\ \A t \in Tasks : WF_vars(Continue(t))
        /\ \A p \in Players : WF_vars(handle_ready_to_play_signal(p))

-----------------------------------------------------------------------------
(***************************************************************************)
(* Properties.                                                             *)
(***************************************************************************)
\* Only slots are tombstones, nobody is in the room who is not a client, and no game goes
\* on without a slot that has not dropped.
ReadyTypeOK ==
  /\ left_room \subseteq Slots /\ Slots \ left_room \subseteq clients
  /\ playing <=> ~ (Slots \subseteq dropped) /\ game > 0
  /\ left_room \subseteq dropped
  /\ status \in [Players -> {IDLE, NET_SYNC, PLAYING}]
  /\ signalled \subseteq Players /\ told \subseteq Players /\ notified \subseteq Players

\* "READY_TO_PLAY marks each player NET_SYNC; once all are NET_SYNC the server broadcasts
\* the all-ready notification" (game.rs:659-660): a handler of this game that is about to
\* notify knows that all it counted have signalled in this game. The status it checks is
\* in the client, is shared by all games and is reset by several tasks. A game that starts
\* while a handler of an earlier one is still at work has no such promise: of three
\* players one can then pass for ready by what he signalled in the game before.
NobodyPlaysEarly ==
  \A p \in Players : fresh /\ At(p, "marking") /\ task[p].game = game
    => Range(task[p].slots) \subseteq signalled

\* In a game nobody drops from, everybody is told to play, although each checks a copy of
\* the players and the statuses change under it: whoever signals last sees that all have,
\* or another who saw it has begun to mark them.
EveryoneIsNotified ==
  \A g \in 1 .. MaxGames :
    (game = g /\ fresh /\ dropped = {}) ~> (dropped # {} \/ Slots \subseteq notified)

\* "Server: Enters Playing Mode after receiving Ready to Play Signal Notification [0x15]
\* from all players in room" (game.rs:483): once all players who are in the room have
\* signalled, each of them is told to play, unless he drops or leaves.
AllInRoomAreEnough ==
  \A p \in Players :
    (playing /\ \A q \in Slots \ left_room : q \in signalled \ dropped)
      ~> (~ playing \/ ~ InRoom(p) \/ p \in notified \cup dropped)
===============================================================================
