------------------------------- MODULE GameRoom -------------------------------
(***************************************************************************)
(* Rooms, their players and the handlers that change them (handlers/game.rs*)
(* on state.rs). The session task of a client runs one handler at a time; a*)
(* handler takes a lock, changes what it protects, releases it and goes on,*)
(* and between two locks the other tasks move: an action is what a handler *)
(* does under one lock, and task[t] is where the handler of t stands. Reads*)
(* that follow each other with no write between are one action. One more   *)
(* task, Cleanup, removes clients that have gone silent: it stands for the *)
(* session cleanup and for the login that takes over a name.               *)
(*                                                                         *)
(* game_status is PLAYING exactly while there is a sync_manager (both are  *)
(* set under one lock), and `dropped` stands for the two: empty in a       *)
(* waiting room, else one flag per slot of the engine. Messages and        *)
(* player_status, which no handler here reads, are left out.               *)
(***************************************************************************)
EXTENDS Lists, SequencesExt

CONSTANTS Clients,      \* users; a user who comes back is another one (a new id, a new port)
          MaxPlayers,   \* max_players of a room (4)
          LatePackets,  \* may a client still be heard while he is removed for his silence?
          MaxGames      \* bound on the rooms ever created

ASSUME RoomAssumption == MaxPlayers \in Nat \ {0} /\ MaxGames \in Nat /\ LatePackets \in BOOLEAN

Cleanup == "cleanup"
Tasks == Clients \cup {Cleanup}

ASSUME CleanupAssumption == Cleanup \notin Clients

Games == 1 .. MaxGames
NoGame == 0

VARIABLES client,   \* client[c]: is he in the registry, and his game_id
          game,     \* game[g]: the room; a closed one stays here for the handlers
                    \* that hold its Arc
          task      \* task[t]: where t's handler stands, whom and which room it is about

vars == <<client, game, task>>

\* `slots` is the slot execute_drop_game found, or the number of them start_game copied.
Handler(at, who, g, reason) == [at |-> at, who |-> who, game |-> g, reason |-> reason, slots |-> 0]
Idle == Handler("idle", Cleanup, NoGame, "none")
Unused == [open |-> FALSE, owner |-> Cleanup, players |-> <<>>, num_players |-> 0, dropped |-> <<>>]

Init == /\ client = [c \in Clients |-> [registered |-> TRUE, game |-> NoGame]]
        /\ game = [g \in Games |-> Unused]
        /\ task = [t \in Tasks |-> Idle]

-----------------------------------------------------------------------------
(***************************************************************************)
(* A room.                                                                 *)
(***************************************************************************)
Live(r) == r.dropped # <<>>
Member(c) == [addr |-> c, left |-> FALSE]
Present(players) == Kept(players, {i \in DOMAIN players : ~ players[i].left})

\* position() of a client in the list, 0 if he is not there. He is never there twice.
Slot(players, c) ==
  IF \E i \in DOMAIN players : players[i].addr = c
  THEN CHOOSE i \in DOMAIN players : players[i].addr = c
  ELSE 0

\* Mutation: a tombstone still counts as the owner's presence.
MigratedBlind(r) ==
  IF Slot(r.players, r.owner) # 0 \/ Present(r.players) = <<>> THEN r
  ELSE [r EXCEPT !.owner = Present(r.players)[1].addr]

\* migrate_owner_if_needed
Migrated(r) ==
  LET here == Present(r.players)
  IN IF Slot(here, r.owner) # 0 \/ here = <<>> THEN r ELSE [r EXCEPT !.owner = here[1].addr]

\* Mutation: those who left are still counted.
WithPlayersAll(r, players) == [r EXCEPT !.players = players, !.num_players = Len(players)]

WithPlayers(r, players) == [r EXCEPT !.players = players, !.num_players = Len(Present(players))]

\* Mutation: he is taken off the list of a live game too.
WithoutReindexed(r, c) ==
  LET i == Slot(r.players, c)
  IN Migrated(IF i = 0 THEN r ELSE WithPlayers(r, RemoveAt(r.players, i)))

\* The room without c: a tombstone in a live game, nothing in a waiting room.
Without(r, c) ==
  LET i == Slot(r.players, c)
  IN Migrated(WithPlayers(r, CASE i = 0 -> r.players
                               [] i # 0 /\ Live(r) -> [r.players EXCEPT ![i].left = TRUE]
                               [] OTHER -> RemoveAt(r.players, i)))

\* Mutation: the look at the list is spared.
JoinedTwice(r, c) == [r EXCEPT !.players = Append(@, Member(c)), !.num_players = @ + 1]

Joined(r, c) ==
  IF Slot(r.players, c) # 0 THEN r
  ELSE [r EXCEPT !.players = Append(@, Member(c)), !.num_players = @ + 1]

\* Mutation: the list keeps those who left.
EndedUnpurged(r) == Migrated([r EXCEPT !.dropped = <<>>])

\* The last drop ends the game, and those who left during it go from the list.
Ended(r) == Migrated(WithPlayers([r EXCEPT !.dropped = <<>>], Present(r.players)))

-----------------------------------------------------------------------------
(***************************************************************************)
(* A task.                                                                 *)
(***************************************************************************)
BeingReaped(c) == task[Cleanup] # Idle /\ task[Cleanup].who = c
Free(t) == /\ task[t] = Idle
           /\ t \in Clients => client[t].registered /\ (LatePackets \/ ~ BeingReaped(t))
At(t, at) == task[t].at = at
Begin(t, handler) == task' = [task EXCEPT ![t] = handler]
Goto(t, at) == task' = [task EXCEPT ![t].at = at]

\* A handler ends, or fails with `?`. One that says goodbye goes on to remove the client.
End(t) == task' = [task EXCEPT ![t] = IF task[t].reason = "bye" THEN [@ EXCEPT !.at = "unregistering"]
                                                                ELSE Idle]

RoomOf(c) == client[c].game
InRoom(c) == /\ RoomOf(c) # NoGame /\ game[RoomOf(c)].open
             /\ Slot(game[RoomOf(c)].players, c) # 0

\* with_game_mut: the client's game_id, then the room it names, then (at `next`) its lock.
\* update_game panics when there is no such room, and the session's task is no more.
LookUp(t, from, next) ==
  /\ At(t, from)
  /\ LET g == RoomOf(t)
     IN CASE ~ client[t].registered \/ g = NoGame -> End(t)
          [] client[t].registered /\ g # NoGame /\ ~ game[g].open -> Goto(t, "dead")
          [] OTHER -> task' = [task EXCEPT ![t].at = next, ![t].game = g]
  /\ UNCHANGED <<client, game>>

-----------------------------------------------------------------------------
(***************************************************************************)
(* handle_create_game and handle_join_game: look, have the client's game_id*)
(* set, and (a joiner) be put on the list of the room that it names by now.*)
(***************************************************************************)
Create(c) ==
  /\ Free(c) /\ ~ InRoom(c)
  /\ \E g \in Games :
       /\ game[g] = Unused /\ \A h \in 1 .. g - 1 : game[h] # Unused
       /\ game' = [game EXCEPT ![g] = [open |-> TRUE, owner |-> c, players |-> <<Member(c)>>,
                                       num_players |-> 1, dropped |-> <<>>]]
       /\ Begin(c, Handler("entering", c, g, "create"))
  /\ client' = [client EXCEPT ![c].game = NoGame]

Join(c, g) ==
  /\ Free(c) /\ RoomOf(c) = NoGame
  /\ game[g].open /\ ~ Live(game[g]) /\ game[g].num_players < MaxPlayers
  /\ Begin(c, Handler("entering", c, g, "join"))
  /\ UNCHANGED <<client, game>>

Enter(c) ==
  /\ At(c, "entering")
  /\ client' = [client EXCEPT ![c].game = IF client[c].registered THEN task[c].game ELSE @]
  /\ IF client[c].registered /\ task[c].reason = "join" THEN Goto(c, "joining") ELSE End(c)
  /\ UNCHANGED game

JoinRoom(c) ==
  /\ At(c, "pushing")
  /\ game' = [game EXCEPT ![task[c].game] = Joined(@, c)]
  /\ End(c)
  /\ UNCHANGED client

-----------------------------------------------------------------------------
(***************************************************************************)
(* handle_start_game: drop what left the room, copy the list, size the     *)
(* engine by the copy, install it in the room.                             *)
(***************************************************************************)
Start(c) ==
  /\ Free(c) /\ InRoom(c)
  /\ ~ Live(game[RoomOf(c)]) /\ game[RoomOf(c)].owner = c
  /\ Begin(c, Handler("starting", c, RoomOf(c), "start"))
  /\ UNCHANGED <<client, game>>

Compact(c) ==
  /\ At(c, "compacting")
  /\ game' = [game EXCEPT ![task[c].game] = WithPlayers(@, Present(@.players))]
  /\ Goto(c, "copying")
  /\ UNCHANGED client

Copy(c) ==
  /\ At(c, "copying")
  /\ IF client[c].registered /\ RoomOf(c) # NoGame /\ game[RoomOf(c)].open
     THEN task' = [task EXCEPT ![c].at = "sizing", ![c].slots = Len(game[RoomOf(c)].players)]
     ELSE End(c)
  /\ UNCHANGED <<client, game>>

Install(c) ==
  /\ At(c, "installing")
  /\ game' = [game EXCEPT ![task[c].game].dropped = [i \in 1 .. task[c].slots |-> FALSE]]
  /\ End(c)
  /\ UNCHANGED client

-----------------------------------------------------------------------------
(***************************************************************************)
(* handle_quit_game: by QUIT_GAME, and before the client is removed: by    *)
(* USER_QUIT, at the end of his session task (both in his own task), by    *)
(* session cleanup and by a login with his name. handle_kick_user does the *)
(* same to another member, except that it does not close an empty room.    *)
(***************************************************************************)
Quit(t, c, reason) ==
  /\ Free(t) /\ client[c].registered
  /\ IF RoomOf(c) # NoGame /\ game[RoomOf(c)].open
     THEN Begin(t, Handler("leaving", c, RoomOf(c), reason))
     ELSE /\ reason = "bye"
          /\ Begin(t, Handler("unregistering", c, NoGame, reason))
  /\ UNCHANGED <<client, game>>

QuitGame(c) == Quit(c, c, "quit")
UserQuit(c) == Quit(c, c, "bye")

\* He has been silent for half a minute at least: nothing of his is being handled.
Reap(c) == task[c].at \in {"idle", "dead"} /\ Quit(Cleanup, c, "bye")

KickUser(c, k) ==
  /\ Free(c) /\ InRoom(c) /\ game[RoomOf(c)].owner = c
  /\ client[k].registered /\ RoomOf(k) = RoomOf(c)
  /\ Begin(c, Handler("leaving", k, RoomOf(c), "kick"))
  /\ UNCHANGED <<client, game>>

\* Back to the lobby. A quit of one who is no longer registered fails; a kick goes on.
Leave(t) ==
  /\ At(t, "leaving")
  /\ LET c == task[t].who
     IN IF client[c].registered
        THEN client' = [client EXCEPT ![c].game = NoGame] /\ Goto(t, "removing")
        ELSE UNCHANGED client /\ IF task[t].reason = "kick" THEN Goto(t, "removing") ELSE End(t)
  /\ UNCHANGED game

\* Mutation: a kick drops nothing.
TakeOff_kick(t) ==
  /\ At(t, "removing")
  /\ LET g == task[t].game
         r == Without(game[g], task[t].who)
     IN /\ game' = [game EXCEPT ![g] = r]
        /\ IF Live(r) /\ task[t].reason # "kick" THEN Goto(t, "dropping") ELSE Goto(t, "telling")
  /\ UNCHANGED client

TakeOff(t) ==
  /\ At(t, "removing")
  /\ LET g == task[t].game
         r == Without(game[g], task[t].who)
     IN /\ game' = [game EXCEPT ![g] = r]
        /\ CASE Live(r) -> Goto(t, "dropping")
             [] ~ Live(r) /\ r.players = <<>> /\ task[t].reason # "kick" -> Goto(t, "closing")
             [] OTHER -> Goto(t, "telling")
  /\ UNCHANGED client

\* The messages of a quit fail if the room closes before they are out, and with them the
\* rest of USER_QUIT: the client stays registered.
Tell(t) ==
  /\ At(t, "telling")
  /\ \/ End(t)
     \/ /\ t # Cleanup /\ ~ game[task[t].game].open
        /\ Begin(t, Idle)
  /\ UNCHANGED <<client, game>>

RemoveClient(t) ==
  /\ At(t, "unregistering")
  /\ client' = [client EXCEPT ![task[t].who].registered = FALSE]
  /\ Begin(t, Idle)
  /\ UNCHANGED game

-----------------------------------------------------------------------------
(***************************************************************************)
(* execute_drop_game, after a quit or a kick and by DROP_GAME: find the    *)
(* slot, let the lock go, drop the slot; close a room left empty.          *)
(***************************************************************************)
DropGame(c) ==
  /\ Free(c) /\ InRoom(c)
  /\ Begin(c, Handler("dropping", c, RoomOf(c), "drop"))
  /\ UNCHANGED <<client, game>>

Dropped(t) == IF task[t].reason = "drop" THEN End(t) ELSE Goto(t, "telling")

FindSlot(t) ==
  /\ At(t, "dropping")
  /\ LET r == game[task[t].game]
         i == Slot(r.players, task[t].who)
     IN IF client[task[t].who].registered /\ r.open /\ Live(r) /\ i # 0
        THEN task' = [task EXCEPT ![t].at = "marking", ![t].slots = i]
        ELSE Dropped(t)
  /\ UNCHANGED <<client, game>>

\* An engine that has no such slot refuses.
MarkDropped(t) ==
  /\ At(t, "marking")
  /\ LET g == task[t].game
         marked == [game[g] EXCEPT !.dropped[task[t].slots] = TRUE]
         over == \A i \in DOMAIN marked.dropped : marked.dropped[i]
     IN IF game[g].open /\ task[t].slots \in DOMAIN game[g].dropped
        THEN /\ game' = [game EXCEPT ![g] = IF over THEN Ended(marked) ELSE marked]
             /\ IF over THEN Goto(t, "emptying") ELSE Dropped(t)
        ELSE Dropped(t) /\ UNCHANGED game
  /\ UNCHANGED client

CheckEmpty(t) ==
  /\ At(t, "emptying")
  /\ LET r == game[task[t].game]
     IN IF ~ r.open \/ r.players = <<>> THEN Goto(t, "closing") ELSE Dropped(t)
  /\ UNCHANGED <<client, game>>

CloseRoom(t) ==
  /\ At(t, "closing")
  /\ game' = [game EXCEPT ![task[t].game].open = FALSE]
  /\ End(t)
  /\ UNCHANGED client

-----------------------------------------------------------------------------
Next ==
  \/ \E c \in Clients :
       \/ Create(c) \/ Enter(c) \/ JoinRoom(c) \/ LookUp(c, "joining", "pushing")
       \/ Start(c) \/ LookUp(c, "starting", "compacting") \/ Compact(c) \/ Copy(c)
       \/ LookUp(c, "sizing", "installing") \/ Install(c)
       \/ QuitGame(c) \/ UserQuit(c) \/ Reap(c) \/ DropGame(c)
       \/ \E g \in Games : Join(c, g)
       \/ \E k \in Clients : KickUser(c, k)
  \/ \E t \in Tasks :
       \/ Leave(t) \/ TakeOff(t) \/ Tell(t) \/ RemoveClient(t)
       \/ FindSlot(t) \/ MarkDropped(t) \/ CheckEmpty(t) \/ CloseRoom(t)

Spec == Init /\ [][Next]_vars

-----------------------------------------------------------------------------
\* Types: what a room, a client and a handler hold. In particular num_players, which is
\* counted up by a join and recounted by everything else, is the number of players present.
RoomTypeOK ==
  /\ client \in [Clients -> [registered : BOOLEAN, game : Games \cup {NoGame}]]
  /\ \A g \in Games :
       /\ game[g].open \in BOOLEAN /\ game[g].owner \in Tasks
       /\ game[g].players \in Seq([addr : Clients, left : BOOLEAN])
       /\ game[g].dropped \in Seq(BOOLEAN)
       /\ game[g].num_players = Len(Present(game[g].players))
  /\ \A t \in Tasks :
       /\ task[t].who \in Tasks /\ task[t].game \in Games \cup {NoGame} /\ task[t].slots \in Nat
       /\ task[t].at \in {"idle", "dead", "entering", "joining", "pushing", "starting", "compacting",
                          "copying", "sizing", "installing", "leaving", "removing", "telling",
                          "unregistering", "dropping", "marking", "emptying", "closing"}

\* The list of players is the slot index of the engine (game.rs:373-377): as long as a game
\* is live, whoever joins, quits, drops, is kicked or reaped, no player on the list moves to
\* another index and the engine is not replaced by another.
Addrs(r) == [i \in DOMAIN r.players |-> r.players[i].addr]
NeverReindexed ==
  [][\A g \in Games : Live(game[g]) /\ Live(game'[g]) =>
       /\ IsPrefix(Addrs(game[g]), Addrs(game'[g]))
       /\ Len(game'[g].dropped) = Len(game[g].dropped)]_vars

\* A room whose owner is in it never passes into the hands of one who is not, as long as
\* anybody is in it: not when the owner leaves, however he leaves, nor when a game ends and
\* the list is purged of those who left (game.rs:301-312).
Hosted(r) == \E i \in DOMAIN r.players : r.players[i].addr = r.owner /\ ~ r.players[i].left
HostNeverLost ==
  [][\A g \in Games : Hosted(game[g]) /\ Present(game'[g].players) # <<>> => Hosted(game'[g])]_vars

\* Who left during a game is gone when it is over (game.rs:543-545): in a waiting room
\* there is no tombstone, whichever of the drops that race was the last one.
NoTombstoneWaits ==
  \A g \in Games : ~ Live(game[g]) => \A i \in DOMAIN game[g].players : ~ game[g].players[i].left

\* Nobody is twice on the list of a room: position() finds the one slot he has, and who
\* leaves leaves altogether.
NobodyTwice ==
  \A g \in Games : \A i, j \in DOMAIN game[g].players :
    game[g].players[i].addr = game[g].players[j].addr => i = j

\* "a stray ghost can never get a sync slot in the new game" (game.rs:543-545): every slot
\* of a live game's engine has a player on the list.
NoGhostSlot ==
  \A g \in Games : DOMAIN game[g].dropped \subseteq DOMAIN game[g].players

\* "Drop the kicked player's slot so the rest keep playing" (game.rs:1091), and so for who
\* quits: a slot whose player has left an open room is dropped, or a handler is about to do it,
\* unless the player has left the server too. (Then execute_drop_game, which asks the
\* registry for him, fails: after a kick his slot stays.)
LeaversAreDropped ==
  \A g \in Games : \A i \in DOMAIN game[g].dropped :
    LET p == game[g].players[i]
    IN game[g].open /\ i \in DOMAIN game[g].players /\ p.left /\ client[p.addr].registered
       => \/ game[g].dropped[i]
          \/ \E t \in Tasks : /\ task[t].at \in {"dropping", "marking"}
                              /\ task[t].who = p.addr /\ task[t].game = g
==============================================================================
