-------------------------------- MODULE Sessions --------------------------------
(***************************************************************************)
(* Sessions and clients. The session manager (session_manager.rs) gives    *)
(* each address that sends something a task with a channel; the task       *)
(* handles its messages one by one (main.rs) until the channel is dropped  *)
(* or nothing comes for too long. A login (handlers/user.rs) registers a   *)
(* client under the address and under an id (state.rs), after having       *)
(* looked for another of that name. Three more actors end sessions: the    *)
(* manager, on request; the cleanup task; the task that looks for players  *)
(* who send no input. A step is what its actor does under one lock.        *)
(*                                                                         *)
(* The game a client is in, and what quitting it does, is module GameRoom; *)
(* the order and the loss of messages is module PacketStream: a session    *)
(* handles a login if it is its first message and anything else after one. *)
(* Time is how long an address has been silent.                            *)
(***************************************************************************)
EXTENDS Integers, SequencesExt

CONSTANTS Addrs, Names,
          NumAcks,      \* NUM_ACKS_FOR_SPEED_TEST (3)
          QueueSize,    \* messages in the channel of a session (100)
          CloseSize,    \* requests in session_close_tx (1000)
          MaxSessions,  \* bound on the sessions ever spawned
          MaxClients    \* bound on the clients ever registered

ASSUME SessionsAssumption == /\ NumAcks \in Nat /\ MaxSessions \in Nat /\ MaxClients \in Nat
                             /\ QueueSize \in Nat \ {0} /\ CloseSize \in Nat \ {0}

NoClient == 0
NoName == "none"

\* How long nothing was heard from an address: 15 seconds count for nobody who has logged
\* in, SESSION_ALIVE_THRESHOLD_SECS is 30, SESSION_TIMEOUT is 120.
Heard == 0
Stale == 1
TimedOut == 2

VARIABLES sessions,         \* sessions[a]: the session that has a's packets
          session,          \* session[s]: the task of session s
          session_close,    \* the addresses whose session is to be closed
          cleanup,          \* the addresses the cleanup task has yet to remove
          clients_by_addr,  \* a partial function to ids
          clients_by_id,    \* a partial function to clients
          next_user_id,
          silent,           \* silent[a]: Heard, Stale or TimedOut
          listed,           \* those the lobby was told have come, and not that they are gone
          reused,           \* addresses that had a second session before the first had ended
          raced             \* names under which two logins were under way at once

table == <<sessions, session_close, cleanup>>
registry == <<clients_by_addr, clients_by_id, next_user_id, listed>>
history == <<reused, raced>>
vars == <<session, table, registry, silent, history>>

Init == /\ sessions = <<>> /\ session = <<>> /\ session_close = <<>> /\ cleanup = {}
        /\ clients_by_addr = <<>> /\ clients_by_id = <<>> /\ next_user_id = 1
        /\ silent = [a \in Addrs |-> Heard]
        /\ listed = {} /\ reused = {} /\ raced = {}

-----------------------------------------------------------------------------
(***************************************************************************)
(* The registry.                                                           *)
(***************************************************************************)
Put(f, x, y) == [z \in DOMAIN f \cup {x} |-> IF z = x THEN y ELSE f[z]]
Drop(f, x) == [z \in DOMAIN f \ {x} |-> f[z]]

Registered(a) == a \in DOMAIN clients_by_addr
Named(n) == {i \in DOMAIN clients_by_id : clients_by_id[i].name = n}
AddrOf(i) == {a \in DOMAIN clients_by_addr : clients_by_addr[a] = i}

\* Mutation: only the address is forgotten.
RemoveClient_keeps_id(a, told) ==
  /\ clients_by_addr' = Drop(clients_by_addr, a)
  /\ listed' = IF told /\ Registered(a) THEN listed \ {<<clients_by_addr[a], a>>} ELSE listed
  /\ UNCHANGED <<clients_by_id, next_user_id>>

\* remove_client, and what follows if there was one: USER_QUIT to the lobby, or nothing.
RemoveClient(a, told) ==
  /\ clients_by_addr' = Drop(clients_by_addr, a)
  /\ IF Registered(a)
     THEN /\ clients_by_id' = Drop(clients_by_id, clients_by_addr[a])
          /\ listed' = IF told THEN listed \ {<<clients_by_addr[a], a>>} ELSE listed
     ELSE UNCHANGED <<clients_by_id, listed>>
  /\ UNCHANGED next_user_id

-----------------------------------------------------------------------------
(***************************************************************************)
(* The manager's loop: packets and close requests, in any order, but while *)
(* a session has a packet more than its channel holds the manager waits.   *)
(***************************************************************************)
Alive(s) == session[s].at # "done"
At(s, at) == session[s].at = at
Goto(s, at) == session' = [session EXCEPT ![s].at = at]

Ended(a) == [at |-> "done", addr |-> a, queue |-> 0, began |-> FALSE, known |-> FALSE,
             name |-> NoName, client |-> NoClient, old |-> a]

spawn_session_handler(a) ==
  /\ Len(session) < MaxSessions
  /\ session' = Append(session, [Ended(a) EXCEPT !.at = "spawned", !.queue = 1])
  /\ sessions' = Put(sessions, a, Len(session) + 1)
  /\ reused' = IF \E s \in DOMAIN session : Alive(s) /\ session[s].addr = a
               THEN reused \cup {a} ELSE reused

ManagerFree == \A s \in DOMAIN session : session[s].queue <= QueueSize

\* What is in a packet is settled when it is received. One for a session that has just
\* ended is lost.
Packet(a) ==
  /\ ManagerFree
  /\ IF a \in DOMAIN sessions
     THEN /\ session' = [session EXCEPT ![sessions[a]].queue = IF Alive(sessions[a]) THEN @ + 1 ELSE 0]
          /\ UNCHANGED <<sessions, reused>>
     ELSE spawn_session_handler(a)
  /\ UNCHANGED <<session_close, cleanup, registry, silent, raced>>

CloseSession ==
  /\ ManagerFree /\ session_close # <<>>
  /\ sessions' = Drop(sessions, Head(session_close))
  /\ session_close' = Tail(session_close)
  /\ UNCHANGED <<session, cleanup, registry, silent, history>>

\* Mutation: a full channel does not make the caller wait.
close_session_unbounded(a) == session_close' = Append(session_close, a)

close_session(a) == /\ Len(session_close) < CloseSize
                    /\ session_close' = Append(session_close, a)

\* The stall task: a player has sent no input for 15 seconds, whatever else he sent.
ReapPlayer(a) ==
  /\ Registered(a)
  /\ close_session(a)
  /\ UNCHANGED <<session, sessions, cleanup, registry, silent, history>>

-----------------------------------------------------------------------------
(***************************************************************************)
(* The task of a session: receive a message and handle it, until the       *)
(* channel is dropped or nothing comes. A session whose client is known is *)
(* given SESSION_TIMEOUT, another PRE_LOGIN_TIMEOUT.                       *)
(***************************************************************************)
\* Receiving notes the time for the session and for the client. The first message a session
\* handles is a login, later ones are not.
Receive(s, began) ==
  /\ session[s].at \in {"spawned", "receiving"} /\ session[s].queue > 0
  /\ session[s].began = began
  /\ silent' = [silent EXCEPT ![session[s].addr] = Heard]
Received(s) == [session[s] EXCEPT !.queue = @ - 1]

\* A handler ends, and a session that knows no client yet sees whether there is one now.
Again(task, registered) == [task EXCEPT !.at = "receiving", !.known = @ \/ registered,
                                        !.name = NoName, !.client = NoClient, !.old = task.addr]
Handled(s, registered) == session' = [session EXCEPT ![s] = Again(session[s], registered)]

\* A keep-alive, a message of a game; before the login, a message that is not the next one.
Other(s) ==
  /\ \E began \in BOOLEAN : Receive(s, began)
  /\ session' = [session EXCEPT ![s] = Again(Received(s), Registered(session[s].addr))]
  /\ UNCHANGED <<table, registry, history>>

-----------------------------------------------------------------------------
(***************************************************************************)
(* handle_user_login: look for the name, reject the login if its client    *)
(* was heard of late, else quit his game and evict him; then register.     *)
(***************************************************************************)
LoggingIn(s) == session[s].at \in {"evicting", "unlisting", "adding"}
                \/ (At(s, "closing") /\ session[s].name # NoName)

\* Mutation: the stale client of that name is not evicted.
Look_keeps_stale(s) ==
  /\ Receive(s, FALSE)
  /\ \E n \in Names :
       LET login == [Received(s) EXCEPT !.began = TRUE, !.name = n]
           heard == {a \in Addrs : Registered(a) /\ clients_by_addr[a] \in Named(n) /\ silent[a] = Heard}
       IN session' = [session EXCEPT ![s] =
            IF heard = {} THEN [login EXCEPT !.at = "adding"] ELSE Again(login, Registered(login.addr))]
  /\ UNCHANGED <<table, registry, history>>

\* find_client_by_username: an id of that name, then its address. An id without one counts
\* as no client.
Look(s) ==
  /\ Receive(s, FALSE)
  /\ \E n \in Names :
       LET login == [Received(s) EXCEPT !.began = TRUE, !.name = n]
           orphans == {i \in Named(n) : AddrOf(i) = {}}
           taken == {a \in Addrs : Registered(a) /\ clients_by_addr[a] \in Named(n)}
       IN /\ \/ /\ Named(n) = {} \/ orphans # {}
                /\ session' = [session EXCEPT ![s] = [login EXCEPT !.at = "adding"]]
             \/ \E a \in taken : session' = [session EXCEPT ![s] =
                  IF silent[a] = Heard THEN Again(login, Registered(login.addr))
                                       ELSE [login EXCEPT !.at = "evicting"]]
          /\ raced' = IF \E q \in DOMAIN session : LoggingIn(q) /\ session[q].name = n
                      THEN raced \cup {n} ELSE raced
  /\ UNCHANGED <<table, registry, reused>>

\* remove_client_by_username: the id, then his address, then the client.
Evict(s) ==
  /\ At(s, "evicting")
  /\ \/ /\ \E i \in Named(session[s].name), a \in Addrs :
             /\ a \in AddrOf(i)
             /\ clients_by_addr' = Drop(clients_by_addr, a)
             /\ session' = [session EXCEPT ![s].at = "unlisting", ![s].client = i, ![s].old = a]
     \/ /\ Named(session[s].name) = {} \/ \E i \in Named(session[s].name) : AddrOf(i) = {}
        /\ Goto(s, "adding")
        /\ UNCHANGED clients_by_addr
  /\ UNCHANGED <<table, clients_by_id, next_user_id, listed, silent, history>>

Unlist(s) ==
  /\ At(s, "unlisting")
  /\ LET i == session[s].client
     IN /\ clients_by_id' = Drop(clients_by_id, i)
        /\ listed' = listed \ {<<i, session[s].old>>}
        /\ Goto(s, IF i \in DOMAIN clients_by_id THEN "closing" ELSE "adding")
  /\ UNCHANGED <<table, clients_by_addr, next_user_id, silent, history>>

\* The last step of an eviction, and of USER_QUIT: the session of that address is to go.
Close(s) ==
  /\ At(s, "closing")
  /\ close_session(session[s].old)
  /\ IF session[s].name # NoName THEN Goto(s, "adding")
     ELSE Handled(s, Registered(session[s].addr))
  /\ UNCHANGED <<sessions, cleanup, registry, silent, history>>

add_client(s) ==
  /\ At(s, "adding") /\ next_user_id <= MaxClients
  /\ clients_by_id' = Put(clients_by_id, next_user_id,
                          [name |-> session[s].name, acks |-> 0, addr |-> session[s].addr])
  /\ clients_by_addr' = Put(clients_by_addr, session[s].addr, next_user_id)
  /\ next_user_id' = next_user_id + 1
  /\ Handled(s, TRUE)
  /\ UNCHANGED <<table, listed, silent, history>>

-----------------------------------------------------------------------------
\* handle_client_to_server_ack: count the round trip; after the last one the client gets
\* the status, and then the lobby hears of him.
handle_client_to_server_ack(s) ==
  /\ Receive(s, TRUE)
  /\ IF Registered(session[s].addr)
     THEN LET i == clients_by_addr[session[s].addr]
              acks == clients_by_id[i].acks + 1
          IN /\ clients_by_id' = [clients_by_id EXCEPT ![i].acks = IF acks > NumAcks THEN NumAcks + 1 ELSE acks]
             /\ session' = [session EXCEPT ![s] =
                  IF acks > NumAcks THEN [Received(s) EXCEPT !.at = "announcing", !.client = i]
                                    ELSE Again(Received(s), TRUE)]
     ELSE /\ session' = [session EXCEPT ![s] = Again(Received(s), FALSE)]
          /\ UNCHANGED clients_by_id
  /\ UNCHANGED <<table, clients_by_addr, next_user_id, listed, history>>

Announce(s) ==
  /\ At(s, "announcing")
  /\ listed' = listed \cup {<<session[s].client, session[s].addr>>}
  /\ Handled(s, Registered(session[s].addr))
  /\ UNCHANGED <<table, clients_by_addr, clients_by_id, next_user_id, silent, history>>

\* Mutation: the lobby is not told.
handle_user_quit_silently(s) ==
  /\ Receive(s, TRUE)
  /\ RemoveClient(session[s].addr, FALSE)
  /\ session' = [session EXCEPT ![s] = [Received(s) EXCEPT !.at = "closing"]]
  /\ UNCHANGED <<table, history>>

\* handle_user_quit: leave the game, be removed, have the session closed (Close). If leaving
\* fails nothing more is done (Other).
handle_user_quit(s) ==
  /\ Receive(s, TRUE)
  /\ RemoveClient(session[s].addr, TRUE)
  /\ session' = [session EXCEPT ![s] = [Received(s) EXCEPT !.at = "closing"]]
  /\ UNCHANGED <<table, history>>

-----------------------------------------------------------------------------
(***************************************************************************)
(* The end of a session: the client quits his game, is removed and the     *)
(* lobby told; then the session is removed, then whoever is registered     *)
(* under the address, and nobody told.                                     *)
(***************************************************************************)
Quiet(s) == At(s, "receiving") /\ session[s].queue = 0
InTable(s) == session[s].addr \in DOMAIN sessions /\ sessions[session[s].addr] = s

Leave(s) == /\ RemoveClient(session[s].addr, TRUE)
            /\ Goto(s, "untabling")
            /\ UNCHANGED <<table, silent, history>>

\* Mutation: the task returns instead of leaving its loop.
Closed_returns(s) ==
  /\ Quiet(s) /\ ~ InTable(s)
  /\ session' = [session EXCEPT ![s] = Ended(session[s].addr)]
  /\ UNCHANGED <<table, registry, silent, history>>

\* Mutation: the task goes on receiving.
Closed_goes_on(s) == Quiet(s) /\ ~ InTable(s) /\ UNCHANGED vars

Closed(s) == Quiet(s) /\ ~ InTable(s) /\ Leave(s)

TimeOut(s) == /\ Quiet(s) /\ InTable(s)
              /\ session[s].known => silent[session[s].addr] = TimedOut
              /\ Leave(s)

Untable(s) == /\ At(s, "untabling")
              /\ sessions' = Drop(sessions, session[s].addr)
              /\ Goto(s, "unregistering")
              /\ UNCHANGED <<session_close, cleanup, registry, silent, history>>

Unregister(s) == /\ At(s, "unregistering")
                 /\ RemoveClient(session[s].addr, FALSE)
                 /\ session' = [session EXCEPT ![s] = Ended(session[s].addr)]
                 /\ UNCHANGED <<table, silent, history>>

\* start_cleanup_task: every address that has timed out at once; then its client.
Expire ==
  /\ cleanup = {}
  /\ \E expired \in SUBSET DOMAIN sessions \ {{}} :
       /\ expired = {a \in DOMAIN sessions : silent[a] = TimedOut /\ ~ At(sessions[a], "spawned")}
       /\ sessions' = [a \in DOMAIN sessions \ expired |-> sessions[a]]
       /\ cleanup' = expired
  /\ UNCHANGED <<session, session_close, registry, silent, history>>

CleanUp ==
  /\ \E a \in cleanup : cleanup' = cleanup \ {a} /\ RemoveClient(a, TRUE)
  /\ UNCHANGED <<session, sessions, session_close, silent, history>>

-----------------------------------------------------------------------------
\* Time goes by only while the tasks of an address have nothing to do: handling a message
\* takes no half minute.
Wait(a) ==
  /\ silent[a] < TimedOut
  /\ \A s \in DOMAIN session : session[s].addr = a => At(s, "done") \/ (Quiet(s) /\ InTable(s))
  /\ silent' = [silent EXCEPT ![a] = @ + 1]
  /\ UNCHANGED <<session, table, registry, history>>

Task(s) ==
  \/ Other(s) \/ Look(s) \/ Evict(s) \/ Unlist(s) \/ Close(s) \/ add_client(s)
  \/ handle_client_to_server_ack(s) \/ Announce(s) \/ handle_user_quit(s)
  \/ Closed(s) \/ TimeOut(s) \/ Untable(s) \/ Unregister(s)

Next ==
  \/ \E a \in Addrs : Wait(a) \/ ReapPlayer(a) \/ Packet(a)
  \/ CloseSession \/ Expire \/ CleanUp
  \/ \E s \in DOMAIN session : Task(s)

\* The tasks of the sessions are scheduled; nothing makes a client send, and nothing asked
\* of the manager or of the cleanup.
Fairness == \A s \in 1 .. MaxSessions : WF_vars(s \in DOMAIN session /\ Task(s))

Spec == Init /\ [][Next]_vars /\ Fairness

-----------------------------------------------------------------------------
(***************************************************************************)
(* Properties.                                                             *)
(***************************************************************************)
Client == [name : Names, acks : 0 .. NumAcks + 1, addr : Addrs]
TaskRecord == [at : {"spawned", "receiving", "evicting", "unlisting", "closing", "adding", "announcing",
                "untabling", "unregistering", "done"},
          addr : Addrs, queue : 0 .. QueueSize + 1, began : BOOLEAN, known : BOOLEAN,
          name : Names \cup {NoName}, client : 0 .. MaxClients, old : Addrs]

\* The channels of the sessions and of the close requests never hold more than they may,
\* but for the packet the manager waits with.
SessionsTypeOK ==
  /\ DOMAIN sessions \subseteq Addrs /\ \A a \in DOMAIN sessions : sessions[a] \in DOMAIN session
  /\ session \in Seq(TaskRecord) /\ Len(session) <= MaxSessions
  /\ session_close \in Seq(Addrs) /\ Len(session_close) <= CloseSize /\ cleanup \subseteq Addrs
  /\ DOMAIN clients_by_addr \subseteq Addrs /\ DOMAIN clients_by_id \subseteq 1 .. MaxClients
  /\ \A a \in DOMAIN clients_by_addr : clients_by_addr[a] \in 1 .. MaxClients
  /\ \A i \in DOMAIN clients_by_id : clients_by_id[i] \in Client
  /\ next_user_id \in 1 .. MaxClients + 1 /\ silent \in [Addrs -> Heard .. TimedOut]
  /\ listed \subseteq (1 .. MaxClients) \X Addrs
  /\ reused \subseteq Addrs /\ raced \subseteq Names

\* No client outlives the sessions of his address: as long as he is registered a task is
\* there that will remove him (session_manager.rs:558-565), whoever closed what before.
NoClientWithoutSession ==
  \A a \in DOMAIN clients_by_addr : \E s \in DOMAIN session : Alive(s) /\ session[s].addr = a

\* The two maps agree though three actors remove clients under separate locks: whom an
\* address maps to is there; who is there has an address, unless his eviction is between
\* its two locks (state.rs:126-137) or two sessions of his address overlapped, when a login
\* may replace the id the address maps to (state.rs:94-95).
Unlisting(i) == \E s \in DOMAIN session : At(s, "unlisting") /\ session[s].client = i
MapsAgree ==
  /\ \A a \in DOMAIN clients_by_addr : clients_by_addr[a] \in DOMAIN clients_by_id
  /\ \A i \in DOMAIN clients_by_id :
       AddrOf(i) # {} \/ Unlisting(i) \/ clients_by_id[i].addr \in reused

\* A client whose address another of it has taken (state.rs:94-95): his id stays in the map
\* for good, is found by his name, and counts as nobody (state.rs:158-163).
Stranded(n) == \E i \in Named(n) : AddrOf(i) = {} /\ ~ Unlisting(i)

\* "Duplicate username handling: evict stale sessions, reject active ones." (user.rs:52):
\* no two clients have one name, unless two logins under it were under way at once, for
\* nothing is locked between looking for the name and registering it (user.rs:53-142), or
\* a client of that name is stranded.
OneOfAName ==
  \A n \in Names \ raced : ~ Stranded(n) =>
    \A a, b \in DOMAIN clients_by_addr : {clients_by_addr[a], clients_by_addr[b]} \subseteq Named(n) => a = b

\* Whoever the lobby was told of leaves it with a USER_QUIT, by whichever of the four ways
\* he is removed; only the silent removal at the end of a session whose address already has
\* another (session_manager.rs:565) may miss it.
LeaversAreTold ==
  [][\A l \in listed : AddrOf(l[1]) = {l[2]} /\ AddrOf(l[1])' = {}
        => l \notin listed' \/ Unlisting(l[1])' \/ l[2] \in reused]_vars

\* A client of whom nothing is heard for SESSION_TIMEOUT is removed, unless he is heard of
\* after all, though the cleanup, the time-out of his session and a close request may each
\* undo what another waits for.
SilentAreRemoved ==
  \A a \in Addrs : Registered(a) /\ silent[a] = TimedOut
                   ~> ~ (Registered(a) /\ silent[a] = TimedOut)
===============================================================================
