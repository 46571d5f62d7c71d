------------------------------- MODULE LockOrder -------------------------------
(***************************************************************************)
(* The locks of the shared state (state.rs) and who waits for whom. Tasks  *)
(* run the handlers, and a handler mostly takes one lock, lets it go and   *)
(* takes the next: as long as it holds nothing it can wait for nobody's    *)
(* harm. So a call is modelled by its spans, the stretches in which it     *)
(* holds locks, and a task goes through spans as it likes, forever. A span *)
(* is the sequence of what it takes; its guards are dropped at its end.    *)
(* One lock stands for the mutex of each game: no span holds two of them.  *)
(* Left out: what is read and written; the lock of `sessions`, held while  *)
(* nothing else is waited for; the channel of outgoing packets, whose      *)
(* task takes no lock.                                                     *)
(***************************************************************************)
EXTENDS Lists

CONSTANTS Tasks,
          Crews   \* the sets of spans that may be under way together

VARIABLES crew,   \* the spans the tasks choose from
          todo,   \* todo[t]: what t's span has yet to take
          queue   \* queue[l]: who holds or waits for l, in the order of their requests

vars == <<crew, todo, queue>>

Locks == {"clients_by_addr", "clients_by_id", "games", "game"}

-----------------------------------------------------------------------------
(***************************************************************************)
(* The spans of each call.                                                 *)
(***************************************************************************)
Read(l) == [lock |-> l, mode |-> "read"]
Write(l) == [lock |-> l, mode |-> "write"]
Free(l) == [lock |-> l, mode |-> "free"]

get_client == {<<Read("clients_by_addr"), Read("clients_by_id")>>}

\* Mutation: id before addr, as it was before the comment was written.
add_client_id_first == {<<Write("clients_by_id"), Write("clients_by_addr")>>}

add_client == {<<Write("clients_by_addr"), Write("clients_by_id")>>}

remove_client == {<<Write("clients_by_addr"), Write("clients_by_id")>>}

remove_client_by_username ==
  {<<Read("clients_by_id")>>, <<Write("clients_by_addr")>>, <<Write("clients_by_id")>>}

find_client_by_username == {<<Read("clients_by_id")>>, <<Read("clients_by_addr")>>}

update_client == {<<Read("clients_by_addr")>>, <<Write("clients_by_id")>>}

get_all_client_addrs == {<<Read("clients_by_addr")>>}

add_game == {<<Write("games")>>}

\* get_game, and update_game, which finds the game in the same way.
get_game == {<<Read("games")>>, <<Write("game")>>}

remove_game == {<<Write("games")>>, <<Write("game")>>}

\* Mutation: the addresses are collected again under the guard that is already held.
broadcast_nested ==
  {<<Read("clients_by_addr"), Read("clients_by_addr"), Write("clients_by_id")>>}

\* To everybody, and to the players of a game.
broadcast_packet == {<<Read("clients_by_addr"), Write("clients_by_id")>>}

make_server_status ==
  {<<Read("clients_by_addr"), Read("clients_by_id"), Read("games"), Free("games"), Write("game")>>}

\* The report to the master list.
collect == {<<Read("clients_by_id")>>, <<Read("games"), Write("game")>>}

\* Looks at each game, then at each client who has stalled in one.
start_stall_resend_task == get_game \cup get_client

\* The end of a game: the others are told of the waiting room before its lock is let go.
execute_drop_game ==
  {<<Write("game"), Read("clients_by_addr"), Free("clients_by_addr"),
     Read("clients_by_addr"), Write("clients_by_id")>>}

Spans == UNION {get_client, add_client, remove_client, remove_client_by_username,
                find_client_by_username, update_client, get_all_client_addrs, add_game,
                get_game, remove_game, broadcast_packet, make_server_status, collect,
                start_stall_resend_task, execute_drop_game}

-----------------------------------------------------------------------------
(***************************************************************************)
(* tokio's locks are fair: a request is granted when it is compatible with *)
(* every request made before it that is not yet released.                  *)
(***************************************************************************)
Requested(t) == {l \in Locks : \E i \in DOMAIN queue[l] : queue[l][i].task = t}

\* Those t's request for l has to wait for.
Ahead(t, l) ==
  {queue[l][i].task : i \in {i \in DOMAIN queue[l] : \E j \in DOMAIN queue[l] :
     /\ i < j /\ queue[l][j].task = t
     /\ "write" \in {queue[l][i].mode, queue[l][j].mode}}}

WaitsFor(t) == UNION {Ahead(t, l) : l \in Requested(t)}

Without(l, t) == Kept(queue[l], {i \in DOMAIN queue[l] : queue[l][i].task # t})

Init == /\ crew \in Crews
        /\ todo = [t \in Tasks |-> <<>>]
        /\ queue = [l \in Locks |-> <<>>]

\* The next thing a span does: it asks for a lock, or lets one go early.
Take(t, span) ==
  LET next == Head(span)
  IN /\ todo' = [todo EXCEPT ![t] = Tail(span)]
     /\ queue' = [queue EXCEPT ![next.lock] =
                    IF next.mode = "free" THEN Without(next.lock, t)
                    ELSE Append(@, [task |-> t, mode |-> next.mode])]
     /\ UNCHANGED crew

Begin(t) == Requested(t) = {} /\ \E span \in crew : Take(t, span)

Continue(t) == WaitsFor(t) = {} /\ todo[t] # <<>> /\ Take(t, todo[t])

\* The end of a span, or an early return: nobody by that address, no such game, an error.
Return(t) ==
  /\ WaitsFor(t) = {} /\ Requested(t) # {}
  /\ queue' = [l \in Locks |-> Without(l, t)]
  /\ todo' = [todo EXCEPT ![t] = <<>>]
  /\ UNCHANGED crew

Next == \E t \in Tasks : Begin(t) \/ Continue(t) \/ Return(t)

\* A task that has what it asked for goes on: nothing else blocks inside a span.
Spec == Init /\ [][Next]_vars /\ \A t \in Tasks : WF_vars(Continue(t) \/ Return(t))

-----------------------------------------------------------------------------
\* No tasks wait for each other in a circle. This is what the order of the two client maps
\* is kept for: "Login bursts otherwise can deadlock against ACK handling" (state.rs:89-91).
NoCircularWait ==
  \A S \in (SUBSET Tasks) \ {{}} : \E t \in S : WaitsFor(t) \cap S = {}

\* Whoever asks for a lock gets through: no stream of readers or writers keeps a handler
\* waiting for ever, although it takes its locks one at a time.
SpansEnd == \A t \in Tasks : Requested(t) # {} ~> Requested(t) = {}
===============================================================================
