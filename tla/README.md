# direlera-rs in TLA+

direlera-rs is a Kaillera server: it keeps the emulators of several players in
lockstep by collecting one input per player and frame and giving everybody the
combined frame. This directory holds TLA+ models of the server, the TLC runs
that check them, and TLAPS proofs about them. Paths such as `game.rs:553` are
under `src/src/` (`game.rs`, `sync.rs`, `user.rs`, `util.rs` are in `handlers/`,
`protocol.rs` in `kaillera/`). `PROJECT.json` maps every definition to the lines
it models.

## The system

| part | state | operations | talks to |
|---|---|---|---|
| Input cache (`simplest_game_sync.rs`) | a window of 256 slots and an index from content to slots | push, find, get | the engine |
| Combiner, `SimplestGameSync` | per player: queue of inputs, send buffer, dropped flag; size of an input | process_client_input, mark_player_dropped, both ending in drain_ready_inputs | called by `CachedGameSync` |
| Engine, `CachedGameSync` and `DelayedGameSync` | mirrors of each client's input and output caches, inputs held back at startup, zero frames given | the same two calls | one per live game, under the game's lock |
| Frame delivery (`sync.rs`, `game.rs`) | nothing of its own | handle_game_data, handle_game_cache, execute_drop_game: lock, engine, unlock, send | the registry's packet generators |
| Packet stream (`protocol.rs`, `main.rs`) | next number and last three messages; next number awaited and early messages | make_send_packet, process_packet_in_session | UDP |
| Game room (`game.rs`, `state.rs`) | list of players with tombstones, owner, status, engine | create, join, start, ready, drop, quit, kick | the registry, by `game_id` |
| Registry (`state.rs`) | two maps of clients, one of games, counters | add, remove, update, look up | everybody |
| Session manager (`session_manager.rs`) | a queue and a task per address, last activity | new session, close, cleanup, stall and lobby resends | every handler runs in a session's task |
| Login (`user.rs`, `mod.rs`) | ACK round and ping of a client | login, eviction of a stale client of that name, ACKs | the registry, quit |

A message reaches the task of its sender's session, is put in order there, and
is handled to its end before the next one. So handlers of one client never
overlap and handlers of different clients do, at every `await`. The locks that
matter are that of a game and those of the client maps. No handler keeps one over
its whole run, but a few wait for one while they hold another.

What is hard, and where it is looked at:

* **Two caches that must agree without talking.** Client and server each keep a
  window of what crossed the wire and name contents by position. One store more
  on either side and all later positions mean something else, with no error.
  `InputCache`, `GamePlay`.
* **Startup.** Fast and slow players are told different windows and warm up for
  different times; the first inputs are held back, then flushed while others are
  thrown away. `GamePlay`.
* **Everybody waits for everybody.** A drop must release the rest, and hand out
  what it released. `SimplestGameSync`, `GamePlay`.
* **Work after the lock is released.** Frames are sent after the engine is
  unlocked, and a failed send ends the loop. `FrameDelivery`.
* **Indices that are shared.** A player's index in the list of a room is the
  index of his slot in the engine, and the list changes under other hands.
  `GameRoom`.
* **Lossy, wrapping numbers.** `PacketStream`.
* **Removal racing everything**: quit, kick, timeout, close request, login under the
  same name. `Sessions` for sessions and registry, `GameRoom` and `FrameDelivery`
  for the room and the frames.
* **Status kept per client, used per game.** Everybody's status is read and reset by
  the tasks of all, one client at a time. `ReadyToPlay`.
* **Locks taken inside locks.** `LockOrder`.

## The modules

**CacheWindow** is the plain window: store at the end, lose the oldest, find the
newest. **FifoCache** is the abstract specification of a cache with answers,
**InputCache** the real one with its absolute slot numbers, index and eviction;
it is shown to implement FifoCache. The engine's steps use the plain window. The history variable `answer` holds what the
last call returned. A push of known content keeps both slots, as in the code.

**Lockstep** says what a game promises: one log of complete frames, the same for
everybody, and everybody sent the whole packets of it. **SimplestGameSync** is
the combiner: an action for each of the two calls, the drain in closed form
(`Rounds`, `Row`, `WholeRows`). `contributed` and `sent` are history variables,
by which it is mapped to Lockstep. **SyncLoop** is the same code with its two
`while` loops on flat byte buffers; MCSimplestGameSync checks that the closed
form computes what the loops do.

**DelayedGameSync** puts the other two layers on an instance of the combiner:
resolve a reference, learn the frame size, warm up, catch up, go on; name an
output by its position. **GamePlay** adds the emulators and the wire. A client is
not part of the repository: it is the one the engine's comments and the protocol
documents describe, and it waits for the frame that lies its announced window
back. The windows and warm-ups are those of **StartDelays**, which is the arithmetic
of `handle_start_game`: operators only, no state, floats replaced by integer
division (the code rounds down). GamePlay starts from any configuration and any
pings of its constants; a window shared by all is excluded by an assumption,
because StartDelays shows that players are then out of step by design.

**FrameDelivery** extends the combiner with the session tasks: what each has made
and not yet sent, who is in the game, who is a client. Beside the players' own
tasks there is one that is nobody's, for silent clients. A departure is one step
here, and the steps it is made of are those of GameRoom.

**OrderedChannel** is an ordered channel; **PacketStream** is the numbering and
bundling of one side and the reordering of the other, over a network that loses,
repeats and reorders bundles, and implements it.

**GameRoom** is the room. `client` is what the registry says of a user, `game[g]`
a room, `task[t]` the place where a handler stands. A handler is cut where it
takes a lock; reads that follow each other are one step. `start_game`, for
example, is look (`Start`), look up and purge (`LookUp`, `Compact`), copy the
list (`Copy`), look up and install (`LookUp`, `Install`). A closed room stays in
`game` because handlers that hold its `Arc` can still change it. `update_game` on
a room that is gone panics: the task goes to `"dead"`, and only the cleanup can
remove its client. Left out: messages (except where a failed one stops the
handler), `player_status`, and names.

**ReadyToPlay** is a room from START_GAME to the signal that all are ready, and
again. A handler is cut at each client whose status it reads or sets, because
that is where it lets go of the locks: `ResetStatus` is one round of the loops at
`game.rs:661` and `game.rs:866`, `Check` the look at all statuses, `Mark` one round of
the loop at `sync.rs:339`. `told`, `signalled`, `notified` and `fresh` are history:
what reached whom in this game, and whether it started with no handler of an earlier
one still at work.

**Sessions** is the session manager, the two client maps and the login.
`session[s]` is a task and the channel it receives from, `sessions` the table,
`session_close` the queue of close requests, `cleanup` what the cleanup task has
taken from the table and not yet removed. What a packet holds is decided when it is
received; quitting the game is GameRoom's. `listed` is what the lobby was told.
`reused` and `raced` record that two sessions of an address, or two logins of a
name, overlapped: some properties except those cases, and say why. A packet more
than a channel holds stands for the manager waiting with it (`ManagerFree`).

**LockOrder** has every call as the spans in which it holds locks, and tokio's
fair queues. One lock stands for all games' mutexes: no span holds two. Tasks run
spans of `crew` for ever; the choice of `Crews` in MCLockOrder says which calls
may meet.

**Lists** is what is kept of a list, in its order, told by the positions that are
kept: GameRoom and LockOrder use it where SequencesExt has `SelectSeq`, of which the
provers know nothing. A component's proofs are in the module named after it with
`Proofs`; **FrameDeliveryProofs** has those of the combiner too, **GamePlayProofs**
those of the caches and the delays, and **ListsProofs** the lemmas several of them
share.

The MC modules hold the instances and nothing else. Definitions with a comment
"Mutation:" are variants that a property is known to reject; no specification
uses them.

## What the runs check

| run | shows |
|---|---|
| `input_cache` | types; the index is exact (`IndexExact`); a found position fits the wire and reads back (`FindReadsBack`); it answers as a scan would (`AnswersLikeAScan`, refinement) |
| `combiner` | no input lost, doubled or moved (`Accounted`); a round that can be made is made (`WaitsForALivePlayer`); refinement of Lockstep (`KeepsLockstep`) and equality with the loops (`RunsTheLoop`) |
| `play` | each player's inputs are his presses, shifted by the warm-up and shortened by the catch-up (`FollowsSchedule`); clients decode what was meant for them (`DecodesWhatIsDue`); two emulators at the same frame got the same input (`InStep`); once all that is under way has arrived, a player no further than the others has the frame he needs next, whoever dropped (`NobodyWaits`) |
| `delivery` | in order until a first drop (`InOrderUntilADrop`); nothing lost until somebody leaves the server (`NothingLostWhileAllAreHere`) |
| `packet_stream` | in order, once each (`KeepsOrder`); nothing kept aside goes stale (`PendingIsAhead`); recovery if at most three behind (`RecoversFromTheLastPacket`) |
| `room` | in a live game no player moves to another slot and no engine is replaced (`NeverReindexed`); no tombstone outlives its game (`NoTombstoneWaits`); nobody is listed twice (`NobodyTwice`); the slot of who left is dropped (`LeaversAreDropped`); a room with its host in it never loses its host to nobody (`HostNeverLost`); the player count is right (part of `RoomTypeOK`) |
| `sessions` | a registered client has a task that will remove him (`NoClientWithoutSession`); the two maps agree but for the named overlaps (`MapsAgree`); one client to a name unless two logins of it raced, or a client of it was stranded (`OneOfAName`); the lobby hears of every departure (`LeaversAreTold`); who falls silent is removed (`SilentAreRemoved`) |
| `locks` | no circle of waiting tasks (`NoCircularWait`), and every request is granted in the end (`SpansEnd`), among all calls without `make_server_status`, and among all without the end of a game |
| `ready` | in a game that starts with no handler of an earlier one at work: nobody is told to play before everybody signalled in it (`NobodyPlaysEarly`), and if nobody drops, everybody is told (`EveryoneIsNotified`) |

Three runs show the code doing something else than a comment says:

* `room_start` (`NoGhostSlot`): a quit between start_game's copy of the list and
  the engine it makes leaves a slot that has no player and cannot be dropped.
* `lock_deadlock` (`NoCircularWait`): a login's server status waits for a game while
  it holds the client maps, the end of that game waits for the maps while it holds
  the game.
* `ready_leave` (`AllInRoomAreEnough`): a player who leaves before all are ready
  leaves the others without the ready signal for good.

Other disagreements and surprises met while modelling, which no run states; the
properties above stop where they begin:

* After a drop two tasks can hold frames for one player, and the later can be sent
  first (`InOrderUntilADrop` says until when that is impossible).
* The send loops stop at a player who has left the server; those behind him lose
  frames for good (`NothingLostWhileAllAreHere`).
* The resend tasks repeat the last packet, which holds three messages; a client
  further behind never recovers (`RecoversFromTheLastPacket`).
* A kicked player who leaves the server before the kick has dropped his slot keeps
  it, and the game stops (`LeaversAreDropped` excepts him).
* A drop can hit another player's slot when the game ends and starts again between
  the look-up of the slot and the drop; a room can stay open with nobody in it when
  its owner kicks himself (both in GameRoom).
* USER_JOINED can go out after the client it announces was removed; a close request
  repeated by the stall task can hit the next session of that address; with the
  channel of close requests full, the manager and a session can wait for each other
  (all in Sessions).
* Handlers of a game that is over can make the next look ready. Of three players, one
  can be counted as ready by the status he set in the game before, because the task
  that should have reset it is still on its way: the others are told to play before he
  has loaded (`NobodyPlaysEarly` asks for a fresh game, and says why).
* If a player is gone when start_game resets statuses, the game is PLAYING and
  nobody was told (ReadyToPlay).

### Bounds

* `input_cache`: four contents, three slots, eight pushes: every slot is evicted
  and comes back, and positions just fit.
* `combiner`: three players, one of them with two frames to a packet; an input
  too short for a chunk and one longer than the delay; four inputs each. A
  receiver's buffer is empty, partly full and flushed; drops come at any time.
* `play`: two players and two slots; one has more buttons than slots, so caches
  overflow on all four sides; delays from unequal pings, or fixed at none or one;
  five presses reach steady state after a catch-up. The padding of five warm-up
  frames is left out: it is the same for all. The theorems have it for any number of
  players and slots, and any padding.
* `delivery`: three players and two frames each, the least at which two tasks can
  hold frames of a third. Delay 1 and one content: frames are told apart by number.
* `packet_stream`: numbers come round after 16, twenty messages are sent, a bundle
  comes after at most six others. `MaxAhead` is an assumption about the sender: a
  game's window stops him before he is a whole turn ahead.
* `room`: three users and one room. `MaxPlayers = 2` lets joins be refused, and
  two joins that race still make it three, so there is a middle player. Symmetry
  is sound: no action tells users apart. `LatePackets = FALSE` assumes that a
  client removed for his silence stays silent meanwhile. With TRUE his START_GAME
  can run into the next owner's, and `NeverReindexed` fails.
* `sessions`: two addresses and one name, two sessions and two clients: enough for a
  name contended by two addresses and for an address with two sessions one over the
  other. Channels of one, so that they are full. One ACK completes a
  login: which of several is the last does not matter to any property.
* `locks`: three tasks. A circle needs a reader, a queued writer and a third in
  between at most. Everything may meet but the end of a game with the server status
  of a login; `lock_deadlock` is that meeting.
* `ready`: two players, two games (the second is what a late reset of the first
  can spoil); `ready_leave`: two players and one game.

Deadlock is checked where the model cannot stop; the runs that say otherwise end
with the game, with the last input, or with the last user.

### Fairness

`ReadyToPlay`: a handler that has begun goes on, and an emulator that was told to
start signals in the end. Nobody has to start, drop or leave. `Sessions`: each
session's task goes on when it can; nothing is asked of the manager, of the cleanup,
or of the clients, so that `SilentAreRemoved` holds also while the manager waits.
`LockOrder`: a task that has what it asked for goes on to the end of its span.
`PacketStream`: the sender goes on when he may, and the last packet arrives in the
end, which the periodic resends of `session_manager.rs` give over a network that
does not lose all copies; other bundles may all be lost. The other modules assume
no fairness: their properties are safety.

## What is proved

All for any value of the constants that satisfies the modules' assumptions.

`FrameDeliveryProofs`, the combiner. The invariant is `TypeOK`, `Accounted` (what a player
was sent, and what waits in his buffer and in the queues, is the log and the rest
of the contributions), that packets are whole, and that the input size is known
as soon as there is an input. `DrainKeepsInv` shows that a drain turns a state
with more inputs, or with one more player gone, into one that satisfies it. It rests
on lemmas about the number of rounds (`RoundsUnique`, `RoundsOfRest`), and about the
whole packets of a concatenation (`WholeOfConcat`). From it: `TypeCorrect`,
`AlwaysAccounted`, `NobodyWaitsForTheGone` and `ImplementsLockstep`, for any number
of players, delays and inputs.

`FrameDeliveryProofs`, the delivery. `Accounted` counts the frames made; what is added
is who may send them. Until a player drops, at most one frame is under way: it takes an
input of everybody, and the task that is sending the last one has given none since
(`Sending`). So frames cannot overtake each other, and each task's list of things to
send goes on where the deliveries stop. That needs one frame to a packet
(`OneFrameAPacket`), which is a hypothesis of these theorems and not of the combiner's.
From it: `DeliveryTypesHold`, `FramesComeInOrder` and `NoFrameIsLost`.

`GamePlayProofs`, the caches. `TypeOK /\ IndexExact` is inductive as it stands: the index has,
for each content in the window and no other, exactly its live slots, ascending. The
order is what an eviction needs. It pops the *first* number of the evicted content's
list, which is the evicted slot's only because the lists ascend and the oldest slot
is the least. `PopKeepsExact` and `PushKeepsExact` are the two halves of a push.
From it: `CacheTypesHold`, `IndexAlwaysExact`, `FindAlwaysReadsBack` (a position fits
the wire and means the content asked for) and `CacheIsAScan` (refinement of FifoCache).

`GamePlayProofs`, the delays. Each player's window plus warm-up is computed from the highest
delay (`HighestIsHighest`, `WarmupIs`): with own windows his own delay cancels
(`OwnWindowBalances`), with a shared window it stays, so that two players are in
balance exactly if their delays are equal (`SharedWindowBalancesOnlyEquals`), for any
natural delays of the players of a finite room.

`GamePlayProofs`, the game. Both ends of a channel keep a cache, and they differ while
messages are under way, so that "the caches agree" is no invariant. What is invariant is
that the reader, when he has read all that is under way, will have read the right
contents and have the sender's cache: `Channel` says so, with a cache for each message.
`PlayInv` says it of each player twice: of the inputs he pressed that the server has yet
to handle (`Uplink`), and of the frames due to him that he has yet to decode
(`Downlink`). To it belong how many zero frames he got and which of his inputs are held
back, told from the number of his handled inputs alone (`Startup`), the invariant of the
combiner, and that window and warm-up add up to the same for all (`Settled`, from
`OwnWindowBalances`). A sent message puts one more link to a channel (`SendOn`), a read
one takes the first off (`TakeFirst`). What a call makes for each player is a function
defined by recursion over its outputs; it is shown to exist and to be followed output by
output (`Responding`, `MakesAll`). Of the combiner only two things are used: rows are
added to those handed out, and a row that is missing is owed by somebody who still plays
(`SyncInput`, `SyncDrop`, `SyncHandsOut`, from FrameDeliveryProofs).
From it, for any number of players, caches, delays, pings and drops: `GameTypesHold`,
`InputsFollowTheSchedule`, `ClientsDecodeTheirFrames`, `EmulatorsStayInStep` and
`LockstepNeverLocksUp`.

`ReadyToPlayProofs`. `RoomStaysWhole` is inductive with the types of what the handlers
hold. `ReadyMeansAllSignalled` rests on what the statuses mean, which an earlier game may
have left anyhow. While the starter resets them nobody has been told to start
(`OneStart`), and whoever is still NET_SYNC is on his list (`ResetGoesOn`). Once the game
is announced, whoever is NET_SYNC, of those in the room and of those a handler of this
game has counted, has signalled (`ReadySignalled`). All three need `fresh`: a handler
left over from an earlier game would announce, or set a status, behind the starter's
back.

`LockOrderProofs`. The invariant: a task is in the queue of a lock at most once
(`OneEach`); what its span has yet to take comes after all it has, in the order of
its crew (`Planned`); it waits only for the last of what it asked for (`WaitsLast`).
In a circle of waiting tasks take those that wait for the highest lock, and of them
the first in its queue: whom it waits for holds that lock, and waits for a higher
one. `OrderedNeverDeadlocks` is that for any crews whose spans have an order, any
number of tasks and any fair queues of readers and writers.
`HandlersApartNeverDeadlock` shows that the spans of this code have one when the
status for a login and the end of a game do not meet, and `NoOrderForBoth` that there
is none for the two together: the deadlock of `lock_deadlock` cannot be mended by
reordering the others.

`GameRoomProofs`. The invariant has two halves. `Base` holds whoever is heard: the
types, where a handler can stand and for whom, and that nobody is listed twice (a
joiner who is about to be put on a list is on no list). It gives `RoomTypesHold`,
`NobodyIsTwiceInARoom` and `ARoomKeepsAHost`. `Inv` assumes `~ LatePackets`, as the
run does. Its core is `Chairs`: an owner in the middle of a start or of a kick stays
the owner, because whoever could take him off the list is himself or the cleanup, and
the cleanup comes only for who does nothing (`ReapedIsIdle`). So nobody else starts
a game under his hands, and the index found under one lock (`SlotFound`) still means
the same slot under the next. It gives `AWaitingRoomHasNoTombstone`,
`LeaversSlotsAreDropped` and `SlotsStayPut`, for any users, rooms and sizes.
With late packets the three are false, as the bounds above say of the run.

`SessionsProofs`. The properties become inductive with what they rest on: an id knows
its address (`Registry`); a client being evicted has lost his entry by address
(`Unlisted`); an address that never had two sessions has one task (`OneTask`), and
once its client is registered that task is past its login and not yet at its end
(`Settled`); a name that never had two logins under way has one task logging in
(`OneLogin`), and after the eviction nobody else has the name (`NameFree`). Most
steps only remove clients and begin no login: for these the invariant is shown once
(`CalmStep`). From it: `SessionTypesHold`, `NobodyOutlivesHisSession`, `TheMapsAgree`,
`NamesAreGivenOnce` and `NobodyLeavesUnseen`, for any number of addresses, names,
sessions and clients.

`PacketStreamProofs`. The i-th bundle holds the last messages sent up to the i-th,
each with the number of its place (`SenderOK`). The receiver has taken the first so
many messages, waits for the number of the next, and what he keeps aside is later
and under its own number (`ReceiverOK`). `ProcessOK` is the step of one message: a
message that can arrive is so near the one that is due that its number tells it from
all others, and tells new from old; this is where `StreamAssumption` is used. One
that fits takes with it those that follow on, and no more than there are (`TakeOK`).
The recursive function of the action is shown to exist and to be followed message by
message (`ThroughIs`, `BundleOK`). From it: `StreamTypesHold`,
`KeptMessagesAreAhead`, and `MessagesKeepTheirOrder` (refinement of OrderedChannel).
The assumption holds of the code's numbers (65536, 3, 256) as long as a bundle is not
overtaken by 32767 others and the sender is not a whole turn of the counter ahead.

Three attempts failed for a reason in the model or the code:

* `OneOfAName` was not true as first stated, although its run passed. A second login
  from an address that has a client takes the address over (`state.rs:94-95`); the
  first id stays in `clients_by_id` for good, is what a search for its name finds,
  and counts as nobody (`state.rs:158-163`). Two more logins can then share the name
  without any race. It takes four clients; the run has two. The property now excepts
  such names (`Stranded`).
* `StreamAssumption` allowed numbers of which none looks new (two values), where an
  old bundle can be taken for the message that is due. It now asks for `Half > 0`.
* `NobodyPlaysEarly` was first stated for every game, and its run passed: with two
  players and two games it holds. With three players it does not (see above); it now
  speaks of fresh games.

Every safety invariant and refinement a passing run checks is proved, with one
exception: `RunsTheLoop` is about recursive operators, and stays model-checked. So does
all liveness (`RecoversFromTheLastPacket`, `SilentAreRemoved`, `SpansEnd`,
`EveryoneIsNotified`), which is out of the prover's reach together with ENABLED and
induction over data.

## Not modelled, and what is open

Not modelled: chat (a stateless relay), byte layouts and text encodings, the HTTP
side of the master list, logging, metrics, configuration files and the control
socket: none of them keeps a state another part reads. The millisecond thresholds of
the stall task only choose when a packet is sent again. A client that starts its
message numbers over on a live session is not in PacketStream.

Rooms are not composed with delivery (frames that go to the address of a tombstone
whose owner already plays elsewhere), nor Sessions with GameRoom: each stands in the
other as single steps, and the product is beyond a run of minutes.

Open: a room composed with its frames would show where the frames of a tombstone go;
it needs an abstraction of the engine that is smaller than the combiner.
