---------------------------- MODULE SessionsProofs ----------------------------
(***************************************************************************)
(* The registry of clients and the sessions that keep it, for any number   *)
(* of addresses, names, sessions and clients: the two maps agree, no       *)
(* client outlives the sessions of his address, no name is given twice and *)
(* the lobby hears of every departure, but for the overlaps each property  *)
(* names.                                                                  *)
(*                                                                         *)
(* The invariant (Inv) adds to the properties what they rest on: an id     *)
(* knows its address (Registry); a client being evicted has lost his       *)
(* (Unlisted); an address that never had two sessions has one task, and    *)
(* once its client is registered that task is past its login and not yet   *)
(* at its end (OneTask, Settled); a name that never had two logins under   *)
(* way has one task logging in, and after the eviction nobody else has the *)
(* name (OneLogin, NameFree).                                              *)
(*                                                                         *)
(* Most steps are calm: clients only go (Fewer) and no task begins a login *)
(* (CalmTasks). For those the invariant is shown once (CalmStep).          *)
(***************************************************************************)
EXTENDS Sessions, TLAPS

Logs(r) == r.at \in {"evicting", "unlisting", "adding"} \/ (r.at = "closing" /\ r.name # NoName)
Leaves(r) == r.at \in {"untabling", "unregistering"}

\* What the step of a task says of its record.
StageOK(r) ==
  /\ r.at \in {"evicting", "unlisting", "adding"} => r.name \in Names
  /\ r.at \in {"spawned", "receiving", "announcing"} => r.name = NoName
  /\ r.at \in {"unlisting", "announcing"} => r.client \in 1 .. next_user_id - 1
  /\ Logs(r) => r.began
Stages == \A s \in DOMAIN session : StageOK(session[s])

Registry ==
  /\ \A a \in DOMAIN clients_by_addr : /\ clients_by_addr[a] \in DOMAIN clients_by_id
                                       /\ clients_by_id[clients_by_addr[a]].addr = a
  /\ \A i \in DOMAIN clients_by_id : i < next_user_id

Tracked == \A i \in DOMAIN clients_by_id :
             AddrOf(i) # {} \/ Unlisting(i) \/ clients_by_id[i].addr \in reused

Unlisted ==
  \A s \in DOMAIN session, i \in 1 .. MaxClients : session[s].at = "unlisting" /\ session[s].client = i =>
    /\ AddrOf(i) = {}
    /\ i \in DOMAIN clients_by_id => clients_by_id[i].name = session[s].name

OneTask ==
  \A s, q \in DOMAIN session :
    session[s].at # "done" /\ session[q].at # "done" /\ session[s].addr = session[q].addr /\ session[s].addr \notin reused
      => s = q

Settled ==
  \A s \in DOMAIN session :
    session[s].at # "done" /\ Registered(session[s].addr) /\ session[s].addr \notin reused
      => session[s].began /\ ~ Logs(session[s]) /\ ~ Leaves(session[s])

OneLogin ==
  \A s, q \in DOMAIN session :
    Logs(session[s]) /\ Logs(session[q]) /\ session[s].name = session[q].name /\ session[s].name \notin raced
      => s = q

NameFree ==
  \A s \in DOMAIN session, n \in Names :
    Logs(session[s]) /\ session[s].at # "evicting" /\ session[s].name = n /\ n \notin raced /\ ~ Stranded(n)
      => \A a \in DOMAIN clients_by_addr : clients_by_addr[a] \notin Named(n)

Rest == /\ Registry /\ Tracked /\ Unlisted
        /\ NoClientWithoutSession /\ OneTask /\ Settled
        /\ OneLogin /\ NameFree /\ OneOfAName

Inv == SessionsTypeOK /\ Stages /\ Rest

-----------------------------------------------------------------------------
(***************************************************************************)
(* The pieces of a step.                                                   *)
(***************************************************************************)
LEMMA DropIs ==
  ASSUME NEW f, NEW x
  PROVE  /\ DOMAIN Drop(f, x) = DOMAIN f \ {x}
         /\ \A z \in DOMAIN f \ {x} : Drop(f, x)[z] = f[z]
  BY DEF Drop

LEMMA NoAddr == \A i : AddrOf(i) = {} <=> \A a \in DOMAIN clients_by_addr : clients_by_addr[a] # i
  BY DEF AddrOf

LEMMA NoAddrNext == \A i : AddrOf(i)' = {} <=> \A a \in DOMAIN clients_by_addr' : clients_by_addr'[a] # i
  BY DEF AddrOf

\* One task has moved, the others have not.
Moves(s) == /\ session' \in Seq(TaskRecord) /\ Len(session') = Len(session)
            /\ DOMAIN session' = DOMAIN session
            /\ \A q \in DOMAIN session : q # s => session'[q] = session[q]

LEMMA MoveIs ==
  ASSUME session \in Seq(TaskRecord), NEW s \in DOMAIN session, NEW r \in TaskRecord,
         session' = [session EXCEPT ![s] = r]
  PROVE  Moves(s) /\ session'[s] = r
  BY DEF Moves

LEMMA TaskIs ==
  ASSUME SessionsTypeOK
  PROVE  session \in Seq(TaskRecord) /\ \A s \in DOMAIN session : session[s] \in TaskRecord
  BY DEF SessionsTypeOK

LEMMA EndedIs ==
  ASSUME NEW a \in Addrs
  PROVE  /\ Ended(a) \in TaskRecord
         /\ Ended(a).at = "done" /\ Ended(a).addr = a
  BY SessionsAssumption DEF Ended, TaskRecord, NoClient

\* Receiving takes one message out of the channel.
LEMMA ReceivedIs ==
  ASSUME SessionsTypeOK, NEW s \in DOMAIN session, NEW b, Receive(s, b)
  PROVE  /\ Received(s) \in TaskRecord
         /\ Received(s).at = session[s].at /\ Received(s).addr = session[s].addr
         /\ Received(s).began = session[s].began /\ Received(s).name = session[s].name
         /\ session[s].began = b /\ session[s].at \in {"spawned", "receiving"}
         /\ silent' \in [Addrs -> Heard .. TimedOut]
<1>1. session[s] \in TaskRecord
  BY TaskIs
<1>2. session[s].queue - 1 \in 0 .. QueueSize + 1
  BY <1>1, SessionsAssumption DEF Receive, TaskRecord
<1>3. Received(s) \in TaskRecord
  BY <1>1, <1>2 DEF Received, TaskRecord
<1>4. silent' \in [Addrs -> Heard .. TimedOut]
  BY <1>1 DEF Receive, SessionsTypeOK, TaskRecord, Heard, TimedOut
<1> QED
  BY <1>1, <1>3, <1>4 DEF Received, Receive, TaskRecord

LEMMA AgainIs ==
  ASSUME NEW r \in TaskRecord, NEW b \in BOOLEAN
  PROVE  /\ Again(r, b) \in TaskRecord
         /\ Again(r, b).at = "receiving" /\ Again(r, b).addr = r.addr
         /\ Again(r, b).began = r.began /\ Again(r, b).name = NoName
<1> DEFINE k == r.known \/ b
<1>1. k \in BOOLEAN
  OBVIOUS
<1>2. Again(r, b) = [r EXCEPT !.at = "receiving", !.known = k, !.name = NoName, !.client = NoClient, !.old = r.addr]
  BY DEF Again
<1> HIDE DEF k
<1>3. [r EXCEPT !.at = "receiving", !.known = k, !.name = NoName, !.client = NoClient, !.old = r.addr] \in TaskRecord
  <2>1. r.addr \in Addrs /\ NoClient \in 0 .. MaxClients /\ NoName \in Names \cup {NoName}
    BY SessionsAssumption DEF TaskRecord, NoClient
  <2>2. [r EXCEPT !.at = "receiving", !.known = k] \in TaskRecord
    BY <1>1 DEF TaskRecord
  <2>3. ASSUME NEW v \in TaskRecord, NEW a \in Addrs
        PROVE  [v EXCEPT !.name = NoName, !.client = NoClient, !.old = a] \in TaskRecord
    BY <2>1 DEF TaskRecord
  <2> QED
    BY <2>1, <2>2, <2>3
<1>4. Again(r, b) \in TaskRecord
  BY <1>2, <1>3
<1> QED
  BY <1>2, <1>4 DEF TaskRecord

\* Where the step of a task takes it.
To(s, at, name) == /\ Moves(s)
                   /\ session'[s].at = at /\ session'[s].name = name
                   /\ session'[s].addr = session[s].addr
                   /\ session[s].began => session'[s].began

Ats == {"spawned", "receiving", "evicting", "unlisting", "closing", "adding", "announcing",
        "untabling", "unregistering", "done"}

LEMMA GotoIs ==
  ASSUME SessionsTypeOK, NEW s \in DOMAIN session, NEW at \in Ats, Goto(s, at)
  PROVE  To(s, at, session[s].name) /\ session'[s].client = session[s].client
<1> DEFINE r == [session[s] EXCEPT !.at = at]
<1>1. session[s] \in TaskRecord /\ session \in Seq(TaskRecord)
  BY TaskIs
<1>2. /\ r \in TaskRecord /\ r.at = at /\ r.name = session[s].name /\ r.addr = session[s].addr
      /\ r.began = session[s].began /\ r.client = session[s].client
  BY <1>1 DEF TaskRecord, Ats
<1>3. session' = [session EXCEPT ![s] = r]
  BY DEF Goto
<1> HIDE DEF r
<1> QED
  BY <1>1, <1>2, <1>3, MoveIs DEF To

LEMMA BackIs ==
  ASSUME SessionsTypeOK, NEW s \in DOMAIN session, NEW b \in BOOLEAN, NEW r \in TaskRecord,
         r.addr = session[s].addr, session[s].began => r.began,
         session' = [session EXCEPT ![s] = Again(r, b)]
  PROVE  To(s, "receiving", NoName)
<1>1. session \in Seq(TaskRecord)
  BY TaskIs
<1>2. /\ Again(r, b) \in TaskRecord
      /\ Again(r, b).at = "receiving" /\ Again(r, b).addr = r.addr
      /\ Again(r, b).began = r.began /\ Again(r, b).name = NoName
  BY AgainIs
<1> QED
  BY <1>1, <1>2, MoveIs DEF To

LEMMA HandledIs ==
  ASSUME SessionsTypeOK, NEW s \in DOMAIN session, NEW b \in BOOLEAN, Handled(s, b)
  PROVE  To(s, "receiving", NoName)
  BY BackIs, TaskIs DEF Handled

LEMMA OtherIs ==
  ASSUME SessionsTypeOK, NEW s \in DOMAIN session, Other(s)
  PROVE  /\ To(s, "receiving", NoName) /\ silent' \in [Addrs -> Heard .. TimedOut]
         /\ UNCHANGED <<table, registry, history>>
<1>1. PICK b \in BOOLEAN : Receive(s, b)
  BY DEF Other
<1>2. /\ Received(s) \in TaskRecord
      /\ Received(s).addr = session[s].addr /\ Received(s).began = session[s].began
      /\ silent' \in [Addrs -> Heard .. TimedOut]
  BY <1>1, ReceivedIs
<1>3. Registered(session[s].addr) \in BOOLEAN
  BY DEF Registered
<1> QED
  BY <1>2, <1>3, BackIs DEF Other

\* A login is rejected, or goes on as the only one of its name or is noted.
Begins(s, n) ==
  /\ n \in Names /\ session'[s].began
  /\ session[s].at # "done" /\ ~ Logs(session[s]) /\ ~ session[s].began
  /\ \/ /\ To(s, "adding", n)
        /\ Named(n) = {} \/ \E i \in Named(n) : AddrOf(i) = {}
     \/ To(s, "evicting", n)
  /\ (\E q \in DOMAIN session : LoggingIn(q) /\ session[q].name = n) => n \in raced'

LEMMA LookIs ==
  ASSUME SessionsTypeOK, NEW s \in DOMAIN session, Look(s)
  PROVE  /\ To(s, "receiving", NoName) \/ \E n \in Names : Begins(s, n)
         /\ silent' \in [Addrs -> Heard .. TimedOut]
         /\ raced' \subseteq Names /\ raced \subseteq raced'
         /\ UNCHANGED <<table, registry, reused>>
<1>1. Receive(s, FALSE)
  BY DEF Look
<1>2. /\ Received(s) \in TaskRecord /\ Received(s).at = session[s].at
      /\ Received(s).addr = session[s].addr /\ Received(s).began = session[s].began
      /\ silent' \in [Addrs -> Heard .. TimedOut]
      /\ session[s].at \in {"spawned", "receiving"} /\ session[s].began = FALSE
  BY <1>1, ReceivedIs
<1> DEFINE login(n) == [Received(s) EXCEPT !.began = TRUE, !.name = n]
           orphans(n) == {i \in Named(n) : AddrOf(i) = {}}
<1>3. PICK n \in Names :
        /\ \/ /\ Named(n) = {} \/ orphans(n) # {}
              /\ session' = [session EXCEPT ![s] = [login(n) EXCEPT !.at = "adding"]]
           \/ \E a \in Addrs : session' = [session EXCEPT ![s] =
                IF silent[a] = Heard THEN Again(login(n), Registered(login(n).addr))
                                     ELSE [login(n) EXCEPT !.at = "evicting"]]
        /\ raced' = IF \E q \in DOMAIN session : LoggingIn(q) /\ session[q].name = n
                    THEN raced \cup {n} ELSE raced
  BY DEF Look
<1>4. raced' \subseteq Names /\ raced \subseteq raced'
  BY <1>3 DEF SessionsTypeOK
<1>5. /\ login(n) \in TaskRecord /\ login(n).addr = session[s].addr /\ login(n).began = TRUE
  BY <1>2 DEF TaskRecord
<1>6. ASSUME NEW at \in {"adding", "evicting"}, session' = [session EXCEPT ![s] = [login(n) EXCEPT !.at = at]]
      PROVE  To(s, at, n) /\ session'[s].began
  <2> DEFINE r == [login(n) EXCEPT !.at = at]
  <2>1. r \in TaskRecord /\ r.at = at /\ r.addr = session[s].addr /\ r.began = TRUE /\ r.name = n
    BY <1>2, <1>5 DEF TaskRecord
  <2>2. session' = [session EXCEPT ![s] = r]
    BY <1>6
  <2> HIDE DEF r
  <2> QED
    BY <2>1, <2>2, TaskIs, MoveIs DEF To
<1>7. ~ Logs(session[s]) /\ session[s].at # "done"
  BY <1>2 DEF Logs
<1>8. (\E q \in DOMAIN session : LoggingIn(q) /\ session[q].name = n) => n \in raced'
  BY <1>3
<1>9. CASE /\ Named(n) = {} \/ orphans(n) # {}
           /\ session' = [session EXCEPT ![s] = [login(n) EXCEPT !.at = "adding"]]
  <2>1. To(s, "adding", n) /\ session'[s].began
    BY <1>6, <1>9
  <2>2. Begins(s, n)
    BY <1>2, <1>7, <1>8, <1>9, <2>1 DEF Begins
  <2> QED
    BY <1>2, <1>4, <2>2 DEF Look
<1>10. ASSUME NEW a \in Addrs, silent[a] = Heard,
              session' = [session EXCEPT ![s] = Again(login(n), Registered(login(n).addr))]
       PROVE  To(s, "receiving", NoName)
  <2> HIDE DEF login
  <2>1. Registered(login(n).addr) \in BOOLEAN
    BY DEF Registered
  <2> QED
    BY <1>5, <1>10, <2>1, BackIs
<1>11. ASSUME NEW a \in Addrs, session' = [session EXCEPT ![s] = [login(n) EXCEPT !.at = "evicting"]]
       PROVE  Begins(s, n)
  <2>1. To(s, "evicting", n) /\ session'[s].began
    BY <1>6, <1>11
  <2> QED
    BY <1>2, <1>7, <1>8, <2>1 DEF Begins
<1> HIDE DEF login
<1>12. To(s, "receiving", NoName) \/ \E m \in Names : Begins(s, m)
  BY <1>3, <1>9, <1>10, <1>11
<1> QED
  BY <1>2, <1>4, <1>12 DEF Look

-----------------------------------------------------------------------------
(***************************************************************************)
(* Calm steps: clients only go, and no task begins a login.                *)
(***************************************************************************)
\* Of the clients that stay everything stays; one that goes takes his address with him,
\* or has lost it to the one who evicts him.
Fewer ==
  /\ DOMAIN clients_by_addr' \subseteq DOMAIN clients_by_addr
  /\ \A a \in DOMAIN clients_by_addr' : /\ clients_by_addr'[a] = clients_by_addr[a]
                                        /\ clients_by_addr[a] \in DOMAIN clients_by_id'
  /\ DOMAIN clients_by_id' \subseteq DOMAIN clients_by_id
  /\ \A i \in DOMAIN clients_by_id' : /\ clients_by_id'[i].name = clients_by_id[i].name
                                      /\ clients_by_id'[i].addr = clients_by_id[i].addr
  /\ \A a \in DOMAIN clients_by_addr : clients_by_addr[a] \in DOMAIN clients_by_id' => a \in DOMAIN clients_by_addr'
  /\ \A i \in DOMAIN clients_by_id : i \notin DOMAIN clients_by_id' => AddrOf(i) # {} \/ Unlisting(i)
  /\ next_user_id' = next_user_id

Calm(old, new) ==
  /\ new.addr = old.addr /\ (new.at # "done" /\ old.began => new.began)
  /\ Logs(new) => Logs(old) /\ new.name = old.name /\ (old.at = "evicting" => new.at = "evicting")
  /\ new.at = "unlisting" => old.at = "unlisting" /\ new.client = old.client
  /\ old.at = "unlisting" => \/ new.at = "unlisting"
                             \/ old.client \notin DOMAIN clients_by_id'
  /\ new.at # "done" => old.at # "done"
  /\ (Leaves(new) /\ ~ Leaves(old)) \/ (new.at = "done" /\ old.at # "done")
       => old.addr \notin DOMAIN clients_by_addr'

CalmTasks == /\ DOMAIN session' = DOMAIN session
             /\ \A s \in DOMAIN session : Calm(session[s], session'[s])

LEMMA StillCalm == ASSUME NEW r PROVE Calm(r, r)
  BY DEF Calm

LEMMA OneCalm ==
  ASSUME NEW s \in DOMAIN session, Moves(s), Calm(session[s], session'[s])
  PROVE  CalmTasks
  BY StillCalm DEF Moves, CalmTasks

\* Who is stranded stays so.
LEMMA StrandedStays ==
  ASSUME Inv, Fewer, CalmTasks, NEW n, Stranded(n)
  PROVE  Stranded(n)'
<1>1. PICK i \in Named(n) : AddrOf(i) = {} /\ ~ Unlisting(i)
  BY DEF Stranded
<1>2. i \in DOMAIN clients_by_id /\ clients_by_id[i].name = n
  BY DEF Named
<1>3. i \in DOMAIN clients_by_id' /\ clients_by_id'[i].name = n
  BY <1>1, <1>2 DEF Fewer
<1>4. AddrOf(i)' = {}
  BY <1>1, NoAddr, NoAddrNext DEF Fewer
<1>5. ~ Unlisting(i)'
  BY <1>1 DEF Unlisting, At, CalmTasks, Calm
<1> QED
  BY <1>3, <1>4, <1>5 DEF Stranded, Named

LEMMA CalmStep ==
  ASSUME Inv, Fewer, CalmTasks, reused' = reused, raced \subseteq raced'
  PROVE  Rest'
<1>1. Rest
  BY DEF Inv
<1>2. DOMAIN session' = DOMAIN session
  BY DEF CalmTasks
<1>3. \A s \in DOMAIN session : Calm(session[s], session'[s])
  BY DEF CalmTasks
<1>4. Registry'
  BY <1>1 DEF Rest, Registry, Fewer
<1>5. Tracked'
  <2> SUFFICES ASSUME NEW i \in DOMAIN clients_by_id'
               PROVE  AddrOf(i)' # {} \/ Unlisting(i)' \/ clients_by_id'[i].addr \in reused'
    BY DEF Tracked
  <2>1. AddrOf(i) # {} \/ Unlisting(i) \/ clients_by_id[i].addr \in reused
    BY <1>1 DEF Rest, Tracked, Fewer
  <2>2. CASE AddrOf(i) # {}
    BY <2>2, NoAddr, NoAddrNext DEF Fewer
  <2>3. CASE Unlisting(i)
    BY <1>2, <1>3, <2>3 DEF Unlisting, At, Calm
  <2>4. CASE clients_by_id[i].addr \in reused
    BY <2>4 DEF Fewer
  <2> QED
    BY <2>1, <2>2, <2>3, <2>4
<1>6. Unlisted'
  <2> SUFFICES ASSUME NEW s \in DOMAIN session', NEW i \in 1 .. MaxClients,
                      session'[s].at = "unlisting", session'[s].client = i
               PROVE  /\ AddrOf(i)' = {}
                      /\ i \in DOMAIN clients_by_id' => clients_by_id'[i].name = session'[s].name
    BY DEF Unlisted
  <2>1. /\ s \in DOMAIN session /\ session[s].at = "unlisting" /\ session[s].client = i
        /\ session'[s].name = session[s].name
    BY <1>2, <1>3 DEF Calm, Logs
  <2>2. AddrOf(i) = {} /\ (i \in DOMAIN clients_by_id => clients_by_id[i].name = session[s].name)
    BY <1>1, <2>1 DEF Rest, Unlisted
  <2>3. AddrOf(i)' = {}
    BY <2>2, NoAddr, NoAddrNext DEF Fewer
  <2> QED
    BY <2>1, <2>2, <2>3 DEF Fewer
<1>7. NoClientWithoutSession'
  <2> SUFFICES ASSUME NEW a \in DOMAIN clients_by_addr'
               PROVE  \E s \in DOMAIN session' : session'[s].at # "done" /\ session'[s].addr = a
    BY DEF NoClientWithoutSession, Alive
  <2>1. PICK s \in DOMAIN session : session[s].at # "done" /\ session[s].addr = a
    BY <1>1 DEF Rest, NoClientWithoutSession, Alive, Fewer
  <2> QED
    BY <1>2, <1>3, <2>1 DEF Calm
<1>8. OneTask'
  BY <1>1, <1>2, <1>3 DEF Rest, OneTask, Calm
<1>9. Settled'
  <2> SUFFICES ASSUME NEW s \in DOMAIN session', session'[s].at # "done",
                      session'[s].addr \in DOMAIN clients_by_addr', session'[s].addr \notin reused
               PROVE  session'[s].began /\ ~ Logs(session'[s]) /\ ~ Leaves(session'[s])
    BY DEF Settled, Registered
  <2>1. /\ s \in DOMAIN session /\ session[s].at # "done" /\ session'[s].addr = session[s].addr
        /\ session[s].addr \in DOMAIN clients_by_addr
    BY <1>2, <1>3 DEF Calm, Fewer
  <2>2. session[s].began /\ ~ Logs(session[s]) /\ ~ Leaves(session[s])
    BY <1>1, <2>1 DEF Rest, Settled, Registered
  <2> QED
    BY <1>3, <2>1, <2>2 DEF Calm
<1>10. OneLogin'
  BY <1>1, <1>2, <1>3 DEF Rest, OneLogin, Calm
<1>11. NameFree'
  <2> SUFFICES ASSUME NEW s \in DOMAIN session', NEW n \in Names,
                      Logs(session'[s]), session'[s].at # "evicting", session'[s].name = n,
                      n \notin raced', ~ Stranded(n)', NEW a \in DOMAIN clients_by_addr'
               PROVE  clients_by_addr'[a] \notin Named(n)'
    BY DEF NameFree
  <2>1. s \in DOMAIN session /\ Logs(session[s]) /\ session[s].at # "evicting" /\ session[s].name = n
    BY <1>2, <1>3 DEF Calm
  <2>2. n \notin raced /\ ~ Stranded(n)
    BY StrandedStays
  <2>3. clients_by_addr[a] \notin Named(n)
    BY <1>1, <2>1, <2>2 DEF Rest, NameFree, Fewer
  <2> QED
    BY <2>3 DEF Named, Fewer
<1>12. OneOfAName'
  <2> SUFFICES ASSUME NEW n \in Names \ raced', ~ Stranded(n)',
                      NEW a \in DOMAIN clients_by_addr', NEW b \in DOMAIN clients_by_addr',
                      {clients_by_addr'[a], clients_by_addr'[b]} \subseteq Named(n)'
               PROVE  a = b
    BY DEF OneOfAName
  <2>1. n \in Names \ raced /\ ~ Stranded(n)
    BY StrandedStays
  <2>2. a \in DOMAIN clients_by_addr /\ b \in DOMAIN clients_by_addr
    BY DEF Fewer
  <2>3. {clients_by_addr[a], clients_by_addr[b]} \subseteq Named(n)
    BY DEF Fewer, Named
  <2> QED
    BY <1>1, <2>1, <2>2, <2>3 DEF Rest, OneOfAName
<1> QED
  BY <1>4, <1>5, <1>6, <1>7, <1>8, <1>9, <1>10, <1>11, <1>12 DEF Rest

-----------------------------------------------------------------------------
(***************************************************************************)
(* What the parts of a calm step are.                                      *)
(***************************************************************************)
TableOK ==
  /\ DOMAIN sessions \subseteq Addrs /\ \A a \in DOMAIN sessions : sessions[a] \in DOMAIN session
  /\ session_close \in Seq(Addrs) /\ Len(session_close) <= CloseSize /\ cleanup \subseteq Addrs

RegistryOK ==
  /\ DOMAIN clients_by_addr \subseteq Addrs /\ DOMAIN clients_by_id \subseteq 1 .. MaxClients
  /\ \A a \in DOMAIN clients_by_addr : clients_by_addr[a] \in 1 .. MaxClients
  /\ \A i \in DOMAIN clients_by_id : clients_by_id[i] \in Client
  /\ next_user_id \in 1 .. MaxClients + 1
  /\ listed \subseteq (1 .. MaxClients) \X Addrs

LEMMA TypeIs ==
  SessionsTypeOK <=> /\ TableOK /\ RegistryOK
                     /\ session \in Seq(TaskRecord) /\ Len(session) <= MaxSessions
                     /\ silent \in [Addrs -> Heard .. TimedOut]
                     /\ reused \subseteq Addrs /\ raced \subseteq Names
  BY DEF SessionsTypeOK, TableOK, RegistryOK

LEMMA TypeIsNext ==
  SessionsTypeOK' <=> /\ TableOK' /\ RegistryOK'
                      /\ session' \in Seq(TaskRecord) /\ Len(session') <= MaxSessions
                      /\ silent' \in [Addrs -> Heard .. TimedOut]
                      /\ reused' \subseteq Addrs /\ raced' \subseteq Names
  BY DEF SessionsTypeOK, TableOK, RegistryOK

LEMMA NothingForgotten ==
  ASSUME Inv, UNCHANGED registry
  PROVE  Fewer /\ RegistryOK'
<1>1. Registry /\ RegistryOK
  BY TypeIs DEF Inv, Rest
<1>2. UNCHANGED <<clients_by_addr, clients_by_id, next_user_id, listed>>
  BY DEF registry
<1>3. RegistryOK'
  BY <1>1, <1>2 DEF RegistryOK
<1> QED
  BY <1>1, <1>2, <1>3 DEF Fewer, Registry

\* Removing who is registered under an address, if anybody.
LEMMA RemoveIs ==
  ASSUME Inv, NEW a, NEW told \in BOOLEAN, RemoveClient(a, told)
  PROVE  /\ Fewer /\ RegistryOK'
         /\ a \notin DOMAIN clients_by_addr'
         /\ \A b \in DOMAIN clients_by_addr : b # a => b \in DOMAIN clients_by_addr'
<1>1. Registry /\ RegistryOK
  BY TypeIs DEF Inv, Rest
<1>2. /\ DOMAIN clients_by_addr' = DOMAIN clients_by_addr \ {a}
      /\ \A b \in DOMAIN clients_by_addr \ {a} : clients_by_addr'[b] = clients_by_addr[b]
  BY DropIs DEF RemoveClient
<1>3. next_user_id' = next_user_id /\ listed' \subseteq listed
  BY DEF RemoveClient
<1>4. CASE ~ Registered(a)
  <2>1. clients_by_id' = clients_by_id
    BY <1>4 DEF RemoveClient
  <2>2. RegistryOK'
    BY <1>1, <1>2, <1>3, <2>1 DEF RegistryOK
  <2>3. Fewer
    BY <1>1, <1>2, <1>3, <1>4, <2>1 DEF Fewer, Registry, Registered
  <2> QED
    BY <1>2, <2>2, <2>3
<1>5. CASE Registered(a)
  <2> DEFINE i == clients_by_addr[a]
  <2>1. a \in DOMAIN clients_by_addr /\ clients_by_id' = Drop(clients_by_id, i)
    BY <1>5 DEF RemoveClient, Registered
  <2>2. i \in DOMAIN clients_by_id /\ clients_by_id[i].addr = a
    BY <1>1, <2>1 DEF Registry
  <2>3. \A b \in DOMAIN clients_by_addr : b # a => clients_by_addr[b] # i
    BY <1>1, <2>2 DEF Registry
  <2>4. AddrOf(i) # {}
    BY <2>1, NoAddr
  <2> HIDE DEF i
  <2>5. /\ DOMAIN clients_by_id' = DOMAIN clients_by_id \ {i}
        /\ \A j \in DOMAIN clients_by_id \ {i} : clients_by_id'[j] = clients_by_id[j]
    BY <2>1, DropIs
  <2>6. RegistryOK'
    BY <1>1, <1>2, <1>3, <2>5 DEF RegistryOK
  <2>7. i \notin DOMAIN clients_by_id' /\ clients_by_addr[a] = i
    BY <2>5 DEF i
  <2>8. Fewer
    BY <1>1, <1>2, <1>3, <2>3, <2>4, <2>5, <2>7 DEF Fewer, Registry
  <2> QED
    BY <1>2, <2>6, <2>8
<1> QED
  BY <1>4, <1>5

LEMMA CalmInv ==
  ASSUME Inv, Fewer, RegistryOK', TableOK', CalmTasks, Stages',
         session' \in Seq(TaskRecord), Len(session') = Len(session),
         silent' \in [Addrs -> Heard .. TimedOut],
         reused' = reused, raced \subseteq raced', raced' \subseteq Names
  PROVE  Inv'
<1>1. SessionsTypeOK'
  BY TypeIs, TypeIsNext DEF Inv
<1>2. Rest'
  BY CalmStep
<1> QED
  BY <1>1, <1>2 DEF Inv

\* A calm step of one task.
LEMMA TaskCalm ==
  ASSUME Inv, Fewer, RegistryOK', TableOK', NEW s \in DOMAIN session, Moves(s),
         StageOK(session'[s]), Calm(session[s], session'[s]),
         silent' \in [Addrs -> Heard .. TimedOut],
         reused' = reused, raced \subseteq raced', raced' \subseteq Names
  PROVE  Inv'
<1>1. next_user_id' = next_user_id /\ Stages
  BY DEF Fewer, Inv
<1>2. Stages'
  <2> SUFFICES ASSUME NEW q \in DOMAIN session' PROVE StageOK(session[q])'
    BY DEF Stages
  <2>1. q \in DOMAIN session /\ (q # s => session'[q] = session[q])
    BY DEF Moves
  <2>2. StageOK(session'[q])
    BY <1>1, <2>1 DEF Stages
  <2> QED
    BY <1>1, <2>2 DEF StageOK, Logs
<1>3. CalmTasks
  BY OneCalm
<1>4. session' \in Seq(TaskRecord) /\ Len(session') = Len(session)
  BY DEF Moves
<1> QED
  BY <1>2, <1>3, <1>4, CalmInv

\* A calm step of no task.
LEMMA OthersCalm ==
  ASSUME Inv, Fewer, RegistryOK', TableOK', UNCHANGED session,
         silent' \in [Addrs -> Heard .. TimedOut], UNCHANGED history
  PROVE  Inv'
<1>1. Stages /\ next_user_id' = next_user_id
  BY DEF Fewer, Inv
<1>2. Stages'
  BY <1>1 DEF Stages, StageOK, Logs
<1>3. CalmTasks
  BY StillCalm DEF CalmTasks
<1>4. session \in Seq(TaskRecord) /\ raced \subseteq Names
  BY TypeIs DEF Inv
<1>5. reused' = reused /\ raced' = raced
  BY DEF history
<1>6. session' \in Seq(TaskRecord) /\ Len(session') = Len(session)
  BY <1>4
<1>7. raced \subseteq raced' /\ raced' \subseteq Names
  BY <1>4, <1>5
<1> QED
  BY <1>2, <1>3, <1>5, <1>6, <1>7, CalmInv

\* The table stays well-formed while no session is forgotten.
LEMMA TableStays ==
  ASSUME Inv, DOMAIN session' = DOMAIN session, UNCHANGED table
  PROVE  TableOK'
<1>1. TableOK /\ UNCHANGED <<sessions, session_close, cleanup>>
  BY TypeIs DEF Inv, table
<1> QED
  BY <1>1 DEF TableOK

\* The channel of close requests.
LEMMA CloseIs ==
  ASSUME Inv, DOMAIN session' = DOMAIN session, UNCHANGED <<sessions, cleanup>>,
         NEW a \in Addrs, close_session(a)
  PROVE  TableOK'
<1>1. TableOK
  BY TypeIs DEF Inv
<1>2. session_close' \in Seq(Addrs) /\ Len(session_close') <= CloseSize
  BY <1>1, SessionsAssumption DEF TableOK, close_session
<1> QED
  BY <1>1, <1>2 DEF TableOK

-----------------------------------------------------------------------------
(***************************************************************************)
(* The calm steps.                                                         *)
(***************************************************************************)
LEMMA WaitInv ==
  ASSUME Inv, NEW a \in Addrs, Wait(a)
  PROVE  Inv'
<1>1. /\ UNCHANGED session /\ UNCHANGED table /\ UNCHANGED registry /\ UNCHANGED history
      /\ silent[a] < TimedOut /\ silent' = [silent EXCEPT ![a] = @ + 1]
  BY DEF Wait
<1>2. silent' \in [Addrs -> Heard .. TimedOut]
  <2>1. silent \in [Addrs -> Heard .. TimedOut]
    BY TypeIs DEF Inv
  <2> QED
    BY <1>1, <2>1 DEF Heard, TimedOut
<1>3. Fewer /\ RegistryOK'
  BY <1>1, NothingForgotten
<1>4. TableOK'
  BY <1>1, TableStays
<1> QED
  BY <1>1, <1>2, <1>3, <1>4, OthersCalm

LEMMA ReapInv ==
  ASSUME Inv, NEW a \in Addrs, ReapPlayer(a)
  PROVE  Inv'
<1>1. /\ UNCHANGED session /\ UNCHANGED <<sessions, cleanup>> /\ UNCHANGED registry
      /\ UNCHANGED silent /\ UNCHANGED history /\ close_session(a)
  BY DEF ReapPlayer
<1>2. Fewer /\ RegistryOK'
  BY <1>1, NothingForgotten
<1>3. TableOK'
  BY <1>1, CloseIs
<1>4. silent' \in [Addrs -> Heard .. TimedOut]
  BY <1>1, TypeIs DEF Inv
<1> QED
  BY <1>1, <1>2, <1>3, <1>4, OthersCalm

LEMMA CloseSessionInv ==
  ASSUME Inv, CloseSession
  PROVE  Inv'
<1>1. /\ UNCHANGED session /\ UNCHANGED cleanup /\ UNCHANGED registry
      /\ UNCHANGED silent /\ UNCHANGED history
  BY DEF CloseSession
<1>2. Fewer /\ RegistryOK'
  BY <1>1, NothingForgotten
<1>3. TableOK /\ silent \in [Addrs -> Heard .. TimedOut]
  BY TypeIs DEF Inv
<1>4. session_close' \in Seq(Addrs) /\ Len(session_close') <= CloseSize
  BY <1>3, SessionsAssumption DEF CloseSession, TableOK
<1>5. /\ DOMAIN sessions' \subseteq DOMAIN sessions
      /\ \A a \in DOMAIN sessions' : sessions'[a] = sessions[a]
  BY DropIs DEF CloseSession
<1>6. TableOK'
  BY <1>1, <1>3, <1>4, <1>5 DEF TableOK
<1> QED
  BY <1>1, <1>2, <1>3, <1>6, OthersCalm

LEMMA ExpireInv ==
  ASSUME Inv, Expire
  PROVE  Inv'
<1>1. /\ UNCHANGED session /\ UNCHANGED session_close /\ UNCHANGED registry
      /\ UNCHANGED silent /\ UNCHANGED history
  BY DEF Expire
<1>2. Fewer /\ RegistryOK'
  BY <1>1, NothingForgotten
<1>3. TableOK /\ silent \in [Addrs -> Heard .. TimedOut]
  BY TypeIs DEF Inv
<1>4. PICK expired \in SUBSET DOMAIN sessions :
        /\ sessions' = [a \in DOMAIN sessions \ expired |-> sessions[a]]
        /\ cleanup' = expired
  BY DEF Expire
<1>5. TableOK'
  BY <1>1, <1>3, <1>4 DEF TableOK
<1> QED
  BY <1>1, <1>2, <1>3, <1>5, OthersCalm

LEMMA CleanUpInv ==
  ASSUME Inv, CleanUp
  PROVE  Inv'
<1>1. /\ UNCHANGED session /\ UNCHANGED <<sessions, session_close>>
      /\ UNCHANGED silent /\ UNCHANGED history
  BY DEF CleanUp
<1>2. PICK a \in cleanup : cleanup' = cleanup \ {a} /\ RemoveClient(a, TRUE)
  BY DEF CleanUp
<1>3. Fewer /\ RegistryOK'
  BY <1>2, RemoveIs
<1>4. TableOK /\ silent \in [Addrs -> Heard .. TimedOut]
  BY TypeIs DEF Inv
<1>5. TableOK'
  BY <1>1, <1>2, <1>4 DEF TableOK
<1> QED
  BY <1>1, <1>3, <1>4, <1>5, OthersCalm

\* A packet for a session that is there.
LEMMA DeliverInv ==
  ASSUME Inv, NEW a \in DOMAIN sessions, Packet(a)
  PROVE  Inv'
<1> DEFINE s == sessions[a]
           left == IF Alive(s) THEN session[s].queue + 1 ELSE 0
           r == [session[s] EXCEPT !.queue = left]
<1>1. /\ UNCHANGED table /\ UNCHANGED registry /\ UNCHANGED silent /\ UNCHANGED history
      /\ session' = [session EXCEPT ![s] = r] /\ ManagerFree
  <2>1. UNCHANGED <<sessions, reused, session_close, cleanup, registry, silent, raced>>
    BY DEF Packet
  <2> QED
    BY <2>1 DEF Packet, table, history
<1>2. s \in DOMAIN session
  BY TypeIs DEF Inv, TableOK
<1>3. session[s] \in TaskRecord /\ session \in Seq(TaskRecord)
  BY <1>2, TaskIs DEF Inv
<1> HIDE DEF s
<1>4. left \in 0 .. QueueSize + 1
  BY <1>1, <1>2, <1>3, SessionsAssumption DEF ManagerFree, TaskRecord
<1> HIDE DEF left
<1>5. /\ r \in TaskRecord /\ r.at = session[s].at /\ r.addr = session[s].addr /\ r.began = session[s].began
      /\ r.name = session[s].name /\ r.client = session[s].client
  BY <1>3, <1>4 DEF TaskRecord
<1> HIDE DEF r
<1>6. Moves(s) /\ session'[s] = r
  BY <1>1, <1>2, <1>3, <1>5, MoveIs
<1>7. StageOK(session'[s])
  BY <1>2, <1>5, <1>6 DEF Inv, Stages, StageOK, Logs
<1>8. Calm(session[s], session'[s])
  BY <1>5, <1>6 DEF Calm, Logs, Leaves
<1>9. Fewer /\ RegistryOK'
  BY <1>1, NothingForgotten
<1>10. TableOK'
  BY <1>1, <1>6, TableStays DEF Moves
<1>11. silent' \in [Addrs -> Heard .. TimedOut] /\ reused' = reused /\ raced' = raced /\ raced \subseteq Names
  BY <1>1, TypeIs DEF Inv, history
<1> QED
  BY <1>2, <1>6, <1>7, <1>8, <1>9, <1>10, <1>11, TaskCalm

\* Back to receiving, a login given up or something else handled.
LEMMA BackCalm ==
  ASSUME Inv, NEW s \in DOMAIN session, To(s, "receiving", NoName),
         session[s].at \in {"spawned", "receiving", "closing", "announcing", "adding"}
  PROVE  /\ Moves(s) /\ StageOK(session'[s]) /\ Calm(session[s], session'[s])
         /\ DOMAIN session' = DOMAIN session
  BY DEF To, Moves, StageOK, Calm, Logs, Leaves

LEMMA UnchangedIs ==
  ASSUME Inv, UNCHANGED history
  PROVE  reused' = reused /\ raced \subseteq raced' /\ raced' \subseteq Names
  BY TypeIs DEF Inv, history

LEMMA OtherInv ==
  ASSUME Inv, NEW s \in DOMAIN session, Other(s)
  PROVE  Inv'
<1>1. /\ To(s, "receiving", NoName) /\ silent' \in [Addrs -> Heard .. TimedOut]
      /\ UNCHANGED table /\ UNCHANGED registry /\ UNCHANGED history
  BY OtherIs DEF Inv
<1>2. session[s].at \in {"spawned", "receiving"}
  BY DEF Other, Receive
<1>3. /\ Moves(s) /\ StageOK(session'[s]) /\ Calm(session[s], session'[s])
      /\ DOMAIN session' = DOMAIN session
  BY <1>1, <1>2, BackCalm
<1>4. Fewer /\ RegistryOK' /\ TableOK'
  BY <1>1, <1>3, NothingForgotten, TableStays
<1> QED
  BY <1>1, <1>3, <1>4, UnchangedIs, TaskCalm

LEMMA RejectInv ==
  ASSUME Inv, NEW s \in DOMAIN session, Look(s), To(s, "receiving", NoName)
  PROVE  Inv'
<1>1. /\ silent' \in [Addrs -> Heard .. TimedOut]
      /\ raced' \subseteq Names /\ raced \subseteq raced'
      /\ UNCHANGED table /\ UNCHANGED registry /\ UNCHANGED reused
  BY LookIs DEF Inv
<1>2. session[s].at \in {"spawned", "receiving"}
  BY DEF Look, Receive
<1>3. /\ Moves(s) /\ StageOK(session'[s]) /\ Calm(session[s], session'[s])
      /\ DOMAIN session' = DOMAIN session
  BY <1>1, <1>2, BackCalm
<1>4. Fewer /\ RegistryOK' /\ TableOK'
  BY <1>1, <1>3, NothingForgotten, TableStays
<1> QED
  BY <1>1, <1>3, <1>4, TaskCalm

LEMMA UnlistInv ==
  ASSUME Inv, NEW s \in DOMAIN session, Unlist(s)
  PROVE  Inv'
<1> DEFINE i == session[s].client
           at == IF i \in DOMAIN clients_by_id THEN "closing" ELSE "adding"
<1>1. /\ session[s].at = "unlisting" /\ clients_by_id' = Drop(clients_by_id, i) /\ listed' \subseteq listed
      /\ Goto(s, at) /\ UNCHANGED <<clients_by_addr, next_user_id, silent>>
      /\ UNCHANGED table /\ UNCHANGED history
  BY DEF Unlist, At
<1>2. i \in 1 .. MaxClients /\ session[s].name \in Names /\ session[s].began
  <2>1. RegistryOK /\ StageOK(session[s])
    BY TypeIs DEF Inv, Stages
  <2> QED
    BY <1>1, <2>1, SessionsAssumption DEF StageOK, RegistryOK, Logs
<1>3. AddrOf(i) = {} /\ Unlisting(i)
  BY <1>1, <1>2 DEF Inv, Rest, Unlisted, Unlisting, At
<1>4. To(s, at, session[s].name)
  BY <1>1, GotoIs DEF Inv, Ats
<1>5. at \in {"closing", "adding"}
  OBVIOUS
<1>6. session[s].client = i
  OBVIOUS
<1> HIDE DEF i, at
<1>7. /\ DOMAIN clients_by_id' = DOMAIN clients_by_id \ {i}
      /\ \A j \in DOMAIN clients_by_id \ {i} : clients_by_id'[j] = clients_by_id[j]
  BY <1>1, DropIs
<1>8. Registry /\ RegistryOK /\ silent \in [Addrs -> Heard .. TimedOut]
  BY TypeIs DEF Inv, Rest
<1>9. RegistryOK'
  BY <1>1, <1>7, <1>8 DEF RegistryOK
<1>10. \A a \in DOMAIN clients_by_addr : clients_by_addr[a] # i
  BY <1>3, NoAddr
<1>11. Fewer
  BY <1>1, <1>3, <1>7, <1>8, <1>10 DEF Fewer, Registry
<1>12. Moves(s) /\ DOMAIN session' = DOMAIN session
  BY <1>4 DEF To, Moves
<1>13. StageOK(session'[s])
  BY <1>2, <1>4, <1>5 DEF To, StageOK, Logs
<1>14. Calm(session[s], session'[s])
  <2>1. i \notin DOMAIN clients_by_id'
    BY <1>7
  <2> QED
    BY <1>1, <1>4, <1>5, <1>6, <2>1 DEF To, Calm, Logs, Leaves
<1>15. TableOK'
  BY <1>1, <1>12, TableStays
<1>16. silent' \in [Addrs -> Heard .. TimedOut]
  BY <1>1, <1>8
<1> QED
  BY <1>1, <1>9, <1>11, <1>12, <1>13, <1>14, <1>15, <1>16, UnchangedIs, TaskCalm

LEMMA CloseInv ==
  ASSUME Inv, NEW s \in DOMAIN session, Close(s)
  PROVE  Inv'
<1>1. /\ session[s].at = "closing" /\ close_session(session[s].old)
      /\ UNCHANGED <<sessions, cleanup>> /\ UNCHANGED registry /\ UNCHANGED silent /\ UNCHANGED history
  BY DEF Close, At
<1>2. session[s] \in TaskRecord /\ StageOK(session[s]) /\ silent \in [Addrs -> Heard .. TimedOut]
  BY TaskIs, TypeIs DEF Inv, Stages
<1>3. /\ Moves(s) /\ StageOK(session'[s]) /\ Calm(session[s], session'[s])
      /\ DOMAIN session' = DOMAIN session
  <2>1. CASE session[s].name # NoName
    <3>1. To(s, "adding", session[s].name)
      BY <2>1, GotoIs DEF Close, Inv, Ats
    <3>2. session[s].name \in Names /\ session[s].began
      BY <1>1, <1>2, <2>1 DEF TaskRecord, StageOK, Logs
    <3> QED
      BY <1>1, <2>1, <3>1, <3>2 DEF To, Moves, StageOK, Calm, Logs, Leaves
  <2>2. CASE session[s].name = NoName
    <3>1. Handled(s, Registered(session[s].addr)) /\ Registered(session[s].addr) \in BOOLEAN
      BY <2>2 DEF Close, Registered
    <3>2. To(s, "receiving", NoName)
      BY <3>1, HandledIs DEF Inv
    <3> QED
      BY <1>1, <3>2, BackCalm
  <2> QED
    BY <2>1, <2>2
<1>4. Fewer /\ RegistryOK'
  BY <1>1, NothingForgotten
<1>5. TableOK'
  <2>1. session[s].old \in Addrs
    BY <1>2 DEF TaskRecord
  <2> QED
    BY <1>1, <1>3, <2>1, CloseIs
<1>6. silent' \in [Addrs -> Heard .. TimedOut]
  BY <1>1, <1>2
<1> QED
  BY <1>1, <1>3, <1>4, <1>5, <1>6, UnchangedIs, TaskCalm

LEMMA AckInv ==
  ASSUME Inv, NEW s \in DOMAIN session, handle_client_to_server_ack(s)
  PROVE  Inv'
<1> DEFINE a == session[s].addr
           i == clients_by_addr[a]
           acks == clients_by_id[i].acks + 1
           counted == IF acks > NumAcks THEN NumAcks + 1 ELSE acks
<1>1. /\ Receive(s, TRUE) /\ UNCHANGED table /\ UNCHANGED history
      /\ UNCHANGED <<clients_by_addr, next_user_id, listed>>
  BY DEF handle_client_to_server_ack
<1>2. /\ Received(s) \in TaskRecord
      /\ Received(s).addr = a /\ Received(s).began = session[s].began /\ Received(s).name = session[s].name
      /\ session[s].began /\ session[s].at \in {"spawned", "receiving"}
      /\ silent' \in [Addrs -> Heard .. TimedOut]
  BY <1>1, ReceivedIs DEF Inv
<1>3. Registry /\ RegistryOK /\ StageOK(session[s])
  BY TypeIs DEF Inv, Rest, Stages
<1>4. reused' = reused /\ raced \subseteq raced' /\ raced' \subseteq Names
  BY <1>1, UnchangedIs
<1>5. CASE ~ Registered(a)
  <2>1. session' = [session EXCEPT ![s] = Again(Received(s), FALSE)] /\ UNCHANGED clients_by_id
    BY <1>5 DEF handle_client_to_server_ack
  <2>2. To(s, "receiving", NoName)
    BY <1>2, <2>1, BackIs DEF Inv
  <2>3. /\ Moves(s) /\ StageOK(session'[s]) /\ Calm(session[s], session'[s])
        /\ DOMAIN session' = DOMAIN session
    BY <1>2, <2>2, BackCalm
  <2>4. UNCHANGED registry
    BY <1>1, <2>1 DEF registry
  <2>5. Fewer /\ RegistryOK' /\ TableOK'
    BY <1>1, <2>3, <2>4, NothingForgotten, TableStays
  <2> QED
    BY <1>2, <1>4, <2>3, <2>5, TaskCalm
<1>6. CASE Registered(a)
  <2>1. clients_by_id' = [clients_by_id EXCEPT ![i].acks = counted]
    BY <1>6 DEF handle_client_to_server_ack
  <2>2. \/ session' = [session EXCEPT ![s] = [Received(s) EXCEPT !.at = "announcing", !.client = i]]
        \/ session' = [session EXCEPT ![s] = Again(Received(s), TRUE)]
    BY <1>6 DEF handle_client_to_server_ack
  <2>3. /\ i \in DOMAIN clients_by_id /\ i \in 1 .. MaxClients /\ i < next_user_id
        /\ next_user_id \in 1 .. MaxClients + 1 /\ clients_by_id[i] \in Client
    BY <1>3, <1>6 DEF Registered, Registry, RegistryOK
  <2>4. counted \in 0 .. NumAcks + 1
    BY <2>3, SessionsAssumption DEF Client
  <2> HIDE DEF i, counted
  <2>5. /\ DOMAIN clients_by_id' = DOMAIN clients_by_id
        /\ \A j \in DOMAIN clients_by_id : /\ clients_by_id'[j] \in Client
                                           /\ clients_by_id'[j].name = clients_by_id[j].name
                                           /\ clients_by_id'[j].addr = clients_by_id[j].addr
    <3>1. \A j \in DOMAIN clients_by_id : clients_by_id[j] \in Client
      BY <1>3 DEF RegistryOK
    <3>2. /\ DOMAIN clients_by_id' = DOMAIN clients_by_id
          /\ \A j \in DOMAIN clients_by_id : j # i => clients_by_id'[j] = clients_by_id[j]
          /\ clients_by_id'[i] = [clients_by_id[i] EXCEPT !.acks = counted]
      BY <2>1, <2>3
    <3>3. /\ [clients_by_id[i] EXCEPT !.acks = counted] \in Client
          /\ [clients_by_id[i] EXCEPT !.acks = counted].name = clients_by_id[i].name
          /\ [clients_by_id[i] EXCEPT !.acks = counted].addr = clients_by_id[i].addr
      BY <2>3, <2>4 DEF Client
    <3> QED
      BY <3>1, <3>2, <3>3
  <2>6. Fewer /\ RegistryOK'
    <3>1. Fewer
      BY <1>1, <1>3, <2>5 DEF Fewer, Registry
    <3>2. RegistryOK'
      BY <1>1, <1>3, <2>5 DEF RegistryOK
    <3> QED
      BY <3>1, <3>2
  <2>7. /\ Moves(s) /\ StageOK(session'[s]) /\ Calm(session[s], session'[s])
        /\ DOMAIN session' = DOMAIN session
    <3>1. CASE session' = [session EXCEPT ![s] = Again(Received(s), TRUE)]
      <4>1. To(s, "receiving", NoName)
        BY <1>2, <3>1, BackIs DEF Inv
      <4> QED
        BY <1>2, <4>1, BackCalm
    <3>2. CASE session' = [session EXCEPT ![s] = [Received(s) EXCEPT !.at = "announcing", !.client = i]]
      <4> DEFINE r == [Received(s) EXCEPT !.at = "announcing", !.client = i]
      <4>1. /\ r \in TaskRecord /\ r.at = "announcing" /\ r.client = i /\ r.addr = a
            /\ r.began = session[s].began /\ r.name = session[s].name
        <5>1. i \in 0 .. MaxClients
          BY <2>3, SessionsAssumption
        <5> QED
          BY <1>2, <5>1 DEF TaskRecord
      <4>2. session' = [session EXCEPT ![s] = r]
        BY <3>2
      <4> HIDE DEF r
      <4>3. Moves(s) /\ session'[s] = r
        BY <4>1, <4>2, TaskIs, MoveIs DEF Inv
      <4>4. session[s].name = NoName
        BY <1>2, <1>3 DEF StageOK
      <4>5. StageOK(session'[s])
        BY <2>3, <4>1, <4>3, <4>4 DEF StageOK, Logs
      <4>6. Calm(session[s], session'[s])
        BY <1>2, <4>1, <4>3 DEF Calm, Logs, Leaves
      <4> QED
        BY <4>3, <4>5, <4>6 DEF Moves
    <3> QED
      BY <2>2, <3>1, <3>2
  <2>8. TableOK'
    BY <1>1, <2>7, TableStays
  <2> QED
    BY <1>2, <1>4, <2>6, <2>7, <2>8, TaskCalm
<1> QED
  BY <1>5, <1>6

LEMMA AnnounceInv ==
  ASSUME Inv, NEW s \in DOMAIN session, Announce(s)
  PROVE  Inv'
<1>1. /\ session[s].at = "announcing"
      /\ listed' = listed \cup {<<session[s].client, session[s].addr>>}
      /\ Handled(s, Registered(session[s].addr)) /\ Registered(session[s].addr) \in BOOLEAN
      /\ UNCHANGED table /\ UNCHANGED <<clients_by_addr, clients_by_id, next_user_id, silent>>
      /\ UNCHANGED history
  BY DEF Announce, At, Registered
<1>2. To(s, "receiving", NoName)
  BY <1>1, HandledIs DEF Inv
<1>3. /\ Moves(s) /\ StageOK(session'[s]) /\ Calm(session[s], session'[s])
      /\ DOMAIN session' = DOMAIN session
  BY <1>1, <1>2, BackCalm
<1>4. Registry /\ RegistryOK /\ StageOK(session[s]) /\ session[s] \in TaskRecord
      /\ silent \in [Addrs -> Heard .. TimedOut]
  BY TypeIs, TaskIs DEF Inv, Rest, Stages
<1>5. <<session[s].client, session[s].addr>> \in (1 .. MaxClients) \X Addrs
  BY <1>1, <1>4, SessionsAssumption DEF StageOK, RegistryOK, TaskRecord
<1>6. RegistryOK'
  BY <1>1, <1>4, <1>5 DEF RegistryOK
<1>7. Fewer
  BY <1>1, <1>4 DEF Fewer, Registry
<1>8. TableOK'
  BY <1>1, <1>3, TableStays
<1>9. silent' \in [Addrs -> Heard .. TimedOut]
  BY <1>1, <1>4
<1> QED
  BY <1>1, <1>3, <1>6, <1>7, <1>8, <1>9, UnchangedIs, TaskCalm

LEMMA QuitInv ==
  ASSUME Inv, NEW s \in DOMAIN session, handle_user_quit(s)
  PROVE  Inv'
<1> DEFINE r == [Received(s) EXCEPT !.at = "closing"]
<1>1. /\ Receive(s, TRUE) /\ RemoveClient(session[s].addr, TRUE)
      /\ session' = [session EXCEPT ![s] = r]
      /\ UNCHANGED table /\ UNCHANGED history
  BY DEF handle_user_quit
<1>2. /\ Received(s) \in TaskRecord
      /\ Received(s).addr = session[s].addr /\ Received(s).began = session[s].began
      /\ Received(s).name = session[s].name
      /\ session[s].began /\ session[s].at \in {"spawned", "receiving"}
      /\ silent' \in [Addrs -> Heard .. TimedOut]
  BY <1>1, ReceivedIs DEF Inv
<1>3. /\ r \in TaskRecord /\ r.at = "closing" /\ r.addr = session[s].addr
      /\ r.began = session[s].began /\ r.name = session[s].name
  BY <1>2 DEF TaskRecord
<1> HIDE DEF r
<1>4. Moves(s) /\ session'[s] = r
  BY <1>1, <1>3, TaskIs, MoveIs DEF Inv
<1>5. session[s].name = NoName
  BY <1>2 DEF Inv, Stages, StageOK
<1>6. StageOK(session'[s]) /\ Calm(session[s], session'[s])
  BY <1>2, <1>3, <1>4, <1>5 DEF StageOK, Calm, Logs, Leaves
<1>7. Fewer /\ RegistryOK'
  BY <1>1, RemoveIs
<1>8. TableOK'
  BY <1>1, <1>4, TableStays DEF Moves
<1> QED
  BY <1>1, <1>2, <1>4, <1>6, <1>7, <1>8, UnchangedIs, TaskCalm

LEMMA LeaveInv ==
  ASSUME Inv, NEW s \in DOMAIN session, Leave(s), Quiet(s)
  PROVE  Inv'
<1>1. /\ RemoveClient(session[s].addr, TRUE) /\ Goto(s, "untabling") /\ session[s].at = "receiving"
      /\ UNCHANGED table /\ UNCHANGED silent /\ UNCHANGED history
  BY DEF Leave, Quiet, At
<1>2. To(s, "untabling", session[s].name)
  BY <1>1, GotoIs DEF Inv, Ats
<1>3. Fewer /\ RegistryOK' /\ session[s].addr \notin DOMAIN clients_by_addr'
  BY <1>1, RemoveIs
<1>4. Moves(s) /\ StageOK(session'[s]) /\ Calm(session[s], session'[s])
  BY <1>1, <1>2, <1>3 DEF To, StageOK, Calm, Logs, Leaves
<1>5. TableOK'
  BY <1>1, <1>4, TableStays DEF Moves
<1>6. silent' \in [Addrs -> Heard .. TimedOut]
  BY <1>1, TypeIs DEF Inv
<1> QED
  BY <1>1, <1>3, <1>4, <1>5, <1>6, UnchangedIs, TaskCalm

LEMMA UntableInv ==
  ASSUME Inv, NEW s \in DOMAIN session, Untable(s)
  PROVE  Inv'
<1>1. /\ session[s].at = "untabling" /\ Goto(s, "unregistering")
      /\ sessions' = Drop(sessions, session[s].addr)
      /\ UNCHANGED <<session_close, cleanup>> /\ UNCHANGED registry /\ UNCHANGED silent /\ UNCHANGED history
  BY DEF Untable, At
<1>2. To(s, "unregistering", session[s].name)
  BY <1>1, GotoIs DEF Inv, Ats
<1>3. Fewer /\ RegistryOK'
  BY <1>1, NothingForgotten
<1>4. Moves(s) /\ StageOK(session'[s]) /\ Calm(session[s], session'[s])
  BY <1>1, <1>2 DEF To, StageOK, Calm, Logs, Leaves
<1>5. TableOK'
  <2>1. TableOK /\ DOMAIN session' = DOMAIN session
    BY <1>4, TypeIs DEF Inv, Moves
  <2>2. /\ DOMAIN sessions' \subseteq DOMAIN sessions
        /\ \A a \in DOMAIN sessions' : sessions'[a] = sessions[a]
    <3> DEFINE b == session[s].addr
    <3>1. sessions' = Drop(sessions, b)
      BY <1>1
    <3> HIDE DEF b
    <3>2. /\ DOMAIN sessions' = DOMAIN sessions \ {b}
          /\ \A a \in DOMAIN sessions \ {b} : sessions'[a] = sessions[a]
      BY <3>1, DropIs
    <3> QED
      BY <3>2
  <2> QED
    BY <1>1, <2>1, <2>2 DEF TableOK
<1>6. silent' \in [Addrs -> Heard .. TimedOut]
  BY <1>1, TypeIs DEF Inv
<1> QED
  BY <1>1, <1>3, <1>4, <1>5, <1>6, UnchangedIs, TaskCalm

LEMMA UnregisterInv ==
  ASSUME Inv, NEW s \in DOMAIN session, Unregister(s)
  PROVE  Inv'
<1>1. /\ session[s].at = "unregistering" /\ RemoveClient(session[s].addr, FALSE)
      /\ session' = [session EXCEPT ![s] = Ended(session[s].addr)]
      /\ UNCHANGED table /\ UNCHANGED silent /\ UNCHANGED history
  BY DEF Unregister, At
<1>2. session[s] \in TaskRecord /\ session \in Seq(TaskRecord)
  BY TaskIs DEF Inv
<1>3. /\ Ended(session[s].addr) \in TaskRecord
      /\ Ended(session[s].addr).at = "done" /\ Ended(session[s].addr).addr = session[s].addr
  BY <1>2, EndedIs DEF TaskRecord
<1>4. Moves(s) /\ session'[s] = Ended(session[s].addr)
  BY <1>1, <1>2, <1>3, MoveIs
<1>5. Fewer /\ RegistryOK' /\ session[s].addr \notin DOMAIN clients_by_addr'
  BY <1>1, RemoveIs
<1>6. StageOK(session'[s]) /\ Calm(session[s], session'[s])
  BY <1>1, <1>3, <1>4, <1>5 DEF StageOK, Calm, Logs, Leaves
<1>7. TableOK'
  BY <1>1, <1>4, TableStays DEF Moves
<1>8. silent' \in [Addrs -> Heard .. TimedOut]
  BY <1>1, TypeIs DEF Inv
<1> QED
  BY <1>1, <1>4, <1>5, <1>6, <1>7, <1>8, UnchangedIs, TaskCalm

-----------------------------------------------------------------------------
(***************************************************************************)
(* The other steps: a session begins, a login begins, evicts, registers.   *)
(***************************************************************************)
\* The stages are kept by a step of one task that leaves next_user_id where it is or beyond.
LEMMA StagesStay ==
  ASSUME Inv, NEW s \in DOMAIN session, Moves(s), next_user_id' \in Nat, next_user_id' >= next_user_id,
         StageOK(session'[s])
  PROVE  Stages'
<1>1. Stages /\ next_user_id \in Nat
  BY TypeIs, SessionsAssumption DEF Inv, RegistryOK
<1> SUFFICES ASSUME NEW q \in DOMAIN session' PROVE StageOK(session[q])'
  BY DEF Stages
<1>2. q \in DOMAIN session /\ (q # s => session'[q] = session[q])
  BY DEF Moves
<1>3. StageOK(session'[q])
  BY <1>1, <1>2 DEF Stages
<1> QED
  BY <1>1, <1>3 DEF StageOK, Logs

LEMMA SpawnInv ==
  ASSUME Inv, NEW a \in Addrs, a \notin DOMAIN sessions, Packet(a)
  PROVE  Inv'
<1> DEFINE r == [Ended(a) EXCEPT !.at = "spawned", !.queue = 1]
           m == Len(session) + 1
<1>1. /\ UNCHANGED <<session_close, cleanup>> /\ UNCHANGED registry /\ UNCHANGED silent /\ UNCHANGED raced
      /\ Len(session) < MaxSessions /\ session' = Append(session, r) /\ sessions' = Put(sessions, a, m)
      /\ reused' = IF \E s \in DOMAIN session : Alive(s) /\ session[s].addr = a
                   THEN reused \cup {a} ELSE reused
  BY DEF Packet, spawn_session_handler
<1>2. /\ r \in TaskRecord /\ r.at = "spawned" /\ r.addr = a /\ r.name = NoName /\ r.began = FALSE
  <2>1. /\ Ended(a) \in TaskRecord /\ Ended(a).addr = a /\ Ended(a).name = NoName /\ Ended(a).began = FALSE
    BY EndedIs DEF Ended
  <2>2. 1 \in 0 .. QueueSize + 1
    BY SessionsAssumption
  <2> QED
    BY <2>1, <2>2 DEF TaskRecord
<1>3. /\ TableOK /\ RegistryOK /\ session \in Seq(TaskRecord) /\ silent \in [Addrs -> Heard .. TimedOut]
      /\ reused \subseteq Addrs /\ raced \subseteq Names
  BY TypeIs DEF Inv
<1> HIDE DEF r
<1>4. /\ session' \in Seq(TaskRecord) /\ Len(session') = m /\ DOMAIN session' = DOMAIN session \cup {m}
      /\ session'[m] = r /\ m \notin DOMAIN session /\ \A q \in DOMAIN session : session'[q] = session[q]
  BY <1>1, <1>2, <1>3
<1>5. m <= MaxSessions
  BY <1>1, <1>3, SessionsAssumption
<1> HIDE DEF m
<1>6. UNCHANGED <<clients_by_addr, clients_by_id, next_user_id, listed>>
  BY <1>1 DEF registry
<1>7. /\ DOMAIN sessions' = DOMAIN sessions \cup {a} /\ sessions'[a] = m
      /\ \A b \in DOMAIN sessions : b # a => sessions'[b] = sessions[b]
  BY <1>1 DEF Put
<1>8. SessionsTypeOK'
  <2>1. TableOK'
    BY <1>1, <1>3, <1>4, <1>7 DEF TableOK
  <2>2. RegistryOK'
    BY <1>3, <1>6 DEF RegistryOK
  <2>3. reused' \subseteq Addrs
    BY <1>1, <1>3
  <2> QED
    BY <1>1, <1>3, <1>4, <1>5, <2>1, <2>2, <2>3, TypeIsNext
<1>9. Stages'
  BY <1>2, <1>4, <1>6 DEF Inv, Stages, StageOK, Logs
<1>10. Rest /\ reused \subseteq reused'
  BY <1>1 DEF Inv
<1>11. \A i : Unlisting(i)' <=> Unlisting(i)
  BY <1>2, <1>4 DEF Unlisting, At
<1>12. \A n : Stranded(n)' <=> Stranded(n)
  BY <1>6, <1>11 DEF Stranded, Named, AddrOf
<1>13. Registry'
  BY <1>6, <1>10 DEF Rest, Registry
<1>14. Tracked'
  BY <1>6, <1>10, <1>11 DEF Rest, Tracked, AddrOf
<1>15. Unlisted'
  BY <1>2, <1>4, <1>6, <1>10 DEF Rest, Unlisted, AddrOf
<1>16. NoClientWithoutSession'
  BY <1>4, <1>6, <1>10 DEF Rest, NoClientWithoutSession, Alive
<1>17. OneTask'
  <2> SUFFICES ASSUME NEW s \in DOMAIN session', NEW q \in DOMAIN session', session'[s].at # "done",
                      session'[q].at # "done", session'[s].addr = session'[q].addr, session'[s].addr \notin reused'
               PROVE  s = q
    BY DEF OneTask
  <2>1. CASE s \in DOMAIN session /\ q \in DOMAIN session
    BY <1>4, <1>10, <2>1 DEF Rest, OneTask
  <2>2. ASSUME NEW k \in DOMAIN session, session[k].at # "done", session[k].addr = a PROVE a \in reused'
    BY <1>1, <2>2 DEF Alive
  <2> QED
    BY <1>2, <1>4, <2>1, <2>2
<1>18. Settled'
  <2> SUFFICES ASSUME NEW s \in DOMAIN session', session'[s].at # "done",
                      session'[s].addr \in DOMAIN clients_by_addr', session'[s].addr \notin reused'
               PROVE  session'[s].began /\ ~ Logs(session'[s]) /\ ~ Leaves(session'[s])
    BY DEF Settled, Registered
  <2>1. CASE s \in DOMAIN session
    BY <1>4, <1>6, <1>10, <2>1 DEF Rest, Settled, Registered
  <2>2. CASE s = m
    <3>1. PICK k \in DOMAIN session : session[k].at # "done" /\ session[k].addr = a
      BY <1>2, <1>4, <1>6, <1>10, <2>2 DEF Rest, NoClientWithoutSession, Alive
    <3>2. a \in reused'
      BY <1>1, <3>1 DEF Alive
    <3> QED
      BY <1>2, <1>4, <2>2, <3>2
  <2> QED
    BY <1>4, <2>1, <2>2
<1>19. ~ Logs(r)
  BY <1>2 DEF Logs
<1>20. OneLogin'
  BY <1>1, <1>4, <1>10, <1>19 DEF Rest, OneLogin
<1>21. NameFree'
  <2> SUFFICES ASSUME NEW s \in DOMAIN session', NEW n \in Names,
                      Logs(session'[s]), session'[s].at # "evicting", session'[s].name = n,
                      n \notin raced', ~ Stranded(n)', NEW b \in DOMAIN clients_by_addr'
               PROVE  clients_by_addr'[b] \notin Named(n)'
    BY DEF NameFree
  <2>1. s \in DOMAIN session /\ session'[s] = session[s]
    BY <1>4, <1>19
  <2> QED
    BY <1>1, <1>6, <1>10, <1>12, <2>1 DEF Rest, NameFree, Named
<1>22. OneOfAName'
  BY <1>1, <1>6, <1>10, <1>12 DEF Rest, OneOfAName, Named
<1>23. Rest'
  BY <1>13, <1>14, <1>15, <1>16, <1>17, <1>18, <1>20, <1>21, <1>22 DEF Rest
<1> QED
  BY <1>8, <1>9, <1>23 DEF Inv

LEMMA BeginsInv ==
  ASSUME Inv, NEW s \in DOMAIN session, Look(s), NEW n \in Names, Begins(s, n)
  PROVE  Inv'
<1>1. /\ silent' \in [Addrs -> Heard .. TimedOut]
      /\ raced' \subseteq Names /\ raced \subseteq raced'
      /\ UNCHANGED table /\ UNCHANGED registry /\ UNCHANGED reused
  BY LookIs DEF Inv
<1>2. /\ Moves(s) /\ session'[s].at \in {"adding", "evicting"} /\ session'[s].name = n
      /\ session'[s].addr = session[s].addr /\ session'[s].began
      /\ session[s].at # "done" /\ ~ Logs(session[s]) /\ ~ session[s].began
  BY DEF Begins, To
<1>3. /\ DOMAIN session' = DOMAIN session /\ session' \in Seq(TaskRecord) /\ Len(session') = Len(session)
      /\ \A q \in DOMAIN session : q # s => session'[q] = session[q]
  BY <1>2 DEF Moves
<1>4. UNCHANGED <<clients_by_addr, clients_by_id, next_user_id, listed>>
  BY <1>1 DEF registry
<1>5. Rest /\ RegistryOK /\ Len(session) <= MaxSessions /\ reused \subseteq Addrs
  BY TypeIs DEF Inv
<1>6. SessionsTypeOK'
  <2>1. TableOK' /\ RegistryOK'
    BY <1>1, <1>3, TableStays, NothingForgotten
  <2> QED
    BY <1>1, <1>3, <1>5, <2>1, TypeIsNext
<1>7. Stages'
  <2>1. StageOK(session'[s])
    BY <1>2 DEF StageOK, Logs
  <2>2. next_user_id' \in Nat /\ next_user_id' >= next_user_id
    BY <1>4, <1>5, SessionsAssumption DEF RegistryOK
  <2> QED
    BY <1>2, <2>1, <2>2, StagesStay
<1>8. \A i : Unlisting(i)' <=> Unlisting(i)
  BY <1>2, <1>3 DEF Unlisting, At, Logs
<1>9. \A k : Stranded(k)' <=> Stranded(k)
  BY <1>4, <1>8 DEF Stranded, Named, AddrOf
<1>10. Registry'
  BY <1>4, <1>5 DEF Rest, Registry
<1>11. Tracked'
  BY <1>1, <1>4, <1>5, <1>8 DEF Rest, Tracked, AddrOf
<1>12. Unlisted'
  BY <1>2, <1>3, <1>4, <1>5 DEF Rest, Unlisted, AddrOf
<1>13. NoClientWithoutSession'
  BY <1>2, <1>3, <1>4, <1>5 DEF Rest, NoClientWithoutSession, Alive
<1>14. OneTask'
  BY <1>1, <1>2, <1>3, <1>5 DEF Rest, OneTask
<1>15. Settled'
  BY <1>1, <1>2, <1>3, <1>4, <1>5 DEF Rest, Settled, Registered
<1>16. \A q \in DOMAIN session : Logs(session[q]) /\ session[q].name = n => n \in raced'
  BY DEF Begins, LoggingIn, Logs, At
<1>17. OneLogin'
  BY <1>1, <1>2, <1>3, <1>5, <1>16 DEF Rest, OneLogin
<1>18. NameFree'
  <2> SUFFICES ASSUME NEW q \in DOMAIN session', NEW k \in Names,
                      Logs(session'[q]), session'[q].at # "evicting", session'[q].name = k,
                      k \notin raced', ~ Stranded(k)', NEW b \in DOMAIN clients_by_addr'
               PROVE  clients_by_addr'[b] \notin Named(k)'
    BY DEF NameFree
  <2>1. CASE q # s
    BY <1>1, <1>3, <1>4, <1>5, <1>9, <2>1 DEF Rest, NameFree, Named
  <2>2. CASE q = s
    <3>1. k = n /\ Named(n)' = Named(n) /\ session'[s].at # "evicting"
      BY <1>2, <1>4, <2>2 DEF Named
    <3>2. Named(n) = {} \/ \E i \in Named(n) : AddrOf(i) = {}
      BY <3>1 DEF Begins, To
    <3>3. ASSUME NEW i \in Named(n), AddrOf(i) = {} PROVE FALSE
      <4>1. ~ Stranded(n)
        BY <1>9, <3>1
      <4>2. PICK p \in DOMAIN session : session[p].at = "unlisting" /\ session[p].client = i
        BY <3>3, <4>1 DEF Stranded, Unlisting, At
      <4>3. i \in DOMAIN clients_by_id /\ clients_by_id[i].name = n /\ i \in 1 .. MaxClients
        BY <1>5 DEF Named, RegistryOK
      <4>4. session[p].name = n /\ Logs(session[p])
        BY <1>5, <4>2, <4>3 DEF Rest, Unlisted, Logs
      <4> QED
        BY <1>16, <3>1, <4>4
    <3> QED
      BY <3>1, <3>2, <3>3
  <2> QED
    BY <2>1, <2>2
<1>19. OneOfAName'
  BY <1>1, <1>4, <1>5, <1>9 DEF Rest, OneOfAName, Named
<1>20. Rest'
  BY <1>10, <1>11, <1>12, <1>13, <1>14, <1>15, <1>17, <1>18, <1>19 DEF Rest
<1> QED
  BY <1>6, <1>7, <1>20 DEF Inv

\* The eviction takes the address of a client of that name, or finds none that has one.
LEMMA EvictInv ==
  ASSUME Inv, NEW s \in DOMAIN session, Evict(s)
  PROVE  Inv'
<1> DEFINE n == session[s].name
<1>1. /\ session[s].at = "evicting" /\ UNCHANGED table /\ UNCHANGED silent /\ UNCHANGED history
      /\ UNCHANGED <<clients_by_id, next_user_id, listed>>
  BY DEF Evict, At
<1>2. /\ RegistryOK /\ Rest /\ StageOK(session[s]) /\ session[s] \in TaskRecord /\ session \in Seq(TaskRecord)
      /\ Len(session) <= MaxSessions /\ reused \subseteq Addrs /\ raced \subseteq Names
      /\ silent \in [Addrs -> Heard .. TimedOut]
  BY TypeIs, TaskIs DEF Inv, Stages
<1>3. n \in Names /\ session[s].began /\ Logs(session[s])
  BY <1>1, <1>2 DEF StageOK, Logs
<1>4. session[s].name = n
  OBVIOUS
<1>5. reused' = reused /\ raced' = raced
  BY <1>1 DEF history
<1> HIDE DEF n
<1>6. next_user_id' \in Nat /\ next_user_id' >= next_user_id
  BY <1>1, <1>2, SessionsAssumption DEF RegistryOK
<1>7. ASSUME Goto(s, "adding"), UNCHANGED clients_by_addr,
             Named(n) = {} \/ \E i \in Named(n) : AddrOf(i) = {}
      PROVE  Inv'
  <2>1. /\ Moves(s) /\ session'[s].at = "adding" /\ session'[s].name = n /\ session'[s].addr = session[s].addr
        /\ session'[s].began
    <3>1. To(s, "adding", session[s].name)
      BY <1>7, GotoIs DEF Inv, Ats
    <3> QED
      BY <1>3, <1>4, <3>1 DEF To
  <2>2. /\ DOMAIN session' = DOMAIN session /\ session' \in Seq(TaskRecord) /\ Len(session') = Len(session)
        /\ \A q \in DOMAIN session : q # s => session'[q] = session[q]
    BY <2>1 DEF Moves
  <2>3. UNCHANGED registry
    BY <1>1, <1>7 DEF registry
  <2>4. SessionsTypeOK'
    <3>1. TableOK' /\ RegistryOK'
      BY <1>1, <2>2, <2>3, TableStays, NothingForgotten
    <3> QED
      BY <1>1, <1>2, <1>5, <2>2, <3>1, TypeIsNext
  <2>5. Stages'
    <3>1. StageOK(session'[s])
      BY <1>3, <2>1 DEF StageOK, Logs
    <3> QED
      BY <1>6, <2>1, <3>1, StagesStay
  <2>6. \A i : Unlisting(i)' <=> Unlisting(i)
    BY <1>1, <2>1, <2>2 DEF Unlisting, At
  <2>7. \A k : Stranded(k)' <=> Stranded(k)
    BY <1>1, <1>7, <2>6 DEF Stranded, Named, AddrOf
  <2>8. Registry'
    BY <1>1, <1>2, <1>7 DEF Rest, Registry
  <2>9. Tracked'
    BY <1>1, <1>2, <1>5, <1>7, <2>6 DEF Rest, Tracked, AddrOf
  <2>10. Unlisted'
    BY <1>1, <1>2, <1>7, <2>1, <2>2, SMTT(30) DEF Rest, Unlisted, AddrOf
  <2>11. NoClientWithoutSession'
    BY <1>1, <1>2, <1>7, <2>1, <2>2, SMTT(30) DEF Rest, NoClientWithoutSession, Alive
  <2>12. OneTask'
    BY <1>1, <1>2, <1>5, <2>1, <2>2 DEF Rest, OneTask
  <2>13. Settled'
    BY <1>1, <1>2, <1>3, <1>5, <1>7, <2>1, <2>2 DEF Rest, Settled, Registered
  <2>14. OneLogin'
    BY <1>2, <1>3, <1>4, <1>5, <2>1, <2>2 DEF Rest, OneLogin
  <2>15. NameFree'
    <3> SUFFICES ASSUME NEW q \in DOMAIN session', NEW k \in Names,
                        Logs(session'[q]), session'[q].at # "evicting", session'[q].name = k,
                        k \notin raced', ~ Stranded(k)', NEW b \in DOMAIN clients_by_addr'
                 PROVE  clients_by_addr'[b] \notin Named(k)'
      BY DEF NameFree
    <3>1. CASE q # s
      BY <1>1, <1>2, <1>5, <1>7, <2>2, <2>7, <3>1 DEF Rest, NameFree, Named
    <3>2. CASE q = s
      <4>1. k = n /\ Named(k)' = Named(k)
        BY <1>1, <2>1, <3>2 DEF Named
      <4>2. ASSUME NEW i \in Named(n), AddrOf(i) = {} PROVE FALSE
        <5>1. ~ Stranded(n)
          BY <2>7, <4>1
        <5>2. PICK p \in DOMAIN session : session[p].at = "unlisting" /\ session[p].client = i
          BY <4>2, <5>1 DEF Stranded, Unlisting, At
        <5>3. i \in DOMAIN clients_by_id /\ clients_by_id[i].name = n /\ i \in 1 .. MaxClients
          BY <1>2 DEF Named, RegistryOK
        <5>4. session[p].name = n /\ Logs(session[p])
          BY <1>2, <5>2, <5>3 DEF Rest, Unlisted, Logs
        <5>5. p = s
          BY <1>2, <1>3, <1>4, <1>5, <4>1, <5>4 DEF Rest, OneLogin
        <5> QED
          BY <1>1, <5>2, <5>5
      <4> QED
        BY <1>7, <4>1, <4>2
    <3> QED
      BY <3>1, <3>2
  <2>16. OneOfAName'
    BY <1>1, <1>2, <1>5, <1>7, <2>7 DEF Rest, OneOfAName, Named
  <2>17. Rest'
    BY <2>8, <2>9, <2>10, <2>11, <2>12, <2>13, <2>14, <2>15, <2>16 DEF Rest
  <2> QED
    BY <2>4, <2>5, <2>17 DEF Inv
<1>8. ASSUME NEW i \in Named(n), NEW a \in Addrs, a \in AddrOf(i),
             clients_by_addr' = Drop(clients_by_addr, a),
             session' = [session EXCEPT ![s].at = "unlisting", ![s].client = i, ![s].old = a]
      PROVE  Inv'
  <2> DEFINE r == [session[s] EXCEPT !.at = "unlisting", !.client = i, !.old = a]
  <2>1. /\ i \in DOMAIN clients_by_id /\ clients_by_id[i].name = n /\ i \in 1 .. MaxClients /\ i < next_user_id
        /\ a \in DOMAIN clients_by_addr /\ clients_by_addr[a] = i
        /\ \A b \in DOMAIN clients_by_addr : b # a => clients_by_addr[b] # i
    BY <1>2, <1>8 DEF Named, AddrOf, RegistryOK, Rest, Registry
  <2>2. /\ r \in TaskRecord /\ r.at = "unlisting" /\ r.client = i /\ r.name = n /\ r.addr = session[s].addr
        /\ r.began
    <3>1. i \in 0 .. MaxClients
      BY <2>1, SessionsAssumption
    <3> QED
      BY <1>2, <1>3, <1>4, <1>8, <3>1 DEF TaskRecord
  <2>3. session' = [session EXCEPT ![s] = r]
    BY <1>8
  <2> HIDE DEF r
  <2>4. Moves(s) /\ session'[s] = r
    BY <1>2, <2>2, <2>3, MoveIs
  <2>5. /\ DOMAIN session' = DOMAIN session /\ session' \in Seq(TaskRecord) /\ Len(session') = Len(session)
        /\ \A q \in DOMAIN session : q # s => session'[q] = session[q]
    BY <2>4 DEF Moves
  <2>6. /\ DOMAIN clients_by_addr' = DOMAIN clients_by_addr \ {a}
        /\ \A b \in DOMAIN clients_by_addr \ {a} : clients_by_addr'[b] = clients_by_addr[b]
    BY <1>8, DropIs
  <2>7. SessionsTypeOK'
    <3>1. TableOK'
      BY <1>1, <2>5, TableStays
    <3>2. RegistryOK'
      BY <1>1, <1>2, <2>6 DEF RegistryOK
    <3> QED
      BY <1>1, <1>2, <1>5, <2>5, <3>1, <3>2, TypeIsNext
  <2>8. Stages'
    <3>1. StageOK(session'[s])
      BY <1>2, <1>3, <2>1, <2>2, <2>4, SessionsAssumption DEF StageOK, Logs, RegistryOK
    <3> QED
      BY <1>6, <2>4, <3>1, StagesStay
  <2>9. Unlisting(i)' /\ \A k : k # i => (Unlisting(k)' <=> Unlisting(k))
    BY <1>1, <2>2, <2>4, <2>5 DEF Unlisting, At
  <2>10. ~ Unlisting(i)
    BY <1>2, <2>1, NoAddr DEF Rest, Unlisted, Unlisting, At
  <2>11. ASSUME NEW k, Stranded(k) PROVE Stranded(k)'
    <3>1. PICK j \in Named(k) : AddrOf(j) = {} /\ ~ Unlisting(j)
      BY <2>11 DEF Stranded
    <3>2. j # i
      BY <2>1, <3>1, NoAddr
    <3>3. AddrOf(j)' = {}
      BY <2>6, <3>1, NoAddr, NoAddrNext
    <3>4. ~ Unlisting(j)' /\ j \in Named(k)'
      BY <1>1, <2>9, <3>1, <3>2 DEF Named
    <3> QED
      BY <3>3, <3>4 DEF Stranded
  <2>12. Registry'
    BY <1>1, <1>2, <2>6 DEF Rest, Registry
  <2>13. Tracked'
    <3> SUFFICES ASSUME NEW j \in DOMAIN clients_by_id
                 PROVE  AddrOf(j)' # {} \/ Unlisting(j)' \/ clients_by_id[j].addr \in reused
      BY <1>1, <1>5 DEF Tracked
    <3>1. CASE j = i
      BY <2>9, <3>1
    <3>2. CASE j # i
      <4>1. AddrOf(j) # {} => AddrOf(j)' # {}
        BY <2>1, <2>6, <3>2, NoAddr, NoAddrNext
      <4> QED
        BY <1>2, <2>9, <3>2, <4>1 DEF Rest, Tracked
    <3> QED
      BY <3>1, <3>2
  <2>14. Unlisted'
    <3> SUFFICES ASSUME NEW q \in DOMAIN session', NEW j \in 1 .. MaxClients,
                        session'[q].at = "unlisting", session'[q].client = j
                 PROVE  /\ AddrOf(j)' = {}
                        /\ j \in DOMAIN clients_by_id' => clients_by_id'[j].name = session'[q].name
      BY DEF Unlisted
    <3>1. CASE q = s
      <4>1. j = i /\ session'[q].name = n
        BY <2>2, <2>4, <3>1
      <4> QED
        BY <1>1, <2>1, <2>6, <4>1, NoAddrNext
    <3>2. CASE q # s
      <4>1. AddrOf(j) = {} /\ (j \in DOMAIN clients_by_id => clients_by_id[j].name = session[q].name)
        BY <1>2, <2>5, <3>2 DEF Rest, Unlisted
      <4> QED
        BY <1>1, <2>5, <2>6, <3>2, <4>1, NoAddr, NoAddrNext
    <3> QED
      BY <3>1, <3>2
  <2>15. NoClientWithoutSession'
    BY <1>1, <1>2, <2>2, <2>4, <2>5, <2>6 DEF Rest, NoClientWithoutSession, Alive
  <2>16. OneTask'
    BY <1>1, <1>2, <1>5, <2>2, <2>4, <2>5, SMTT(30) DEF Rest, OneTask
  <2>17. Settled'
    BY <1>1, <1>2, <1>3, <1>5, <2>2, <2>4, <2>5, <2>6 DEF Rest, Settled, Registered
  <2>18. OneLogin'
    BY <1>2, <1>3, <1>4, <1>5, <2>2, <2>4, <2>5 DEF Rest, OneLogin
  <2>19. NameFree'
    <3> SUFFICES ASSUME NEW q \in DOMAIN session', NEW k \in Names,
                        Logs(session'[q]), session'[q].at # "evicting", session'[q].name = k,
                        k \notin raced', ~ Stranded(k)', NEW b \in DOMAIN clients_by_addr'
                 PROVE  clients_by_addr'[b] \notin Named(k)'
      BY DEF NameFree
    <3>1. ~ Stranded(k) /\ k \notin raced /\ b \in DOMAIN clients_by_addr /\ b # a
          /\ clients_by_addr'[b] = clients_by_addr[b] /\ Named(k)' = Named(k)
      BY <1>1, <1>5, <2>6, <2>11 DEF Named
    <3>2. CASE q # s
      BY <1>2, <2>5, <3>1, <3>2 DEF Rest, NameFree
    <3>3. CASE q = s
      <4>1. k = n
        BY <2>2, <2>4, <3>3
      <4>2. clients_by_addr[a] \in Named(k)
        BY <1>8, <2>1, <4>1
      <4> QED
        BY <1>2, <2>1, <3>1, <4>2 DEF Rest, OneOfAName
    <3> QED
      BY <3>2, <3>3
  <2>20. OneOfAName'
    <3> SUFFICES ASSUME NEW k \in Names \ raced', ~ Stranded(k)',
                        NEW b \in DOMAIN clients_by_addr', NEW c \in DOMAIN clients_by_addr',
                        {clients_by_addr'[b], clients_by_addr'[c]} \subseteq Named(k)'
                 PROVE  b = c
      BY DEF OneOfAName
    <3>1. k \in Names \ raced /\ ~ Stranded(k) /\ Named(k)' = Named(k)
      BY <1>1, <1>5, <2>11 DEF Named
    <3> QED
      BY <1>2, <2>6, <3>1 DEF Rest, OneOfAName
  <2>21. Rest'
    BY <2>12, <2>13, <2>14, <2>15, <2>16, <2>17, <2>18, <2>19, <2>20 DEF Rest
  <2> QED
    BY <2>7, <2>8, <2>21 DEF Inv
<1>9. \/ \E i \in Named(session[s].name), a \in Addrs :
           /\ a \in AddrOf(i)
           /\ clients_by_addr' = Drop(clients_by_addr, a)
           /\ session' = [session EXCEPT ![s].at = "unlisting", ![s].client = i, ![s].old = a]
      \/ /\ Named(session[s].name) = {} \/ \E i \in Named(session[s].name) : AddrOf(i) = {}
         /\ Goto(s, "adding")
         /\ UNCHANGED clients_by_addr
  BY DEF Evict
<1> QED
  BY <1>4, <1>7, <1>8, <1>9

LEMMA AddInv ==
  ASSUME Inv, NEW s \in DOMAIN session, add_client(s)
  PROVE  Inv'
<1> DEFINE a == session[s].addr
           n == session[s].name
           m == next_user_id
           new == [name |-> n, acks |-> 0, addr |-> a]
<1>1. /\ session[s].at = "adding" /\ m <= MaxClients
      /\ clients_by_id' = Put(clients_by_id, m, new)
      /\ clients_by_addr' = Put(clients_by_addr, a, m)
      /\ next_user_id' = m + 1 /\ Handled(s, TRUE)
      /\ UNCHANGED table /\ UNCHANGED listed /\ UNCHANGED silent /\ UNCHANGED history
  BY DEF add_client, At
<1>2. /\ RegistryOK /\ Rest /\ Stages /\ session[s] \in TaskRecord /\ session \in Seq(TaskRecord)
      /\ Len(session) <= MaxSessions /\ reused \subseteq Addrs /\ raced \subseteq Names
      /\ silent \in [Addrs -> Heard .. TimedOut]
  BY TypeIs, TaskIs DEF Inv
<1>3. n \in Names /\ session[s].began /\ Logs(session[s]) /\ a \in Addrs
  BY <1>1, <1>2 DEF Stages, StageOK, Logs, TaskRecord
<1>4. session[s].name = n /\ session[s].addr = a /\ next_user_id = m
  OBVIOUS
<1>5. reused' = reused /\ raced' = raced
  BY <1>1 DEF history
<1>6. m \in 1 .. MaxClients /\ m + 1 \in 1 .. MaxClients + 1
  BY <1>1, <1>2, SessionsAssumption DEF RegistryOK
<1>7. new \in Client /\ new.name = n /\ new.addr = a
  BY <1>3, SessionsAssumption DEF Client
<1>8. /\ Moves(s) /\ session'[s].at = "receiving" /\ session'[s].addr = a /\ session'[s].name = NoName
      /\ session'[s].began
  <2>1. To(s, "receiving", NoName)
    BY <1>1, HandledIs DEF Inv
  <2> QED
    BY <1>3, <2>1 DEF To
<1> HIDE DEF a, n, m, new
<1>9. /\ DOMAIN session' = DOMAIN session /\ session' \in Seq(TaskRecord) /\ Len(session') = Len(session)
      /\ \A q \in DOMAIN session : q # s => session'[q] = session[q]
  BY <1>8 DEF Moves
<1>10. m \notin DOMAIN clients_by_id /\ \A b \in DOMAIN clients_by_addr : clients_by_addr[b] # m
  BY <1>2, <1>4, <1>6 DEF Rest, Registry, RegistryOK
<1>11. /\ DOMAIN clients_by_id' = DOMAIN clients_by_id \cup {m} /\ clients_by_id'[m] = new
       /\ \A i \in DOMAIN clients_by_id : clients_by_id'[i] = clients_by_id[i]
  BY <1>1, <1>10 DEF Put
<1>12. /\ DOMAIN clients_by_addr' = DOMAIN clients_by_addr \cup {a} /\ clients_by_addr'[a] = m
       /\ \A b \in DOMAIN clients_by_addr : b # a => clients_by_addr'[b] = clients_by_addr[b]
  BY <1>1 DEF Put
<1>13. SessionsTypeOK'
  <2>1. TableOK'
    BY <1>1, <1>9, TableStays
  <2>2. RegistryOK'
    BY <1>1, <1>2, <1>3, <1>6, <1>7, <1>11, <1>12 DEF RegistryOK
  <2> QED
    BY <1>1, <1>2, <1>5, <1>9, <2>1, <2>2, TypeIsNext
<1>14. Stages'
  <2>1. StageOK(session'[s])
    BY <1>8 DEF StageOK, Logs
  <2>2. next_user_id' \in Nat /\ next_user_id' >= next_user_id
    BY <1>1, <1>4, <1>6
  <2> QED
    BY <1>8, <2>1, <2>2, StagesStay
<1>15. \A i : Unlisting(i)' <=> Unlisting(i)
  BY <1>1, <1>8, <1>9 DEF Unlisting, At
<1>16. \A i : i # m /\ AddrOf(i) = {} => AddrOf(i)' = {}
  BY <1>12, NoAddr, NoAddrNext
<1>17. ASSUME NEW k, Stranded(k) PROVE Stranded(k)'
  <2>1. PICK i \in Named(k) : AddrOf(i) = {} /\ ~ Unlisting(i)
    BY <1>17 DEF Stranded
  <2>2. i \in Named(k)' /\ i # m
    BY <1>10, <1>11 DEF Named
  <2> QED
    BY <1>15, <1>16, <2>1, <2>2 DEF Stranded
<1>18. Registry'
  BY <1>1, <1>2, <1>4, <1>6, <1>7, <1>10, <1>11, <1>12 DEF Rest, Registry, RegistryOK
<1>19. Tracked'
  <2> SUFFICES ASSUME NEW i \in DOMAIN clients_by_id'
               PROVE  AddrOf(i)' # {} \/ Unlisting(i)' \/ clients_by_id'[i].addr \in reused'
    BY DEF Tracked
  <2>1. CASE i = m
    BY <1>12, <2>1, NoAddrNext
  <2>2. CASE i # m
    <3>1. i \in DOMAIN clients_by_id /\ clients_by_id'[i] = clients_by_id[i]
      BY <1>11, <2>2
    <3>2. AddrOf(i) # {} \/ Unlisting(i) \/ clients_by_id[i].addr \in reused
      BY <1>2, <3>1 DEF Rest, Tracked
    <3>3. CASE AddrOf(i) # {}
      <4>1. PICK b \in DOMAIN clients_by_addr : clients_by_addr[b] = i
        BY <3>3, NoAddr
      <4>2. CASE b # a
        BY <1>12, <4>1, <4>2, NoAddrNext
      <4>3. CASE b = a
        <5>1. Registered(a)
          BY <4>3 DEF Registered
        <5>2. a \in reused
          BY <1>1, <1>2, <1>3, <1>4, <5>1 DEF Rest, Settled
        <5>3. clients_by_id[i].addr = a
          BY <1>2, <4>1, <4>3 DEF Rest, Registry
        <5> QED
          BY <1>5, <3>1, <5>2, <5>3
      <4> QED
        BY <4>2, <4>3
    <3> QED
      BY <1>5, <1>15, <3>1, <3>2, <3>3
  <2> QED
    BY <2>1, <2>2
<1>20. Unlisted'
  <2> SUFFICES ASSUME NEW q \in DOMAIN session', NEW i \in 1 .. MaxClients,
                      session'[q].at = "unlisting", session'[q].client = i
               PROVE  /\ AddrOf(i)' = {}
                      /\ i \in DOMAIN clients_by_id' => clients_by_id'[i].name = session'[q].name
    BY DEF Unlisted
  <2>1. q # s /\ q \in DOMAIN session /\ session'[q] = session[q]
    BY <1>8, <1>9
  <2>2. i < m
    BY <1>2, <1>4, <1>6, <2>1 DEF Stages, StageOK
  <2>3. AddrOf(i) = {} /\ (i \in DOMAIN clients_by_id => clients_by_id[i].name = session[q].name)
    BY <1>2, <2>1 DEF Rest, Unlisted
  <2> QED
    BY <1>6, <1>11, <1>16, <2>1, <2>2, <2>3
<1>21. NoClientWithoutSession'
  <2> SUFFICES ASSUME NEW b \in DOMAIN clients_by_addr'
               PROVE  \E q \in DOMAIN session' : session'[q].at # "done" /\ session'[q].addr = b
    BY DEF NoClientWithoutSession, Alive
  <2>1. CASE b = a
    BY <1>8, <1>9, <2>1
  <2>2. CASE b # a
    <3>1. PICK q \in DOMAIN session : session[q].at # "done" /\ session[q].addr = b
      BY <1>2, <1>12, <2>2 DEF Rest, NoClientWithoutSession, Alive
    <3> QED
      BY <1>4, <1>9, <2>2, <3>1
  <2> QED
    BY <2>1, <2>2
<1>22. OneTask'
  BY <1>1, <1>2, <1>4, <1>5, <1>8, <1>9 DEF Rest, OneTask
<1>23. Settled'
  <2> SUFFICES ASSUME NEW q \in DOMAIN session', session'[q].at # "done",
                      session'[q].addr \in DOMAIN clients_by_addr', session'[q].addr \notin reused
               PROVE  session'[q].began /\ ~ Logs(session'[q]) /\ ~ Leaves(session'[q])
    BY <1>5 DEF Settled, Registered
  <2>1. CASE q = s
    BY <1>8, <2>1 DEF Logs, Leaves
  <2>2. CASE q # s
    <3>1. session'[q] = session[q] /\ q \in DOMAIN session
      BY <1>9, <2>2
    <3>2. session[q].addr # a
      BY <1>1, <1>2, <1>4, <2>2, <3>1 DEF Rest, OneTask
    <3> QED
      BY <1>2, <1>12, <3>1, <3>2 DEF Rest, Settled, Registered
  <2> QED
    BY <2>1, <2>2
<1>24. ~ Logs(session'[s])
  BY <1>8 DEF Logs
<1>25. OneLogin'
  BY <1>2, <1>5, <1>9, <1>24 DEF Rest, OneLogin
<1>26. NameFree'
  <2> SUFFICES ASSUME NEW q \in DOMAIN session', NEW k \in Names,
                      Logs(session'[q]), session'[q].at # "evicting", session'[q].name = k,
                      k \notin raced', ~ Stranded(k)', NEW b \in DOMAIN clients_by_addr'
               PROVE  clients_by_addr'[b] \notin Named(k)'
    BY DEF NameFree
  <2>1. q # s /\ q \in DOMAIN session /\ session'[q] = session[q]
    BY <1>9, <1>24
  <2>2. k \notin raced /\ ~ Stranded(k)
    BY <1>5, <1>17
  <2>3. k # n
    BY <1>2, <1>3, <1>4, <2>1, <2>2 DEF Rest, OneLogin
  <2>4. CASE b = a
    BY <1>7, <1>11, <1>12, <2>3, <2>4 DEF Named
  <2>5. CASE b # a
    <3>1. b \in DOMAIN clients_by_addr /\ clients_by_addr'[b] = clients_by_addr[b]
      BY <1>12, <2>5
    <3>2. clients_by_addr[b] \notin Named(k) /\ clients_by_addr[b] \in DOMAIN clients_by_id
      BY <1>2, <2>1, <2>2, <3>1 DEF Rest, NameFree, Registry
    <3> QED
      BY <1>11, <3>1, <3>2 DEF Named
  <2> QED
    BY <2>4, <2>5
<1>27. OneOfAName'
  <2> SUFFICES ASSUME NEW k \in Names \ raced', ~ Stranded(k)',
                      NEW b \in DOMAIN clients_by_addr', NEW c \in DOMAIN clients_by_addr',
                      {clients_by_addr'[b], clients_by_addr'[c]} \subseteq Named(k)'
               PROVE  b = c
    BY DEF OneOfAName
  <2>1. k \in Names \ raced /\ ~ Stranded(k)
    BY <1>5, <1>17
  <2>2. ASSUME NEW d \in DOMAIN clients_by_addr', d # a, clients_by_addr'[d] \in Named(k)'
        PROVE  d \in DOMAIN clients_by_addr /\ clients_by_addr[d] \in Named(k)
    <3>1. d \in DOMAIN clients_by_addr /\ clients_by_addr'[d] = clients_by_addr[d]
      BY <1>12, <2>2
    <3>2. clients_by_addr[d] \in DOMAIN clients_by_id
      BY <1>2, <3>1 DEF Rest, Registry
    <3> QED
      BY <1>11, <2>2, <3>1, <3>2 DEF Named
  <2>3. clients_by_addr'[a] \in Named(k)' => k = n
    BY <1>7, <1>11, <1>12 DEF Named
  <2>4. ASSUME NEW d \in DOMAIN clients_by_addr', d # a, clients_by_addr'[d] \in Named(k)'
        PROVE  k # n
    BY <1>1, <1>2, <1>3, <1>4, <2>1, <2>2, <2>4 DEF Rest, NameFree
  <2>5. CASE b # a /\ c # a
    BY <1>2, <2>1, <2>2, <2>5 DEF Rest, OneOfAName
  <2>6. CASE b = a \/ c = a
    BY <2>3, <2>4, <2>6
  <2> QED
    BY <2>5, <2>6
<1>28. Rest'
  BY <1>18, <1>19, <1>20, <1>21, <1>22, <1>23, <1>25, <1>26, <1>27 DEF Rest
<1> QED
  BY <1>13, <1>14, <1>28 DEF Inv

-----------------------------------------------------------------------------
(***************************************************************************)
(* The invariant, and what follows.                                        *)
(***************************************************************************)
LEMMA InitInv == Init => Inv
<1> SUFFICES ASSUME Init PROVE Inv
  OBVIOUS
<1>1. /\ sessions = <<>> /\ session = <<>> /\ session_close = <<>> /\ cleanup = {}
      /\ clients_by_addr = <<>> /\ clients_by_id = <<>> /\ next_user_id = 1
      /\ silent = [a \in Addrs |-> Heard] /\ listed = {} /\ reused = {} /\ raced = {}
  BY DEF Init
<1>2. DOMAIN sessions = {} /\ DOMAIN session = {} /\ DOMAIN clients_by_addr = {} /\ DOMAIN clients_by_id = {}
  BY <1>1
<1>3. SessionsTypeOK
  <2>1. session \in Seq(TaskRecord) /\ session_close \in Seq(Addrs) /\ Len(session) = 0 /\ Len(session_close) = 0
    BY <1>1
  <2>2. silent \in [Addrs -> Heard .. TimedOut]
    BY <1>1 DEF Heard, TimedOut
  <2> QED
    BY <1>1, <1>2, <2>1, <2>2, SessionsAssumption DEF SessionsTypeOK
<1>4. Stages
  BY <1>2 DEF Stages
<1>5. Registry /\ Tracked /\ Unlisted /\ NoClientWithoutSession /\ OneTask /\ Settled
  BY <1>2 DEF Registry, Tracked, Unlisted, NoClientWithoutSession, OneTask, Settled
<1>6. OneLogin /\ NameFree /\ OneOfAName
  BY <1>2 DEF OneLogin, NameFree, OneOfAName
<1> QED
  BY <1>3, <1>4, <1>5, <1>6 DEF Inv, Rest

LEMMA StutterInv ==
  ASSUME Inv, UNCHANGED vars
  PROVE  Inv'
<1>1. /\ UNCHANGED session /\ UNCHANGED table /\ UNCHANGED registry /\ UNCHANGED silent
      /\ UNCHANGED history
  BY DEF vars
<1>2. Fewer /\ RegistryOK' /\ TableOK'
  BY <1>1, NothingForgotten, TableStays
<1>3. silent' \in [Addrs -> Heard .. TimedOut]
  BY <1>1, TypeIs DEF Inv
<1> QED
  BY <1>1, <1>2, <1>3, OthersCalm

LEMMA NextInv == Inv /\ [Next]_vars => Inv'
<1> SUFFICES ASSUME Inv, [Next]_vars PROVE Inv'
  OBVIOUS
<1>1. ASSUME NEW a \in Addrs, Wait(a) PROVE Inv'
  BY <1>1, WaitInv
<1>2. ASSUME NEW a \in Addrs, ReapPlayer(a) PROVE Inv'
  BY <1>2, ReapInv
<1>3. ASSUME NEW a \in Addrs, Packet(a) PROVE Inv'
  BY <1>3, DeliverInv, SpawnInv
<1>4. CASE CloseSession
  BY <1>4, CloseSessionInv
<1>5. CASE Expire
  BY <1>5, ExpireInv
<1>6. CASE CleanUp
  BY <1>6, CleanUpInv
<1>7. ASSUME NEW s \in DOMAIN session, Task(s) PROVE Inv'
  <2>1. CASE Other(s)
    BY <2>1, OtherInv
  <2>2. CASE Look(s)
    BY <2>2, LookIs, RejectInv, BeginsInv DEF Inv
  <2>3. CASE Evict(s)
    BY <2>3, EvictInv
  <2>4. CASE Unlist(s)
    BY <2>4, UnlistInv
  <2>5. CASE Close(s)
    BY <2>5, CloseInv
  <2>6. CASE add_client(s)
    BY <2>6, AddInv
  <2>7. CASE handle_client_to_server_ack(s)
    BY <2>7, AckInv
  <2>8. CASE Announce(s)
    BY <2>8, AnnounceInv
  <2>9. CASE handle_user_quit(s)
    BY <2>9, QuitInv
  <2>10. CASE Closed(s)
    BY <2>10, LeaveInv DEF Closed
  <2>11. CASE TimeOut(s)
    BY <2>11, LeaveInv DEF TimeOut
  <2>12. CASE Untable(s)
    BY <2>12, UntableInv
  <2>13. CASE Unregister(s)
    BY <2>13, UnregisterInv
  <2> QED
    BY <1>7, <2>1, <2>2, <2>3, <2>4, <2>5, <2>6, <2>7, <2>8, <2>9, <2>10, <2>11, <2>12, <2>13 DEF Task
<1>8. CASE UNCHANGED vars
  BY <1>8, StutterInv
<1> QED
  BY <1>1, <1>2, <1>3, <1>4, <1>5, <1>6, <1>7, <1>8 DEF Next

\* The invariant holds in every reachable state.
LEMMA SpecInv == Spec => []Inv
  BY InitInv, NextInv, PTL DEF Spec

\* Whose address is gone after the step: the actions that can take it.
Told(l) == AddrOf(l[1]) = {l[2]} /\ AddrOf(l[1])' = {}
             => l \notin listed' \/ Unlisting(l[1])' \/ l[2] \in reused

LEMMA ListedIs ==
  ASSUME Inv, NEW l \in listed, AddrOf(l[1]) = {l[2]}, AddrOf(l[1])' = {}
  PROVE  /\ l = <<l[1], l[2]>> /\ l[2] \in DOMAIN clients_by_addr /\ clients_by_addr[l[2]] = l[1]
         /\ l[2] \in DOMAIN clients_by_addr' => clients_by_addr'[l[2]] # l[1]
<1>1. l = <<l[1], l[2]>>
  BY TypeIs DEF Inv, RegistryOK
<1>2. l[2] \in AddrOf(l[1])
  OBVIOUS
<1> QED
  BY <1>1, <1>2, NoAddrNext DEF AddrOf

\* Of what a step drops or puts, only that is different.
LEMMA OnlyThat ==
  ASSUME NEW b, NEW y, clients_by_addr' = Drop(clients_by_addr, b) \/ clients_by_addr' = Put(clients_by_addr, b, y),
         NEW c \in DOMAIN clients_by_addr,
         c \in DOMAIN clients_by_addr' => clients_by_addr'[c] # clients_by_addr[c]
  PROVE  c = b
  BY DEF Drop, Put

LEMMA RemovedIsTold ==
  ASSUME Inv, NEW a, RemoveClient(a, TRUE), NEW l \in listed
  PROVE  Told(l)
<1> SUFFICES ASSUME AddrOf(l[1]) = {l[2]}, AddrOf(l[1])' = {} PROVE l \notin listed'
  BY DEF Told
<1>1. /\ l = <<l[1], l[2]>> /\ l[2] \in DOMAIN clients_by_addr /\ clients_by_addr[l[2]] = l[1]
      /\ l[2] \in DOMAIN clients_by_addr' => clients_by_addr'[l[2]] # l[1]
  BY ListedIs
<1>2. l[2] = a
  <2>1. clients_by_addr' = Drop(clients_by_addr, a)
    BY DEF RemoveClient
  <2> QED
    BY <1>1, <2>1, OnlyThat
<1>3. listed' = listed \ {<<clients_by_addr[a], a>>}
  BY <1>1, <1>2 DEF RemoveClient, Registered
<1> QED
  BY <1>1, <1>2, <1>3

LEMMA KeptIsTold ==
  ASSUME Inv, UNCHANGED clients_by_addr, NEW l \in listed
  PROVE  Told(l)
  BY ListedIs DEF Told

LEMMA NextTells ==
  ASSUME Inv, Next, NEW l \in listed
  PROVE  Told(l)
<1>1. ASSUME NEW a \in Addrs, Wait(a) \/ ReapPlayer(a) \/ Packet(a) PROVE Told(l)
  <2>1. UNCHANGED clients_by_addr
    BY <1>1 DEF Wait, ReapPlayer, Packet, registry
  <2> QED
    BY <2>1, KeptIsTold
<1>2. CASE CloseSession \/ Expire
  <2>1. UNCHANGED clients_by_addr
    BY <1>2 DEF CloseSession, Expire, registry
  <2> QED
    BY <2>1, KeptIsTold
<1>3. CASE CleanUp
  BY <1>3, RemovedIsTold DEF CleanUp
<1>4. ASSUME NEW s \in DOMAIN session, Task(s) PROVE Told(l)
  <2> DEFINE a == session[s].addr
  <2>0. Rest /\ SessionsTypeOK
    BY DEF Inv
  <2>1. CASE Other(s) \/ Look(s) \/ Unlist(s) \/ Close(s) \/ handle_client_to_server_ack(s) \/ Announce(s) \/ Untable(s)
    <3>1. UNCHANGED clients_by_addr
      BY <2>1 DEF Other, Look, Unlist, Close, handle_client_to_server_ack, Announce, Untable, registry
    <3> QED
      BY <3>1, KeptIsTold
  <2>2. CASE handle_user_quit(s) \/ Closed(s) \/ TimeOut(s)
    <3>1. RemoveClient(a, TRUE)
      BY <2>2 DEF handle_user_quit, Closed, TimeOut, Leave
    <3> QED
      BY <3>1, RemovedIsTold
  <2>3. CASE Evict(s)
    <3>1. CASE UNCHANGED clients_by_addr
      BY <3>1, KeptIsTold
    <3>2. ASSUME NEW i, NEW b \in AddrOf(i), clients_by_addr' = Drop(clients_by_addr, b),
                 session' = [session EXCEPT ![s].at = "unlisting", ![s].client = i, ![s].old = b]
          PROVE  Told(l)
      <4> SUFFICES ASSUME AddrOf(l[1]) = {l[2]}, AddrOf(l[1])' = {} PROVE Unlisting(l[1])'
        BY DEF Told
      <4>1. /\ l[2] \in DOMAIN clients_by_addr /\ clients_by_addr[l[2]] = l[1]
            /\ l[2] \in DOMAIN clients_by_addr' => clients_by_addr'[l[2]] # l[1]
        BY ListedIs
      <4>2. l[2] = b
        BY <3>2, <4>1, OnlyThat
      <4>3. i = l[1]
        BY <4>1, <4>2 DEF AddrOf
      <4>4. session'[s].at = "unlisting" /\ session'[s].client = i /\ s \in DOMAIN session'
        BY <2>0, <3>2, TaskIs DEF TaskRecord
      <4> QED
        BY <4>3, <4>4 DEF Unlisting, At
    <3> QED
      BY <2>3, <3>1, <3>2 DEF Evict
  <2>4. CASE add_client(s) \/ Unregister(s)
    <3> SUFFICES ASSUME AddrOf(l[1]) = {l[2]}, AddrOf(l[1])' = {} PROVE l[2] \in reused
      BY DEF Told
    <3>1. /\ l[2] \in DOMAIN clients_by_addr
          /\ l[2] \in DOMAIN clients_by_addr' => clients_by_addr'[l[2]] # clients_by_addr[l[2]]
      BY ListedIs
    <3>2. l[2] = a
      <4>1. \/ clients_by_addr' = Drop(clients_by_addr, session[s].addr)
            \/ clients_by_addr' = Put(clients_by_addr, session[s].addr, next_user_id)
        BY <2>4 DEF add_client, Unregister, RemoveClient
      <4> QED
        BY <3>1, <4>1, OnlyThat
    <3>3. session[s].at # "done" /\ (Logs(session[s]) \/ Leaves(session[s])) /\ Registered(a)
      BY <2>4, <3>1, <3>2 DEF add_client, Unregister, At, Logs, Leaves, Registered
    <3> QED
      BY <2>0, <3>2, <3>3 DEF Rest, Settled
  <2> QED
    BY <1>4, <2>1, <2>2, <2>3, <2>4 DEF Task
<1> QED
  BY <1>1, <1>2, <1>3, <1>4 DEF Next

\* The channels and tables stay within their bounds whatever the tasks do, and every id,
\* address and name in them is one that was given (session_manager.rs, state.rs).
THEOREM SessionTypesHold == Spec => []SessionsTypeOK
  BY SpecInv, PTL DEF Inv

\* A registered client always has a task that will remove him, for any number of addresses,
\* sessions and clients (session_manager.rs:558-565).
THEOREM NobodyOutlivesHisSession == Spec => []NoClientWithoutSession
  BY SpecInv, PTL DEF Inv, Rest

\* The map by address and the map by id agree in every state, but for an eviction between
\* its two locks and for an address that had two sessions at once (state.rs:94-137).
THEOREM TheMapsAgree == Spec => []MapsAgree
<1>1. Inv => MapsAgree
  BY DEF Inv, Rest, Registry, Tracked, MapsAgree
<1> QED
  BY <1>1, SpecInv, PTL

\* No two clients have one name unless two of its logins overlapped or one of them lost his
\* address to another client (user.rs:52-142).
THEOREM NamesAreGivenOnce == Spec => []OneOfAName
  BY SpecInv, PTL DEF Inv, Rest

\* Nobody the lobby was told of goes without a word, but for the last removal of a session
\* whose address had another (session_manager.rs:565).
THEOREM NobodyLeavesUnseen == Spec => LeaversAreTold
<1>1. Inv /\ [Next]_vars =>
        [\A l \in listed : AddrOf(l[1]) = {l[2]} /\ AddrOf(l[1])' = {}
           => l \notin listed' \/ Unlisting(l[1])' \/ l[2] \in reused]_vars
  BY NextTells DEF Told
<1> QED
  BY <1>1, SpecInv, PTL DEF Spec, LeaversAreTold

================================================================================
