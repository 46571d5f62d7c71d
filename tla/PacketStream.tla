----------------------------- MODULE PacketStream -----------------------------
(***************************************************************************)
(* How messages get across UDP: UDPPacketGenerator (kaillera/protocol.rs)  *)
(* numbers a message and sends it together with the ones before it; the    *)
(* session task (process_packet_in_session, main.rs) takes the messages of *)
(* a bundle in the order of their numbers and keeps early ones aside. The  *)
(* server has the first half for what it sends and the second for what it  *)
(* receives; a client has the other half of each, and is taken to do as    *)
(* the server does. Bundles are lost, duplicated and reordered at will.    *)
(* The body of a message is how many were sent up to it, 1, 2, 3, ...      *)
(***************************************************************************)
EXTENDS Integers, SequencesExt

CONSTANTS SeqValues,      \* values of a message number (a u16: 65536)
          RecentPackets,  \* MAX_RECENT_PACKETS (3)
          PendingMax,     \* MAX_PENDING_SESSION_MESSAGES (256)
          Lifetime,       \* a bundle arrives before so many others are sent, or never
          MaxAhead,       \* how many messages the sender sends beyond the last taken
          MaxSent         \* bound on the messages sent

Half == (SeqValues - 1) \div 2

\* What the width of the numbers relies on: some numbers look new at all; an old bundle is
\* gone before its numbers look new again; and a game's window stops the sender before a
\* receiver who hears nothing is a whole turn of the counter behind.
ASSUME StreamAssumption ==
  /\ SeqValues \in Nat /\ Half > 0 /\ RecentPackets \in Nat \ {0} /\ PendingMax \in Nat
  /\ Lifetime \in Nat \ {0} /\ MaxAhead \in Nat /\ MaxSent \in Nat
  /\ Lifetime + RecentPackets - 1 <= SeqValues - Half
  /\ MaxAhead <= SeqValues

VARIABLES send_count,       \* the next message's number
          recent_packets,   \* the last messages sent, oldest first
          bundles,          \* every packet sent, in order; the last is last_sent
          packet_counter,   \* the number the receiver waits for
          pending,          \* early messages, by number
          delivered         \* history: the messages taken, in order

sender == <<send_count, recent_packets, bundles>>
receiver == <<packet_counter, pending, delivered>>
stream == <<sender, receiver>>

Init == /\ send_count = 0 /\ recent_packets = <<>> /\ bundles = <<>>
        /\ packet_counter = 0 /\ pending = [n \in {} |-> 0] /\ delivered = <<>>

Sent == Len(bundles)

-----------------------------------------------------------------------------
(***************************************************************************)
(* UDPPacketGenerator                                                      *)
(***************************************************************************)
\* Mutation: one message fewer is kept.
Recent_fewer(packets) == IF Len(packets) >= RecentPackets - 1 THEN Tail(packets) ELSE packets

Recent(packets) == IF Len(packets) >= RecentPackets THEN Tail(packets) ELSE packets

\* make_send_packet: newest first.
make_send_packet ==
  /\ Sent < MaxSent
  /\ Sent < Len(delivered) + MaxAhead
  /\ recent_packets' = Append(Recent(recent_packets), [number |-> send_count, body |-> Sent + 1])
  /\ bundles' = Append(bundles, Reverse(recent_packets'))
  /\ send_count' = (send_count + 1) % SeqValues
  /\ UNCHANGED receiver

-----------------------------------------------------------------------------
(***************************************************************************)
(* process_packet_in_session                                               *)
(***************************************************************************)
\* Mutation: compared without the wrap.
is_future_message_flat(number, expected) == number > expected

\* Mutation: any other number is early.
is_future_message_any(number, expected) == number # expected

is_future_message(number, expected) == ((number - expected) % SeqValues) \in 1 .. Half - 1

Without(function, keys) == [n \in DOMAIN function \ keys |-> function[n]]

\* process_ordered_message, and after it the early messages that follow on.
Take(s, message) ==
  LET next == (s.counter + 1) % SeqValues
      follow == CHOOSE n \in 0 .. Cardinality(DOMAIN s.pending) :
                  /\ (next + n) % SeqValues \notin DOMAIN s.pending
                  /\ \A k \in 0 .. n - 1 : (next + k) % SeqValues \in DOMAIN s.pending
      taken == [k \in 1 .. follow |-> (next + k - 1) % SeqValues]
  IN [counter |-> (next + follow) % SeqValues,
      pending |-> Without(s.pending, {taken[k] : k \in 1 .. follow}),
      done    |-> Append(s.done, message.body) \o [k \in 1 .. follow |-> s.pending[taken[k]]]]

\* BTreeMap::entry().or_insert: the first message with a number stays.
Keep(s, message) ==
  IF message.number \in DOMAIN s.pending THEN s
  ELSE [s EXCEPT !.pending = [n \in DOMAIN @ \cup {message.number} |->
                                IF n = message.number THEN message.body ELSE @[n]]]

\* Mutation: one early message too many.
Process_over(s, message) ==
  CASE message.number = s.counter -> Take(s, message)
    [] /\ is_future_message(message.number, s.counter)
       /\ Cardinality(DOMAIN s.pending) <= PendingMax -> Keep(s, message)
    [] OTHER -> s

Process(s, message) ==
  CASE message.number = s.counter -> Take(s, message)
    [] /\ is_future_message(message.number, s.counter)
       /\ Cardinality(DOMAIN s.pending) < PendingMax -> Keep(s, message)
    [] OTHER -> s

\* A lone message 0 to a receiver that has taken nothing empties `pending`.
Restart(bundle) == Len(bundle) = 1 /\ bundle[1].number = 0 /\ packet_counter = 0

process_packet_in_session(bundle) ==
  LET s[i \in 0 .. Len(bundle)] ==
        IF i > 0 THEN Process(s[i - 1], bundle[i])
        ELSE [counter |-> packet_counter,
              pending |-> IF Restart(bundle) THEN [n \in {} |-> 0] ELSE pending,
              done    |-> delivered]
      end == s[Len(bundle)]
  IN /\ packet_counter' = end.counter
     /\ pending' = end.pending
     /\ delivered' = end.done
     /\ UNCHANGED sender

\* A bundle may arrive late, after later ones, again, or never.
Arrive(i) == i \in DOMAIN bundles /\ process_packet_in_session(bundles[i])

Next == make_send_packet \/ \E i \in Sent - Lifetime + 1 .. Sent : Arrive(i)

\* The resend tasks (session_manager.rs) send last_sent again and again while the
\* other side is silent, so that one of the copies arrives; a sender that may send on
\* does.
ResendArrives == Arrive(Sent)

Spec == Init /\ [][Next]_stream /\ WF_stream(make_send_packet) /\ WF_stream(ResendArrives)

-----------------------------------------------------------------------------
(***************************************************************************)
(* Properties.                                                             *)
(***************************************************************************)
Channel == INSTANCE OrderedChannel WITH sent <- Sent

Messages(s) == \A i \in DOMAIN s : s[i].number \in 0 .. SeqValues - 1 /\ s[i].body \in Nat

\* Numbers fit 16 bits, and `pending` its bound (kaillera/protocol.rs, main.rs).
TypeOK == /\ send_count \in 0 .. SeqValues - 1 /\ packet_counter \in 0 .. SeqValues - 1
          /\ Len(recent_packets) <= RecentPackets /\ Messages(recent_packets)
          /\ \A i \in DOMAIN bundles : Messages(bundles[i])
          /\ DOMAIN pending \subseteq 0 .. SeqValues - 1
          /\ Cardinality(DOMAIN pending) <= PendingMax

\* What is kept aside is still to come: a message sent, not yet taken, and kept under
\* the number it was sent with, although the number has been used before.
PendingIsAhead ==
  \A n \in DOMAIN pending : /\ pending[n] \in Len(delivered) + 2 .. Sent
                            /\ (pending[n] - 1) % SeqValues = n

\* Over any loss, duplication and reordering, the messages of a client are handled in
\* the order he sent them, each once and none skipped.
KeepsOrder == Channel!Spec

\* A silent receiver recovers: every message is taken in the end ("Resending the last
\* packet (verbatim, same message numbers) lets it recover", session_manager.rs).
Recovers == <>(Len(delivered) = MaxSent)

\* He does, if the sender never gets further ahead of him than the messages a bundle
\* holds: then whatever he misses is in the last packet.
RecoversFromTheLastPacket == [](Sent <= Len(delivered) + RecentPackets) => Recovers
==============================================================================
