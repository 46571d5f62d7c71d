---------------------------- MODULE OrderedChannel ----------------------------
(***************************************************************************)
(* What the handlers take the connection to a client to be: messages are   *)
(* taken in the order they were sent, each once, none skipped. Messages    *)
(* are numbered 1, 2, 3 for ever. Module PacketStream shows how the        *)
(* bundles and 16-bit numbers of the code keep this over UDP.              *)
(***************************************************************************)
EXTENDS Integers, Sequences

VARIABLES sent,       \* how many messages were sent
          delivered   \* the messages taken, in order

channel == <<sent, delivered>>

Init == sent = 0 /\ delivered = <<>>

Send == sent' = sent + 1 /\ UNCHANGED delivered

\* Any number of messages that are due are taken at once.
Deliver == /\ \E n \in Len(delivered) + 1 .. sent : delivered' = [i \in 1 .. n |-> i]
           /\ UNCHANGED sent

Spec == Init /\ [][Send \/ Deliver]_channel
==============================================================================
