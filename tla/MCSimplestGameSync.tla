-------------------------- MODULE MCSimplestGameSync --------------------------
(***************************************************************************)
(* Three players, the second of whom gets two frames to a packet. For him  *)
(* a packet of one byte is too short to be queued, and one of three bytes  *)
(* makes one chunk more than his delay.                                    *)
(***************************************************************************)
EXTENDS SimplestGameSync, SequencesExt

MCPlayers == 1 .. 3
MCDelay == <<1, 2, 1>>
MCByte == 0 .. 3
MCPackets == {<<1>>, <<3, 0, 2>>}

Bytes(frames) == FlattenSeq([k \in 1 .. Len(frames) |-> FlattenSeq(frames[k])])

Loop == INSTANCE SyncLoop
          WITH sender_buffer <- [p \in Players |-> FlattenSeq(sender_buffer[p])],
               outputs <- [p \in Players |->
                             [i \in 1 .. Len(sent[p]) \div Delay[p] |->
                                Bytes(SubSeq(sent[p], (i - 1) * Delay[p] + 1, i * Delay[p]))]]

\* The two loops of drain_ready_inputs, run one iteration at a time on the flat
\* buffers of the code, end where Drain says and make the same outputs.
RunsTheLoop == Loop!Spec
==============================================================================
