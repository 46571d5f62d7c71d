---------------------------------- MODULE Lists ----------------------------------
(***************************************************************************)
(* What is kept of a list, in its order: Vec::retain and its like in the   *)
(* rooms, the release of a guard in the queues of the locks. It is told by *)
(* the positions that are kept, and not by SelectSeq, so that something    *)
(* can be proved about it (module ListsProofs).                            *)
(***************************************************************************)
EXTENDS Integers, Sequences, FiniteSets

\* The members of a set of positions up to one of them, and the k-th of the set.
UpTo(I, i) == {j \in I : j <= i}
Nth(I, k) == CHOOSE i \in I : Cardinality(UpTo(I, i)) = k

Kept(s, I) == [k \in 1 .. Cardinality(I) |-> s[Nth(I, k)]]
==================================================================================
