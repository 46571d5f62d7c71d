------------------------------ MODULE MCGameRoom ------------------------------
(***************************************************************************)
(* Three users and one room for two: a third gets in when two joins race.  *)
(***************************************************************************)
EXTENDS GameRoom, TLC

CONSTANTS c1, c2, c3

MCClients == {c1, c2, c3}
Symmetric == Permutations(MCClients)
==============================================================================
