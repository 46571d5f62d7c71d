------------------------------ MODULE MCLockOrder ------------------------------
(***************************************************************************)
(* Three tasks: one that holds, one that waits, and one more whose request *)
(* is queued between them. Every span is in a crew. The end of a game and  *)
(* the status for a client who logs in are kept apart, but for the run     *)
(* that shows why.                                                         *)
(***************************************************************************)
EXTENDS LockOrder

MCTasks == 1 .. 3

MCApart == {Spans \ make_server_status, Spans \ execute_drop_game}
MCTogether == {make_server_status \cup execute_drop_game}
===============================================================================
