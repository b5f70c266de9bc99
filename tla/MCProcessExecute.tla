------------------------- MODULE MCProcessExecute --------------------------
(***************************************************************************)
(* ProcessExecute for TLC: the leader and a child, by name, so that a       *)
(* counterexample reads well.                                               *)
(***************************************************************************)
EXTENDS ProcessExecute

TheLeader == "leader"
OneChild == {"child"}

=============================================================================
