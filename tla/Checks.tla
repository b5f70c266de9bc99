------------------------------- MODULE Checks -------------------------------
(***************************************************************************)
(* Checks that run one after the other: the first that fails gives the      *)
(* reason, as a chain of "if ...: raise" does.                              *)
(***************************************************************************)
EXTENDS Naturals, Sequences

\* The first of the entries that is not "none".
FirstFault(faults) ==
  LET found == {k \in DOMAIN faults : faults[k] # "none"}
  IN IF found = {} THEN "none"
     ELSE faults[CHOOSE k \in found : \A j \in found : k <= j]

Check(holds, reason) == IF holds THEN "none" ELSE reason

=============================================================================
