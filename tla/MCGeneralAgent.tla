-------------------------- MODULE MCGeneralAgent ---------------------------
(***************************************************************************)
(* GeneralAgent for TLC.  Call identities, signatures and observations are  *)
(* only compared for equality, and no property is a liveness property.      *)
(***************************************************************************)
EXTENDS GeneralAgent, TLC

Identities ==
  Permutations(CallId) \cup Permutations(Signature) \cup Permutations(Observation)

=============================================================================
