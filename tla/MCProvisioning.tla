---------------------------- MODULE MCProvisioning ----------------------------
(***************************************************************************)
(* Instances of Provisioning for TLC.                                      *)
(***************************************************************************)
EXTENDS Provisioning, TLC

Symmetry == Permutations(Signups) \cup Permutations(Joins) \cup Permutations(Emails)

=============================================================================
