-------------------------------- MODULE MCBff --------------------------------
(***************************************************************************)
(* Instances of Bff for TLC.                                               *)
(***************************************************************************)
EXTENDS Bff, TLC

Symmetry == Permutations(Tokens) \cup Permutations(Users) \cup Permutations(Requests)
                \cup Permutations(Browsers)

=============================================================================
