----------------------------- MODULE MCChatClient -----------------------------
(***************************************************************************)
(* Instances of ChatClient for TLC.                                        *)
(***************************************************************************)
EXTENDS ChatClient

Symmetry == Permutations(Turns) \cup Permutations(Users \ {Me}) \cup Permutations(Convs)

=============================================================================
