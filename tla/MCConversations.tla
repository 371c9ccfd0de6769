--------------------------- MODULE MCConversations ---------------------------
(***************************************************************************)
(* Instances of Conversations for TLC.                                     *)
(***************************************************************************)
EXTENDS Conversations

Symmetry == Permutations(Turns) \cup Permutations(Users) \cup Permutations(Convs)

=============================================================================
