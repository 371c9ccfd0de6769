-------------------------------- MODULE MCTab --------------------------------
(***************************************************************************)
(* Instances of Tab for TLC.                                               *)
(***************************************************************************)
EXTENDS Tab

AllPages == AppPage
DocumentsPage == {"/documents"}

=============================================================================
