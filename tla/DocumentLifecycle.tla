-------------------------- MODULE DocumentLifecycle --------------------------
(***************************************************************************)
(* What ingestion promises the users of a tenant about a document, as they *)
(* see it in the document list and in citations: an accepted upload is     *)
(* pending, and becomes ready or failed once and for all; it becomes       *)
(* citable at the very moment it becomes ready, and stays so.              *)
(***************************************************************************)
CONSTANT Documents

VARIABLES
    status,  \* documents.status as the API reports it
    citable  \* whether chat can resolve the document's chunks

vars == <<status, citable>>

Init ==
    /\ status = [d \in Documents |-> "absent"]
    /\ citable = [d \in Documents |-> FALSE]

Accept(d) ==
    /\ status[d] = "absent"
    /\ status' = [status EXCEPT ![d] = "pending"]
    /\ UNCHANGED citable

Succeed(d) ==
    /\ status[d] = "pending"
    /\ status' = [status EXCEPT ![d] = "ready"]
    /\ citable' = [citable EXCEPT ![d] = TRUE]

GiveUp(d) ==
    /\ status[d] = "pending"
    /\ status' = [status EXCEPT ![d] = "failed"]
    /\ UNCHANGED citable

Next == \E d \in Documents : Accept(d) \/ Succeed(d) \/ GiveUp(d)

Spec == Init /\ [][Next]_vars

=============================================================================
