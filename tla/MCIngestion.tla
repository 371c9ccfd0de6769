----------------------------- MODULE MCIngestion -----------------------------
(***************************************************************************)
(* Instances of Ingestion for TLC: which slots belong to which node, and   *)
(* how many faults of each kind a run allows.                              *)
(***************************************************************************)
EXTENDS Ingestion, TLC

OneNode == [w \in Workers |-> CHOOSE n \in Nodes : TRUE]

\* Every slot on a node of its own.
SlotPerNode == CHOOSE f \in [Workers -> Nodes] : \A v, w \in Workers : f[v] = f[w] => v = w

JobSymmetry == Permutations(Jobs)

NoFaults == [k \in FaultKinds |-> 0]

SoloFaults == [k \in FaultKinds |-> 1]
FleetFaults == [NoFaults EXCEPT !["slot"] = 1, !["node"] = 1, !["visibility"] = 1]

OneRedelivery == [NoFaults EXCEPT !["visibility"] = 1]

=============================================================================
