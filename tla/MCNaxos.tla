------------------------------- MODULE MCNaxos -------------------------------
(* Values of Writes and the symmetry of client writes.                      *)
EXTENDS Naxos, TLC

Symmetry == Permutations(Request)

MasterWrites  == 0 :> Cardinality(Request)
TwoNodesWrite == MasterWrites @@ 1 :> Cardinality(Request)
=============================================================================
