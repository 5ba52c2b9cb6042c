------------------------------ MODULE MCRestart ------------------------------
(* Values of Writes and the symmetry of client writes.                      *)
EXTENDS Restart, MCNaxos
=============================================================================
