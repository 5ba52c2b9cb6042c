------------------------------- MODULE Restart -------------------------------
(***************************************************************************)
(* Naxos with daemons that are started again.  A daemon keeps nothing on   *)
(* disk, so the new process is as the constructors leave it (captain.cpp,  *)
(* view.cpp, commo.cpp, and start() of src/test/naxos.cpp): the lease is   *)
(* in force, and every promise, acceptance and decision is forgotten.      *)
(***************************************************************************)
EXTENDS Naxos

CONSTANT Reborn    \* bound: nodes that may come back, once each

ASSUME RestartAssumption == Reborn \subseteq Mortal

VARIABLE restarted    \* history: nodes that came back

restartVars == <<vars, restarted>>

RestartInit == Init /\ restarted = {}

\* The process of node n starts.  A Data on its way to n is for an Interest
\* of the old process, and is dropped; an Interest may still reach the new one.
StartAgain(n) ==
  /\ loop[n] = "killed"
  /\ n \notin restarted
  /\ restarted' = restarted \cup {n}
  /\ view' = [view EXCEPT ![n] = InitView]
  /\ acceptors' = [acceptors EXCEPT ![n] = [s \in Slot |->
                     NewAcceptor(IF s <= Length THEN LeaseBallot ELSE 0)]]
  /\ proposers' = [proposers EXCEPT ![n] = [s \in Slot |-> NoProposer]]
  /\ maxSlot' = [maxSlot EXCEPT ![n] = 0]
  /\ lastSlot' = [lastSlot EXCEPT ![n] = 0]
  /\ valueId' = [valueId EXCEPT ![n] = n]
  /\ tocommit' = [tocommit EXCEPT ![n] = <<>>]
  /\ chosen' = [chosen EXCEPT ![n] = [s \in Slot |-> NULL]]
  /\ loop' = [loop EXCEPT ![n] = "running"]
  /\ net' = {m \in net : m.to = n => m.type \in Interest}
  /\ quorumMutHeld' = [quorumMutHeld EXCEPT ![n] = FALSE]
  /\ logCounter' = [logCounter EXCEPT ![n] =
                      IF n \in InitQuorum THEN 0 ELSE LogWindow]
  /\ logPending' = [logPending EXCEPT ![n] = 1 .. logCounter'[n]]
  /\ UNCHANGED <<unsent, informed, votes, proposals>>

RestartNext ==
  \/ Next /\ UNCHANGED restarted
  \/ \E n \in Reborn : StartAgain(n)

RestartSpec == RestartInit /\ [][RestartNext]_restartVars

-----------------------------------------------------------------------------
(* Properties *)

\* What the restarts of followers leave of the log: a follower forgets its
\* copy and may never fill it again, but a decision stays the decision, no
\* write is decided twice, and a client is told only of decisions
\* (acceptor.cpp:10, captain.cpp:37-55).
ImplementsForgetfulLog == Log!ForgetfulSpec
=============================================================================
