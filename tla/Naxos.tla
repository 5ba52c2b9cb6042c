-------------------------------- MODULE Naxos --------------------------------
(***************************************************************************)
(* The whole system: the captains and their communication, client writes,  *)
(* message loss, and nodes that stop for good (a node has no state on disk *)
(* and no code path that brings one back).                                 *)
(***************************************************************************)
EXTENDS Commo

CONSTANTS Lossy,    \* messages can be lost
          Mortal    \* bound: nodes that may stop

ASSUME NaxosAssumption ==
  /\ Lossy \in BOOLEAN
  /\ Mortal \subseteq Node

vars == <<captainVars, commoVars>>

Init == CaptainInit /\ CommoInit

Write(n, r) == /\ \/ Commit(n, r)
                  \/ CommitTakingOver(n, r)
                  \/ CommitForwarding(n, r)
               /\ UNCHANGED commoVars

Deliver(m) == HandleMsg(m) /\ UNCHANGED commoVars

\* An Interest or its Data is lost, or expires at a receiver that does not
\* answer.  Its sender does nothing: onTimeout is empty.
Lose(m) ==
  /\ m \in net
  /\ Lossy \/ loop[m.to] # "running"
  /\ net' = net \ {m}
  /\ UNCHANGED <<nodeVars, paxosVars, chosen, loop, unsent, informed,
                 commoVars>>

Kill(n) ==
  /\ loop[n] # "killed"
  /\ loop' = [loop EXCEPT ![n] = "killed"]
  /\ UNCHANGED <<nodeVars, paxosVars, chosen, net, unsent, informed,
                 commoVars>>

Next ==
  \/ \E n \in WriteNode, r \in Request : Write(n, r)
  \/ \E m \in net : Deliver(m) \/ Lose(m) \/ Nack(m)
  \/ \E n \in Mortal : Kill(n)
  \/ \E n \in Node : \E s \in logPending[n] :
       \/ \E q \in LogServer : OnDataLog(n, s, q)
       \/ Lossy /\ OnTimeoutLog(n, s)

Spec == Init /\ [][Next]_vars

\* The event loop of a running node gets to every message that has arrived,
\* and a log Interest for a slot that the server on its route knows is
\* answered.  Nothing is assumed of the other log servers.
Fairness ==
  \A n \in Node :
    /\ WF_vars(\E m \in net : m.to = n /\ Deliver(m))
    /\ WF_vars(\E s \in logPending[n] : OnDataLog(n, s, LogRoute(n)))

FairSpec == Spec /\ Fairness

-----------------------------------------------------------------------------
(* Properties *)

\* Type correctness of every variable.
TypeOK ==
  /\ view \in [Node -> ViewType]
  /\ acceptors \in [Node -> [Slot -> AcceptorType]]
  /\ proposers \in [Node -> [Slot -> ProposerType]]
  /\ maxSlot \in [Node -> 0 .. MaxSlot]
  /\ lastSlot \in [Node -> 0 .. MaxSlot]
  /\ valueId \in [Node -> Nat]
  /\ tocommit \in [Node -> Seq(Entry)]
  /\ chosen \in [Node -> [Slot -> Value \cup {NULL}]]
  /\ loop \in [Node -> {"running", "wait_commit", "wait_quorum_mut", "killed"}]
  /\ net \subseteq Messages
  /\ unsent \subseteq Request
  /\ informed \subseteq [client : Request \cup {NoRequest}, slot : Slot]
  /\ votes \subseteq Vote
  /\ proposals \subseteq Proposal
  /\ quorumMutHeld \in [Node -> BOOLEAN]
  /\ logCounter \in [Node -> Nat]
  /\ logPending \in [Node -> SUBSET Nat]

\* Every captain counts on its own answer being among the first QSize: a
\* master is in its own quorum, which is large enough to answer it.
MasterInQuorum == \A n \in Node :
  /\ view[n].master = n => n \in view[n].quorums
  /\ Cardinality(view[n].quorums) >= QSize

\* quorum_mut_ stays locked, and the next Nack blocks the event loop on it,
\* only at a captain that had no spare node left: as long as there is one, any
\* number of Nacks is handled (commo.cpp:433-456).  That the event loop does
\* block after that is how the code is written.
BlocksOnlyWithoutSpares == [][\A n \in Node :
  quorumMutHeld'[n] \/ loop'[n] = "wait_quorum_mut"
    => view[n].nquorums = {}]_vars

\* A captain never has more slots open than its window, and writes wait only
\* while the window is full: else the oldest of them would wait for a write
\* that may never come (captain.cpp:177, 187, 468).
WindowRespected == \A n \in Node :
  /\ Cardinality(Active(proposers[n])) <= Window
  /\ tocommit[n] # <<>> => Cardinality(Active(proposers[n])) = Window

\* The values a majority of acceptors accepted in one ballot of slot s
Voters(s, b, v) ==
  {n \in Node : [node |-> n, slot |-> s, ballot |-> b, value |-> v] \in votes}
ChosenAt(s, b, v) == Cardinality(Voters(s, b, v)) >= QSize
ChosenIn(s) == {w.value : w \in {x \in votes :
                  x.slot = s /\ ChosenAt(s, x.ballot, x.value)}}

\* Agreement: in no slot do two values get chosen (proposer.hpp:48, "if a
\* majority of yes, the value is successfully chosen").
Agreement == \A s \in Slot : Cardinality(ChosenIn(s)) <= 1

\* Phase I protects a decision: once v is chosen at ballot b, whatever is
\* proposed at b or above is v, or the value of somebody who went straight to
\* Phase II above b (proposer.cpp:79-125, acceptor.cpp:27-101).
PhaseOneKeepsChosen == \A x \in proposals, w \in votes :
  /\ x.slot = w.slot /\ w.ballot <= x.ballot
  /\ ChosenAt(w.slot, w.ballot, w.value)
  => \/ x.value = w.value
     \/ \E y \in proposals :
          /\ y.slot = x.slot /\ y.direct /\ y.value = x.value
          /\ w.ballot < y.ballot /\ y.ballot <= x.ballot

\* What any captain holds as chosen, learned from a piggybacked decision,
\* from the log or as a proposer, a majority did accept.
LearnedIsChosen == \A n \in Node, s \in Slot :
  chosen[n][s] # NULL => chosen[n][s] \in ChosenIn(s)

\* No write is chosen in two slots, where its callback would run twice.
ChosenOnce == \A s, t \in Slot : \A v \in ChosenIn(s), w \in ChosenIn(t) :
  v.data = w.data => s = t

\* A decision is announced only to acceptors that hold the value: none is
\* left with a hole that nothing fills (captain.cpp:373).
PiggybackResolvable == \A m \in net :
  m.type = "ACCEPT" /\ m.lastSlot # 0 =>
    acceptors[m.to][m.lastSlot].maxValue.id = m.lastValue

\* No decision is announced to an acceptor that knows it: the handler of such
\* an ACCEPT would return without the answer, and the slot of its sender would
\* stay open for ever (captain.cpp:366).  Where the quorum cannot change.
AnnouncedOnce == \A m \in net : m.type = "ACCEPT" => ~KnowsLast(m)

\* With one writing node Phase I is never run at all: no acceptor ever
\* refuses, whatever is lost or comes late.
NoPhaseOne == \A m \in net :
  /\ m.type \notin {"PREPARE", "PROMISE"}
  /\ m.type = "ACCEPTED" => m.reply = "yes"


\* The captains as one replicated log.
Decided == [s \in Slot |-> IF ChosenIn(s) = {} THEN NULL
                           ELSE CHOOSE v \in ChosenIn(s) : TRUE]

Log == INSTANCE DecisionLog WITH None <- NULL, decided <- Decided,
                                 copy <- chosen, replied <- informed

\* With one writing node the captains implement the log: one decision per
\* slot, learned only after it is taken, no write decided twice, and clients
\* told only of decisions.
ImplementsLog == Log!LogSpec

\* A write that reached the master is answered.
WriteAnswered == \A r \in Request :
  (r \notin unsent) ~> (\E i \in informed : i.client = r)

\* What a quorum node learned reaches the nodes outside the quorum.
LogConsumed == \A q \in LogServer, n \in InitNonQuorum, s \in Slot :
  (chosen[q][s] # NULL) ~> (chosen[n][s] # NULL)

-----------------------------------------------------------------------------
(* What comments and messages of the code say, and the code does not do *)

\* captain.cpp:150: "blocking style receive reply or timeout now no body call
\* setFilter or run()"
ForwardReturns == \A n \in Node :
  (loop[n] = "wait_commit") ~> (loop[n] = "running")

\* captain.cpp:444: "inform client %s chosen!", when the own value is chosen
OwnChoiceReported == [][\A n \in Node, s \in Slot :
  LET p == proposers[n][s]
  IN  /\ p.status = "PHASEII" /\ p.value = p.init
      /\ proposers'[n][s].status = "EMPTY"
      => [client |-> p.init.data, slot |-> s] \in informed']_vars
=============================================================================
