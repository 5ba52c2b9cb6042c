-------------------------------- MODULE Commo --------------------------------
(***************************************************************************)
(* What Commo adds to the exchange of messages (commo.cpp): a Nack for an  *)
(* Interest whose receiver is gone, and the consumption of the log of      *)
(* decisions by the nodes outside the quorum.  onTimeout and onTimeoutLog  *)
(* are empty: nothing is ever sent again.                                  *)
(***************************************************************************)
EXTENDS Captain

CONSTANT LogWindow      \* Log_Win_Size of the daemon

ASSUME CommoAssumption == LogWindow \in Nat

VARIABLES
  quorumMutHeld,  \* quorum_mut_ is left locked
  logCounter,     \* log_counter_
  logPending      \* slots of log Interests not answered yet

commoVars == <<quorumMutHeld, logCounter, logPending>>
captainVars == <<nodeVars, paxosVars, chosen, loop, net, unsent, informed>>

\* consume_log(win_size), at the start of a node outside the quorum
CommoInit ==
  /\ quorumMutHeld = [n \in Node |-> FALSE]
  /\ logCounter = [n \in Node |-> IF n \in InitQuorum THEN 0 ELSE LogWindow]
  /\ logPending = [n \in Node |-> 1 .. logCounter[n]]

\* The nodes that register the log prefix at start
LogServer == InitQuorum \ {LeaseMaster}

\* The server whose host a spare node's host routes the log prefix to
LogRoute(n) == N - n

\* onNack reads the id of the silent node off the last character of its name
\* (node0, node1, ...): the id itself up to node9, 0 for node10.
LastDigit(n) == n % 10

\* Mutant: the lock is kept where there are spare nodes, too.
Nack_NeverUnlocks(m) ==
  LET n   == m.from
      q   == First(view[n].nquorums)
      old == LastDigit(m.to)
  IN  /\ Recover
      /\ m \in net
      /\ m.type \in Interest
      /\ loop[m.to] = "killed"
      /\ loop[n] = "running"
      /\ old < 2
      /\ \/ /\ quorumMutHeld[n]
            /\ loop' = [loop EXCEPT ![n] = "wait_quorum_mut"]
            /\ net' = net \ {m}
            /\ UNCHANGED <<view, quorumMutHeld>>
         \/ /\ ~quorumMutHeld[n]
            /\ quorumMutHeld' = [quorumMutHeld EXCEPT ![n] = TRUE]
            /\ IF view[n].nquorums = {}
                 THEN net' = net \ {m} /\ UNCHANGED view
                 ELSE /\ view' = [view EXCEPT ![n] = SwapMember(@, old)]
                      /\ net' = (net \ {m}) \cup
                                 {SetQuorumTo(n, q), [m EXCEPT !.to = q]}
            /\ UNCHANGED loop
      /\ UNCHANGED <<maxSlot, lastSlot, valueId, tocommit, paxosVars, chosen,
                     unsent, informed, logCounter, logPending>>

\* onNack, MODE_TYPE 1: put the first node outside the quorum in the place
\* of the silent one, tell it, and send it the same message.  The branch for
\* an empty n_quorums_ forgets to unlock; the next Nack then waits for ever.
Nack(m) ==
  LET n   == m.from
      q   == First(view[n].nquorums)
      old == LastDigit(m.to)
  IN  /\ Recover
      /\ m \in net
      /\ m.type \in Interest
      /\ loop[m.to] = "killed"
      /\ loop[n] = "running"
      /\ old < 2
      /\ \/ /\ quorumMutHeld[n]
            /\ loop' = [loop EXCEPT ![n] = "wait_quorum_mut"]
            /\ net' = net \ {m}
            /\ UNCHANGED <<view, quorumMutHeld>>
         \/ /\ ~quorumMutHeld[n]
            /\ view[n].nquorums = {}
            /\ quorumMutHeld' = [quorumMutHeld EXCEPT ![n] = TRUE]
            /\ net' = net \ {m}
            /\ UNCHANGED <<view, loop>>
         \/ /\ ~quorumMutHeld[n]
            /\ view[n].nquorums # {}
            /\ view' = [view EXCEPT ![n] = SwapMember(@, old)]
            /\ net' = (net \ {m}) \cup {SetQuorumTo(n, q), [m EXCEPT !.to = q]}
            /\ UNCHANGED <<loop, quorumMutHeld>>
      /\ UNCHANGED <<maxSlot, lastSlot, valueId, tocommit, paxosVars, chosen,
                     unsent, informed, logCounter, logPending>>

\* Mutant: the next slot is not asked for.
OnDataLog_NoNext(n, s, q) ==
  /\ loop[n] = "running"
  /\ s \in logPending[n]
  /\ q \in LogServer
  /\ s \in Slot
  /\ chosen[q][s] # NULL
  /\ chosen' = [chosen EXCEPT ![n] = AddChosen(@, s, chosen[q][s])]
  /\ logPending' = [logPending EXCEPT ![n] = @ \ {s}]
  /\ UNCHANGED <<nodeVars, paxosVars, loop, net, unsent, informed,
                 quorumMutHeld, logCounter>>

\* onDataLog: the Data produced for slot s by log server q, and, as long as n
\* is outside the quorum, the Interest for one more slot.  Daemons on hosts of
\* their own reach the server LogRoute(n) (view.cpp:66-70); on one host
\* (addresses "localhost", view.cpp:71-74) no route is set, the servers
\* register one prefix, and any of them may answer.
OnDataLog(n, s, q) ==
  /\ loop[n] = "running"
  /\ s \in logPending[n]
  /\ q \in LogServer
  /\ s \in Slot
  /\ chosen[q][s] # NULL
  /\ chosen' = [chosen EXCEPT ![n] = AddChosen(@, s, chosen[q][s])]
  /\ IF n \in view[n].quorums
       THEN /\ logPending' = [logPending EXCEPT ![n] = @ \ {s}]
            /\ UNCHANGED logCounter
       ELSE /\ logCounter' = [logCounter EXCEPT ![n] = @ + 1]
            /\ logPending' = [logPending EXCEPT ![n] =
                                (@ \ {s}) \cup {logCounter[n] + 1}]
  /\ UNCHANGED <<nodeVars, paxosVars, loop, net, unsent, informed,
                 quorumMutHeld>>

\* onTimeoutLog: the slot is not asked for again, and nothing in its place
OnTimeoutLog(n, s) ==
  /\ loop[n] = "running"
  /\ s \in logPending[n]
  /\ logPending' = [logPending EXCEPT ![n] = @ \ {s}]
  /\ UNCHANGED <<captainVars, quorumMutHeld, logCounter>>
=============================================================================
