-------------------------------- MODULE View --------------------------------
(***************************************************************************)
(* One node's view of the membership (view.cpp, view.hpp): who the master  *)
(* is, and which nodes are in the quorum.  A view is a value here; the     *)
(* captains keep one each, and nothing keeps the views of two captains in  *)
(* step.                                                                   *)
(***************************************************************************)
EXTENDS Integers, FiniteSets

CONSTANTS N,            \* nodes in the config file
          LeaseMaster   \* lease.master_id of the config file

Node == 0 .. N - 1

\* ceil((size + 1) / 2.0): a majority
QSize == (N + 2) \div 2

InitQuorum    == 0 .. QSize - 1
InitNonQuorum == QSize .. N - 1

\* A one-node daemon takes another path through Commo (a thread pool).
ASSUME ViewAssumption ==
  /\ N \in Nat /\ N >= 2
  /\ LeaseMaster \in InitQuorum

ViewType == [master    : Node,
             quorums   : SUBSET Node,
             nquorums  : SUBSET Node]

InitView == [master   |-> LeaseMaster,
             quorums  |-> InitQuorum,
             nquorums |-> InitNonQuorum]

\* *begin() of a std::set<node_id_t>
First(S) == CHOOSE n \in S : \A m \in S : n <= m

\* Mutant: add_quorums is forgotten.
SwapMember_NotAdded(v, old) ==
  [v EXCEPT !.quorums  = @ \ {old},
            !.nquorums = @ \ {First(v.nquorums)}]

\* Replace old, member or not, by the first node outside the quorum.
SwapMember(v, old) ==
  LET new == First(v.nquorums)
  IN  [v EXCEPT !.quorums  = (@ \ {old}) \cup {new},
                !.nquorums = @ \ {new}]

\* A node that is not master takes the lease over (MODE_TYPE 1).
TakeOver(v, self) == [SwapMember(v, v.master) EXCEPT !.master = self]

\* SET_QUORUM at its receiver: the new master is node 1, whoever sent it.
JoinQuorum(v, self) == [master   |-> 1,
                        quorums  |-> v.quorums \cup {self},
                        nquorums |-> v.nquorums \ {self}]
=============================================================================
