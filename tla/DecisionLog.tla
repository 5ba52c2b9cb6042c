----------------------------- MODULE DecisionLog -----------------------------
(***************************************************************************)
(* What a set of captains promises its clients: a log with one decision    *)
(* per slot, copies of it that lag behind, and replies for decided writes. *)
(* A decision is final, a write is decided in one slot only, a copy holds  *)
(* only what was decided before, and a reply follows the decision it       *)
(* reports.                                                                *)
(***************************************************************************)
CONSTANTS Node, Slot,
          Value,     \* records with a field data, the client write
          None

VARIABLES decided,   \* the decision of each slot, or None
          copy,      \* each node's copy of it
          replied    \* replies: the data of a write, and its slot

logVars == <<decided, copy, replied>>

LogInit ==
  /\ decided = [s \in Slot |-> None]
  /\ copy = [n \in Node |-> [s \in Slot |-> None]]
  /\ replied = {}

Decide(s) ==
  /\ decided[s] = None
  /\ decided'[s] \in Value
  /\ \A t \in Slot : decided[t] # None => decided[t].data # decided'[s].data
  /\ decided' = [decided EXCEPT ![s] = decided'[s]]

Learn(n, s) ==
  /\ decided[s] # None
  /\ copy[n][s] = None
  /\ copy' = [copy EXCEPT ![n][s] = decided[s]]

Reply(s) ==
  /\ decided[s] # None
  /\ replied' = replied \cup {[client |-> decided[s].data, slot |-> s]}

\* One handler may decide one slot, learn another and reply.
LogNext ==
  /\ UNCHANGED decided \/ \E s \in Slot : Decide(s)
  /\ UNCHANGED copy    \/ \E n \in Node, s \in Slot : Learn(n, s)
  /\ UNCHANGED replied \/ \E s \in Slot : Reply(s)

LogSpec == LogInit /\ [][LogNext]_logVars

\* The same with nodes that lose their copy.
Forget(n) ==
  /\ copy' = [copy EXCEPT ![n] = [s \in Slot |-> None]]
  /\ UNCHANGED <<decided, replied>>

ForgetfulSpec ==
  LogInit /\ [][LogNext \/ \E n \in Node : Forget(n)]_logVars
=============================================================================
