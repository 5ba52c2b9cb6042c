------------------------------ MODULE Message ------------------------------
(***************************************************************************)
(* The values and messages of ndnpaxos.proto.  A message travels as an     *)
(* Interest (PREPARE, ACCEPT, COMMAND) or as the Data that answers one     *)
(* (PROMISE, ACCEPTED).  DECIDE, LEARN, TEACH are never sent, and a COMMIT *)
(* is addressed to a name nobody registers.                                *)
(***************************************************************************)
EXTENDS View

CONSTANTS Request,    \* client writes: the Interest's name and its payload
          NoRequest,  \* the empty name, dumName_
          MaxSlot     \* bound: slots that are opened

ASSUME MessageAssumption ==
  /\ NoRequest \notin Request
  /\ MaxSlot \in Nat \ {0}

Slot   == 1 .. MaxSlot
Ballot == Nat

\* 1 << 16: ballots and value ids count in the bits above the node id
Radix == 65536

Value == [id : Nat \ {0}, data : Request]
NULL  == [id |-> 0, data |-> NoRequest]

\* max_ballot_id is always filled in, max_prop_value only when reply is yes
Answer == {"none", "yes", "no"}
Promise == [reply : Answer, maxBallot : Ballot \cup {0},
            maxValue : Value \cup {NULL}]
NoPromise == [reply |-> "none", maxBallot |-> 0, maxValue |-> NULL]

Prepare(n, m, s, b) ==
  [type |-> "PREPARE", from |-> n, to |-> m, slot |-> s, ballot |-> b]

PromiseTo(msg, ack) ==
  [type |-> "PROMISE", from |-> msg.to, to |-> msg.from, slot |-> msg.slot,
   ballot |-> msg.ballot, ack |-> ack]

\* last = 0 stands for an ACCEPT without last_slot and last_value
Accept(n, m, s, b, v, last, lastId) ==
  [type |-> "ACCEPT", from |-> n, to |-> m, slot |-> s, ballot |-> b,
   value |-> v, lastSlot |-> last, lastValue |-> lastId]

AcceptedTo(msg, reply) ==
  [type |-> "ACCEPTED", from |-> msg.to, to |-> msg.from, slot |-> msg.slot,
   ballot |-> msg.ballot, reply |-> reply]

SetQuorumTo(n, m) == [type |-> "COMMAND", from |-> n, to |-> m]

Interest == {"PREPARE", "ACCEPT", "COMMAND"}

Messages ==
       [type : {"PREPARE"}, from : Node, to : Node, slot : Slot,
        ballot : Ballot]
  \cup [type : {"PROMISE"}, from : Node, to : Node, slot : Slot,
        ballot : Ballot, ack : Promise]
  \cup [type : {"ACCEPT"}, from : Node, to : Node, slot : Slot,
        ballot : Ballot, value : Value, lastSlot : 0 .. MaxSlot,
        lastValue : Nat]
  \cup [type : {"ACCEPTED"}, from : Node, to : Node, slot : Slot,
        ballot : Ballot, reply : {"yes", "no"}]
  \cup [type : {"COMMAND"}, from : Node, to : Node]
=============================================================================
