---------------------------- MODULE NaxosProofs ----------------------------
(***************************************************************************)
(* Theorems of the whole system (Naxos), for every number of nodes and     *)
(* slots and every bound: type correctness, and that a captain who takes   *)
(* itself for the master is in its own quorum.  Both follow from one       *)
(* inductive invariant, IInv:                                              *)
(*   TypeOK       the types of all variables                               *)
(*   ViewInv      what a view can look like, at a master and elsewhere     *)
(*   NetInv       who sends Interests, and who gets SET_QUORUM             *)
(*   ProposerInv  only a master proposes, and always a value               *)
(***************************************************************************)
EXTENDS Naxos, TLAPS, FiniteSetTheorems, SequenceTheorems,
        WellFoundedInduction

-----------------------------------------------------------------------------
(* Minimal elements *)

\* A finite set has a minimal element for every irreflexive, transitive
\* relation.  The smallest member of a std::set and the highest promise are
\* such elements.
LEMMA FiniteMinimal ==
  ASSUME NEW S, IsFiniteSet(S), S # {}, NEW R,
         \A x \in S : <<x, x>> \notin R,
         \A x, y, z \in S : <<x, y>> \in R /\ <<y, z>> \in R => <<x, z>> \in R
  PROVE  \E x \in S : \A y \in S : <<y, x>> \notin R
<1>. DEFINE Below(x) == {y \in S : <<y, x>> \in R}
            Belows == {Below(x) : x \in S}
<1>1. Belows \subseteq FiniteSubsetsOf(S)
  BY FS_Subset DEF FiniteSubsetsOf
<1>2. Belows # {}
  <2>1. PICK x \in S : TRUE
    OBVIOUS
  <2>2. Below(x) \in Belows
    OBVIOUS
  <2>. QED  BY <2>2
<1>3. \E b \in Belows : \A c \in Belows :
        ~(<<c, b>> \in StrictSubsetOrdering(S))
  BY ONLY <1>1, <1>2, FS_StrictSubsetOrderingWellFounded, WFMin
<1>4. PICK x \in S : \A y \in S :
        <<Below(y), Below(x)>> \notin StrictSubsetOrdering(S)
  <2>1. PICK b \in Belows : \A c \in Belows :
          ~(<<c, b>> \in StrictSubsetOrdering(S))
    BY <1>3
  <2>2. PICK x \in S : b = Below(x)
    OBVIOUS
  <2>3. \A y \in S : Below(y) \in Belows
    OBVIOUS
  <2>. HIDE DEF Below, Belows
  <2>. QED  BY <2>1, <2>2, <2>3
<1>5. ASSUME NEW y \in S, <<y, x>> \in R
      PROVE  FALSE
  <2>1. Below(y) \subseteq Below(x) /\ Below(y) # Below(x)
    BY <1>5
  <2>2. <<Below(y), Below(x)>> \in StrictSubsetOrdering(S)
    BY <2>1, <1>1 DEF StrictSubsetOrdering, FiniteSubsetsOf
  <2>. QED  BY <2>2, <1>4
<1>. QED  BY <1>5

\* The config file lists finitely many nodes.
LEMMA NodeFinite == IsFiniteSet(Node)
BY FS_Interval, ViewAssumption DEF Node

\* *begin() of a non-empty set of nodes is a member of it (captain.cpp:135).
LEMMA FirstType ==
  ASSUME NEW S \in SUBSET Node, S # {}
  PROVE  First(S) \in S
<1>. DEFINE R == {xy \in Node \X Node : xy[1] < xy[2]}
<1>0. Node \subseteq Int  BY DEF Node
<1>1. IsFiniteSet(S)
  BY NodeFinite, FS_Subset
<1>2. /\ \A x \in S : <<x, x>> \notin R
      /\ \A x, y, z \in S :
           <<x, y>> \in R /\ <<y, z>> \in R => <<x, z>> \in R
  BY <1>0
<1>3. \A x, y \in S : <<x, y>> \notin R => y <= x
  BY <1>0
<1>. HIDE DEF R
<1>4. PICK n \in S : \A m \in S : <<m, n>> \notin R
  BY <1>1, <1>2, FiniteMinimal
<1>. QED  BY <1>3, <1>4 DEF First

\* Among some nodes with a ballot each there is a first one of those with the
\* highest ballot: the promise Adopt takes over exists (proposer.cpp:100-108).
LEMMA Highest ==
  ASSUME NEW S \in SUBSET Node, S # {}, NEW bal \in [Node -> Nat]
  PROVE  \E m \in S : \A k \in S :
           bal[m] > bal[k] \/ (bal[m] = bal[k] /\ m <= k)
<1>. DEFINE Above(x, y) == bal[x] > bal[y] \/ (bal[x] = bal[y] /\ x < y)
            R == {xy \in Node \X Node : Above(xy[1], xy[2])}
<1>1. \A x, y \in S : <<x, y>> \in R <=> Above(x, y)
  OBVIOUS
<1>0. \A x \in S : x \in Int /\ bal[x] \in Int
  BY DEF Node
<1>2. /\ \A x \in S : ~Above(x, x)
      /\ \A x, y, z \in S : Above(x, y) /\ Above(y, z) => Above(x, z)
      /\ \A x, y \in S : ~Above(x, y) =>
           bal[y] > bal[x] \/ (bal[y] = bal[x] /\ y <= x)
  <2>1. \A x \in S : ~Above(x, x)
    BY <1>0
  <2>2. \A x, y \in S : ~Above(x, y) =>
           bal[y] > bal[x] \/ (bal[y] = bal[x] /\ y <= x)
    BY <1>0
  <2>3. ASSUME NEW x \in S, NEW y \in S, NEW z \in S, Above(x, y), Above(y, z)
        PROVE  Above(x, z)
    BY <1>0, <2>3
  <2>. QED  BY <2>1, <2>2, <2>3
<1>3. IsFiniteSet(S)
  BY NodeFinite, FS_Subset
<1>. HIDE DEF Above, R
<1>4. PICK m \in S : \A k \in S : <<k, m>> \notin R
  BY <1>1, <1>2, <1>3, FiniteMinimal
<1>. QED  BY <1>1, <1>2, <1>4

\* So Best picks one of the promises that are newer (proposer.cpp:100-108).
LEMMA BestType ==
  ASSUME NEW p \in ProposerType, Newer(p) # {}
  PROVE  Best(p) \in Newer(p)
<1>. DEFINE bal == [k \in Node |-> p.promises[k].maxBallot]
<1>1. Newer(p) \subseteq Node
  BY DEF Newer, PromisedYes
<1>2. bal \in [Node -> Nat]
  BY DEF ProposerType, Promise, Ballot
<1>3. \E m \in Newer(p) : \A k \in Newer(p) :
        bal[m] > bal[k] \/ (bal[m] = bal[k] /\ m <= k)
  <2>. HIDE DEF bal
  <2>. QED  BY <1>1, <1>2, Highest
<1>. QED  BY <1>1, <1>3 DEF Best

-----------------------------------------------------------------------------
(* Operators of Acceptor, Proposer, View and Message *)

\* An acceptor's handlers keep its type and answer with typed answers
\* (acceptor.cpp:27-101).
LEMMA AcceptorTypes ==
  ASSUME NEW a \in AcceptorType, NEW b \in Ballot
  PROVE  /\ OnPrepare(a, b) \in AcceptorType
         /\ PromiseOf(a, b) \in Promise
         /\ \A v \in Value : OnAccept(a, b, v) \in AcceptorType
         /\ AcceptedOf(a, b) \in {"yes", "no"}
<1>1. OnPrepare(a, b) \in AcceptorType
  BY DEF OnPrepare, AcceptorType
<1>2. PromiseOf(a, b) \in Promise
  BY DEF AcceptorType, PromiseOf, Promise, Answer
<1>3. ASSUME NEW v \in Value
      PROVE  OnAccept(a, b, v) \in AcceptorType
  BY DEF OnAccept, AcceptorType
<1>. QED  BY <1>1, <1>2, <1>3 DEF AcceptedOf

\* The empty entry of the map proposers_ is typed.
LEMMA NoProposerType == NoProposer \in ProposerType
BY DEF NoProposer, ProposerType, NoPromise, Promise, Answer, Ballot

\* A new proposer is typed and carries its value (proposer.cpp:12-18).
LEMMA NewProposerType ==
  ASSUME NEW v \in Value, NEW c \in Request \cup {NoRequest}
  PROVE  /\ NewProposer(v, c) \in ProposerType
         /\ NewProposer(v, c).init = v
BY NoProposerType DEF NewProposer, ProposerType

\* gen_next_ballot yields a ballot (proposer.cpp:175-187).
LEMMA NextBallotType ==
  ASSUME NEW b \in Ballot, NEW n \in Node
  PROVE  NextBallot(b, n) \in Ballot
BY DEF NextBallot, Ballot, Radix, Node

\* A proposer that skips Phase I is typed, in Phase II, and proposes its own
\* value (captain.cpp:201-203).
LEMMA SkipType ==
  ASSUME NEW p \in ProposerType, NEW n \in Node
  PROVE  /\ Skip(p, n) \in ProposerType
         /\ Skip(p, n).status = "PHASEII"
         /\ Skip(p, n).value = p.init
         /\ Skip(p, n).init = p.init
<1>1. NextBallot(p.ballot, n) \in Ballot
  BY NextBallotType DEF ProposerType
<1>. QED  BY <1>1 DEF Skip, ProposerType

\* A restart keeps the type and the own value (proposer.cpp:28-51).
LEMMA RestartType ==
  ASSUME NEW p \in ProposerType, NEW n \in Node
  PROVE  /\ Restart(p, n) \in ProposerType
         /\ Restart(p, n).init = p.init
<1>1. NextBallot(p.ballot, n) \in Ballot
  BY NextBallotType DEF ProposerType
<1>2. /\ NoProposer.promises \in [Node -> Promise]
      /\ NoProposer.accepteds \in [Node -> Answer]
  BY NoProposerType DEF ProposerType
<1>. QED  BY <1>1, <1>2 DEF Restart, ProposerType

\* Recording an answer keeps the type, the own value, and for ACCEPTED the
\* proposed value (proposer.cpp:79-95, 132-148).
LEMMA AddTypes ==
  ASSUME NEW p \in ProposerType, NEW n \in Node
  PROVE  /\ \A ack \in Promise :
              /\ AddPromise(p, n, ack) \in ProposerType
              /\ AddPromise(p, n, ack).init = p.init
              /\ AddPromise(p, n, ack).status = "PHASEI"
         /\ \A r \in Answer :
              /\ AddAccepted(p, n, r) \in ProposerType
              /\ AddAccepted(p, n, r).init = p.init
              /\ AddAccepted(p, n, r).status = p.status
              /\ AddAccepted(p, n, r).value = p.value
BY DEF AddPromise, AddAccepted, ProposerType

\* Taking over the highest promise keeps the type and the own value
\* (proposer.cpp:100-108).
LEMMA AdoptType ==
  ASSUME NEW p \in ProposerType
  PROVE  /\ Adopt(p) \in ProposerType
         /\ Adopt(p).init = p.init
<1>1. CASE Newer(p) = {}
  BY <1>1 DEF Adopt
<1>2. CASE Newer(p) # {}
  <2>1. Best(p) \in Node
    BY <1>2, BestType DEF Newer, PromisedYes
  <2>2. p.promises[Best(p)] \in Promise
    BY <2>1 DEF ProposerType
  <2>3. /\ p.promises[Best(p)].maxBallot \in Ballot
        /\ p.promises[Best(p)].maxValue \in Value \cup {NULL}
    BY <2>2 DEF Promise, Ballot
  <2>. QED  BY <1>2, <2>3 DEF Adopt, ProposerType
<1>. QED  BY <1>1, <1>2

\* Phase II after Phase I proposes some value (proposer.cpp:110-118).
LEMMA ContinueType ==
  ASSUME NEW p \in ProposerType, p.init \in Value
  PROVE  /\ Continue(p) \in ProposerType
         /\ Continue(p).init = p.init
         /\ Continue(p).status = "PHASEII"
         /\ Continue(p).value \in Value
BY DEF Continue, ProposerType

\* add_chosen_value keeps the type of the chosen values.
LEMMA AddChosenType ==
  ASSUME NEW ch \in [Slot -> Value \cup {NULL}], NEW s \in Slot,
         NEW v \in Value \cup {NULL}
  PROVE  AddChosen(ch, s, v) \in [Slot -> Value \cup {NULL}]
BY DEF AddChosen

\* Every change of a view keeps its type: a Nack's swap, a take-over, and
\* SET_QUORUM at its receiver.
LEMMA ViewTypes ==
  ASSUME NEW v \in ViewType, NEW n \in Node
  PROVE  /\ v.nquorums # {} => /\ SwapMember(v, n) \in ViewType
                               /\ TakeOver(v, n) \in ViewType
         /\ JoinQuorum(v, n) \in ViewType
<1>1. v.nquorums # {} => First(v.nquorums) \in Node
  BY FirstType DEF ViewType
<1>2. 1 \in Node
  BY ViewAssumption DEF Node
<1>. QED  BY <1>1, <1>2 DEF SwapMember, TakeOver, JoinQuorum, ViewType

\* PREPARE and ACCEPT are typed messages.
LEMMA MessageTypes ==
  ASSUME NEW n \in Node, NEW m \in Node, NEW s \in Slot, NEW b \in Ballot
  PROVE  /\ Prepare(n, m, s, b) \in Messages
         /\ \A v \in Value, last \in 0 .. MaxSlot, id \in Nat :
              Accept(n, m, s, b, v, last, id) \in Messages
BY DEF Prepare, Accept, Messages

\* SET_QUORUM is a typed message.
LEMMA CommandType ==
  ASSUME NEW n \in Node, NEW m \in Node
  PROVE  SetQuorumTo(n, m) \in Messages
BY DEF SetQuorumTo, Messages

\* A message on its way has the fields of its type, the answers to it are
\* messages, and so is an Interest sent again to another node (commo.cpp:450-454).
LEMMA AnswerTypes ==
  ASSUME NEW m \in Messages
  PROVE  /\ m.type \in Interest \cup {"PROMISE", "ACCEPTED"}
         /\ m.from \in Node /\ m.to \in Node
         /\ m.type = "PREPARE" =>
              /\ m.slot \in Slot /\ m.ballot \in Ballot
              /\ \A ack \in Promise : PromiseTo(m, ack) \in Messages
         /\ m.type = "ACCEPT" =>
              /\ m.slot \in Slot /\ m.ballot \in Ballot /\ m.value \in Value
              /\ m.lastSlot \in 0 .. MaxSlot /\ m.lastValue \in Nat
              /\ \A r \in {"yes", "no"} : AcceptedTo(m, r) \in Messages
         /\ m.type = "PROMISE" =>
              m.slot \in Slot /\ m.ballot \in Ballot /\ m.ack \in Promise
         /\ m.type = "ACCEPTED" =>
              m.slot \in Slot /\ m.ballot \in Ballot /\ m.reply \in {"yes", "no"}
         /\ m.type \in Interest => \A q \in Node :
              /\ [m EXCEPT !.to = q] \in Messages
              /\ [m EXCEPT !.to = q].to = q
              /\ [m EXCEPT !.to = q].from = m.from
              /\ [m EXCEPT !.to = q].type = m.type
<1>1. CASE m \in [type : {"PREPARE"}, from : Node, to : Node, slot : Slot,
                  ballot : Ballot]
  BY <1>1 DEF Messages, PromiseTo, Interest
<1>2. CASE m \in [type : {"PROMISE"}, from : Node, to : Node, slot : Slot,
                  ballot : Ballot, ack : Promise]
  BY <1>2 DEF Interest
<1>3. CASE m \in [type : {"ACCEPT"}, from : Node, to : Node, slot : Slot,
                  ballot : Ballot, value : Value, lastSlot : 0 .. MaxSlot,
                  lastValue : Nat]
  BY <1>3 DEF Messages, AcceptedTo, Interest
<1>4. CASE m \in [type : {"ACCEPTED"}, from : Node, to : Node, slot : Slot,
                  ballot : Ballot, reply : {"yes", "no"}]
  BY <1>4 DEF Interest
<1>5. CASE m \in [type : {"COMMAND"}, from : Node, to : Node]
  BY <1>5 DEF Messages, Interest
<1>. QED  BY <1>1, <1>2, <1>3, <1>4, <1>5 DEF Messages

-----------------------------------------------------------------------------
(* Proposing steps *)

\* Types of the variables a broadcast changes
PaxosTypeOK ==
  /\ acceptors \in [Node -> [Slot -> AcceptorType]]
  /\ proposers \in [Node -> [Slot -> ProposerType]]
  /\ votes \subseteq Vote
  /\ proposals \subseteq Proposal

\* broadcast_msg of an ACCEPT, with the sender's own vote inside it, keeps the
\* types (commo.cpp:121-154).
LEMMA BroadcastAcceptType ==
  ASSUME PaxosTypeOK, NEW n \in Node, NEW s \in Slot,
         NEW p \in ProposerType, p.value \in Value,
         NEW others \in [Slot -> ProposerType], NEW q \in SUBSET Node,
         NEW last \in 0 .. MaxSlot, NEW lastId \in Nat,
         NEW msgs \in SUBSET Messages,
         BroadcastAccept(n, s, p, others, q, last, lastId, msgs)
  PROVE  PaxosTypeOK' /\ net' \subseteq Messages
<1>. DEFINE a == acceptors[n][s]
<1>0. a \in AcceptorType /\ p.ballot \in Ballot
  BY DEF PaxosTypeOK, ProposerType
<1>1. acceptors' \in [Node -> [Slot -> AcceptorType]]
  <2>1. OnAccept(a, p.ballot, p.value) \in AcceptorType
    BY <1>0, AcceptorTypes
  <2>. QED  BY <2>1 DEF BroadcastAccept, PaxosTypeOK
<1>2. proposers' \in [Node -> [Slot -> ProposerType]]
  <2>1. AddAccepted(p, n, AcceptedOf(a, p.ballot)) \in ProposerType
    BY <1>0, AcceptorTypes, AddTypes DEF Answer
  <2>. QED  BY <2>1 DEF BroadcastAccept, PaxosTypeOK
<1>3. votes' \subseteq Vote
  BY <1>0 DEF BroadcastAccept, PaxosTypeOK, VoteOf, Vote
<1>4. proposals' \subseteq Proposal
  <2>. DEFINE x(d) == [node |-> n, slot |-> s, ballot |-> p.ballot,
                       value |-> p.value, direct |-> d]
  <2>1. \A d \in BOOLEAN : x(d) \in Proposal
    BY <1>0 DEF Proposal
  <2>2. (Promised(p) = {}) \in BOOLEAN
    OBVIOUS
  <2>3. proposals' = proposals \cup {x(Promised(p) = {})}
    BY DEF BroadcastAccept
  <2>4. x(Promised(p) = {}) \in Proposal
    BY <2>1, <2>2
  <2>. HIDE DEF x
  <2>. QED  BY <2>3, <2>4 DEF PaxosTypeOK
<1>5. net' \subseteq Messages
  BY <1>0, MessageTypes DEF BroadcastAccept
<1>. QED  BY <1>1, <1>2, <1>3, <1>4, <1>5 DEF PaxosTypeOK

\* The same for a PREPARE.
LEMMA BroadcastPrepareType ==
  ASSUME PaxosTypeOK, NEW n \in Node, NEW s \in Slot, NEW p \in ProposerType,
         NEW others \in [Slot -> ProposerType], NEW q \in SUBSET Node,
         NEW msgs \in SUBSET Messages,
         BroadcastPrepare(n, s, p, others, q, msgs)
  PROVE  PaxosTypeOK' /\ net' \subseteq Messages
<1>. DEFINE a == acceptors[n][s]
<1>0. a \in AcceptorType /\ p.ballot \in Ballot
  BY DEF PaxosTypeOK, ProposerType
<1>1. acceptors' \in [Node -> [Slot -> AcceptorType]]
  <2>1. OnPrepare(a, p.ballot) \in AcceptorType
    BY <1>0, AcceptorTypes
  <2>. QED  BY <2>1 DEF BroadcastPrepare, PaxosTypeOK
<1>2. proposers' \in [Node -> [Slot -> ProposerType]]
  <2>1. AddPromise(p, n, PromiseOf(a, p.ballot)) \in ProposerType
    BY <1>0, AcceptorTypes, AddTypes
  <2>. QED  BY <2>1 DEF BroadcastPrepare, PaxosTypeOK
<1>3. net' \subseteq Messages
  BY <1>0, MessageTypes DEF BroadcastPrepare
<1>4. UNCHANGED <<votes, proposals>>
  BY DEF BroadcastPrepare
<1>. QED  BY <1>1, <1>2, <1>3, <1>4 DEF PaxosTypeOK

\* A proposing step of captain n: it changes only its own proposers, each of
\* which has a value, and adds to msgs only Interests in its own name, none of
\* them to itself.
Proposes(n, msgs) ==
  /\ PaxosTypeOK'
  /\ net' \subseteq Messages
  /\ \A k \in Node \ {n} : proposers'[k] = proposers[k]
  /\ \A t \in Slot : proposers'[n][t].status # "EMPTY" =>
                       proposers'[n][t].init \in Value
  /\ \A m \in net' \ msgs : /\ m.type \in {"PREPARE", "ACCEPT"}
                            /\ m.from = n
                            /\ m.to # n

\* HasInit: every proposer has a value to propose.
HasInit(ps) == \A t \in Slot : ps[t].status # "EMPTY" => ps[t].init \in Value

\* A captain that broadcasts an ACCEPT takes a proposing step.
LEMMA ProposesAccept ==
  ASSUME PaxosTypeOK, NEW n \in Node, NEW s \in Slot,
         NEW p \in ProposerType, p.value \in Value, p.init \in Value,
         NEW others \in [Slot -> ProposerType], HasInit(others),
         NEW q \in SUBSET Node,
         NEW last \in 0 .. MaxSlot, NEW lastId \in Nat,
         NEW msgs \in SUBSET Messages,
         BroadcastAccept(n, s, p, others, q, last, lastId, msgs)
  PROVE  Proposes(n, msgs)
<1>1. PaxosTypeOK' /\ net' \subseteq Messages
  BY BroadcastAcceptType
<1>2. PICK x \in Answer : proposers' = [proposers EXCEPT ![n] =
        [others EXCEPT ![s] = AddAccepted(p, n, x)]]
  <2>1. AcceptedOf(acceptors[n][s], p.ballot) \in Answer
    BY DEF AcceptedOf, Answer
  <2>. QED  BY <2>1 DEF BroadcastAccept
<1>3. AddAccepted(p, n, x).init \in Value
  BY AddTypes
<1>4. \A t \in Slot : proposers'[n][t].status # "EMPTY" =>
                       proposers'[n][t].init \in Value
  BY <1>2, <1>3 DEF HasInit, PaxosTypeOK
<1>5. \A k \in Node \ {n} : proposers'[k] = proposers[k]
  BY <1>2 DEF PaxosTypeOK
<1>6. \A m \in net' \ msgs : /\ m.type \in {"PREPARE", "ACCEPT"}
                             /\ m.from = n /\ m.to # n
  BY DEF BroadcastAccept, Accept
<1>. QED  BY <1>1, <1>4, <1>5, <1>6 DEF Proposes

\* A captain that broadcasts a PREPARE takes a proposing step.
LEMMA ProposesPrepare ==
  ASSUME PaxosTypeOK, NEW n \in Node, NEW s \in Slot,
         NEW p \in ProposerType, p.init \in Value,
         NEW others \in [Slot -> ProposerType], HasInit(others),
         NEW q \in SUBSET Node, NEW msgs \in SUBSET Messages,
         BroadcastPrepare(n, s, p, others, q, msgs)
  PROVE  Proposes(n, msgs)
<1>1. PaxosTypeOK' /\ net' \subseteq Messages
  BY BroadcastPrepareType
<1>2. PICK x \in Promise : proposers' = [proposers EXCEPT ![n] =
        [others EXCEPT ![s] = AddPromise(p, n, x)]]
  <2>1. PromiseOf(acceptors[n][s], p.ballot) \in Promise
    BY AcceptorTypes DEF PaxosTypeOK, ProposerType
  <2>. QED  BY <2>1 DEF BroadcastPrepare
<1>3. AddPromise(p, n, x).init \in Value
  BY AddTypes
<1>4. \A t \in Slot : proposers'[n][t].status # "EMPTY" =>
                       proposers'[n][t].init \in Value
  BY <1>2, <1>3 DEF HasInit, PaxosTypeOK
<1>5. \A k \in Node \ {n} : proposers'[k] = proposers[k]
  BY <1>2 DEF PaxosTypeOK
<1>6. \A m \in net' \ msgs : /\ m.type \in {"PREPARE", "ACCEPT"}
                             /\ m.from = n /\ m.to # n
  BY DEF BroadcastPrepare, Prepare
<1>. QED  BY <1>1, <1>4, <1>5, <1>6 DEF Proposes

\* So does one that opens a new slot (captain.cpp:196-219).
LEMMA ProposesOpen ==
  ASSUME PaxosTypeOK,
         maxSlot \in [Node -> 0 .. MaxSlot], lastSlot \in [Node -> 0 .. MaxSlot],
         NEW n \in Node, NEW e \in Entry,
         NEW ch \in [Slot -> Value \cup {NULL}],
         NEW others \in [Slot -> ProposerType], HasInit(others),
         NEW q \in SUBSET Node, NEW msgs \in SUBSET Messages,
         OpenSlot(n, e, ch, others, q, msgs)
  PROVE  /\ Proposes(n, msgs)
         /\ maxSlot' \in [Node -> 0 .. MaxSlot]
         /\ lastSlot' \in [Node -> 0 .. MaxSlot]
<1>. DEFINE s    == maxSlot[n] + 1
            next == lastSlot[n] + 1
            p    == Skip(NewProposer(e.value, e.client), n)
<1>1. s \in Slot /\ maxSlot' = [maxSlot EXCEPT ![n] = s]
  BY DEF OpenSlot
<1>2. p \in ProposerType /\ p.value \in Value /\ p.init \in Value
  <2>1. e.value \in Value /\ e.client \in Request \cup {NoRequest}
    BY DEF Entry
  <2>2. /\ NewProposer(e.value, e.client) \in ProposerType
        /\ NewProposer(e.value, e.client).init = e.value
    BY <2>1, NewProposerType
  <2>. QED  BY <2>1, <2>2, SkipType
<1>3. Slot \subseteq 0 .. MaxSlot /\ 0 \in 0 .. MaxSlot
  BY MessageAssumption DEF Slot
<1>. HIDE DEF p
<1>4. CASE next \in Slot /\ ch[next] # NULL
  <2>1. ch[next].id \in Nat
    BY <1>4 DEF Value
  <2>2. /\ lastSlot' = [lastSlot EXCEPT ![n] = next]
        /\ BroadcastAccept(n, s, p, others, q, next, ch[next].id, msgs)
    BY <1>4 DEF OpenSlot, p
  <2>3. Proposes(n, msgs)
    BY <1>1, <1>2, <1>3, <1>4, <2>1, <2>2, ProposesAccept
  <2>. QED  BY <1>1, <1>3, <1>4, <2>2, <2>3
<1>5. CASE ~(next \in Slot /\ ch[next] # NULL)
  <2>2. /\ UNCHANGED lastSlot
        /\ BroadcastAccept(n, s, p, others, q, 0, 0, msgs)
    BY <1>5 DEF OpenSlot, p
  <2>3. Proposes(n, msgs)
    BY <1>1, <1>2, <1>3, <2>2, ProposesAccept
  <2>. QED  BY <1>1, <1>3, <2>2, <2>3
<1>. QED  BY <1>4, <1>5

\* The first and the other entries of tocommit_values_ are entries.
LEMMA QueueTypes ==
  ASSUME NEW queue \in Seq(Entry), NEW e \in Entry
  PROVE  /\ Append(queue, e) \in Seq(Entry)
         /\ Tail(Append(queue, e)) \in Seq(Entry)
         /\ Head(Append(queue, e)) \in Entry
         /\ queue # <<>> => Tail(queue) \in Seq(Entry) /\ Head(queue) \in Entry
<1>1. Append(queue, e) \in Seq(Entry) /\ Append(queue, e) # <<>>
  BY AppendProperties
<1>. QED  BY <1>1, HeadTailProperties

\* And so does commit, whether the value waits or not (captain.cpp:162-221).
LEMMA ProposesAdmit ==
  ASSUME PaxosTypeOK,
         maxSlot \in [Node -> 0 .. MaxSlot], lastSlot \in [Node -> 0 .. MaxSlot],
         chosen \in [Node -> [Slot -> Value \cup {NULL}]],
         tocommit \in [Node -> Seq(Entry)],
         NEW n \in Node, NEW e \in Entry, HasInit(proposers[n]),
         NEW q \in SUBSET Node, NEW msgs \in SUBSET Messages,
         Admit(n, e, q, msgs)
  PROVE  /\ Proposes(n, msgs)
         /\ maxSlot' \in [Node -> 0 .. MaxSlot]
         /\ lastSlot' \in [Node -> 0 .. MaxSlot]
         /\ tocommit' \in [Node -> Seq(Entry)]
<1>. DEFINE queue == Append(tocommit[n], e)
<1>1. /\ queue \in Seq(Entry)
      /\ Tail(queue) \in Seq(Entry)
      /\ Head(queue) \in Entry
  BY QueueTypes
<1>. HIDE DEF queue
<1>2. CASE /\ tocommit' = [tocommit EXCEPT ![n] = queue]
           /\ net' = msgs
           /\ UNCHANGED <<paxosVars, maxSlot, lastSlot>>
  BY <1>1, <1>2 DEF Proposes, PaxosTypeOK, HasInit, paxosVars
<1>3. CASE /\ tocommit' = [tocommit EXCEPT ![n] = Tail(queue)]
           /\ OpenSlot(n, Head(queue), chosen[n], proposers[n], q, msgs)
  <2>1. /\ chosen[n] \in [Slot -> Value \cup {NULL}]
        /\ proposers[n] \in [Slot -> ProposerType]
    BY DEF PaxosTypeOK
  <2>2. /\ Proposes(n, msgs)
        /\ maxSlot' \in [Node -> 0 .. MaxSlot]
        /\ lastSlot' \in [Node -> 0 .. MaxSlot]
    BY <1>1, <1>3, <2>1, ProposesOpen
  <2>. QED  BY <1>1, <1>3, <2>2
<1>. QED  BY <1>2, <1>3 DEF Admit, queue

-----------------------------------------------------------------------------
(* The inductive invariant *)

\* A view: spare nodes are outside the quorum and none of them is of the
\* initial one; a master is of the initial quorum and in its own; the others
\* of the initial quorum never change their views.
ViewOK(n) ==
  /\ view[n].quorums \cap view[n].nquorums = {}
  /\ view[n].nquorums \cap InitQuorum = {}
  /\ view[n].master = n => n \in InitQuorum /\ n \in view[n].quorums
  /\ n \in InitQuorum /\ view[n].master # n => view[n] = InitView
  /\ Cardinality(view[n].quorums) >= QSize
ViewInv == \A n \in Node : ViewOK(n)

\* An Interest comes from a master and goes to another node, SET_QUORUM to a
\* spare one.
NetOK(m) == m.type \in Interest =>
  /\ m.from # m.to
  /\ view[m.from].master = m.from
  /\ m.type = "COMMAND" => m.to \notin InitQuorum
NetInv == \A m \in net : NetOK(m)

\* Only masters propose.
ProposerInv == \A n \in Node :
  /\ HasInit(proposers[n])
  /\ \A s \in Slot : proposers[n][s].status # "EMPTY" => view[n].master = n

\* The inductive invariant
IInv == TypeOK /\ ViewInv /\ NetInv /\ ProposerInv

\* The initial quorum is a majority and holds nodes 0 and 1; with three nodes
\* or more a spare node is left (view.cpp:41-87).
LEMMA QuorumSizes ==
  /\ QSize \in Nat /\ 2 <= QSize /\ QSize <= N
  /\ N >= 3 => QSize < N
  /\ InitQuorum \subseteq Node /\ InitNonQuorum \subseteq Node
  /\ InitQuorum \cap InitNonQuorum = {}
  /\ 0 \in InitQuorum /\ 1 \in InitQuorum
  /\ Cardinality(InitQuorum) = QSize
<1>1. QSize \in Nat /\ 2 <= QSize /\ QSize <= N /\ (N >= 3 => QSize < N)
  BY ViewAssumption DEF QSize
<1>2. Cardinality(InitQuorum) = QSize
  BY <1>1, FS_Interval DEF InitQuorum
<1>. QED  BY <1>1, <1>2, ViewAssumption DEF InitQuorum, InitNonQuorum, Node

\* The inductive invariant holds when the daemons start.
THEOREM InitIInv == Init => IInv
<1>. SUFFICES ASSUME Init  PROVE  IInv
  OBVIOUS
<1>. USE DEF Init, CaptainInit, CommoInit
<1>1. InitView \in ViewType
  BY QuorumSizes, ViewAssumption DEF InitView, ViewType
<1>2. \A b \in Ballot : NewAcceptor(b) \in AcceptorType
  BY DEF NewAcceptor, AcceptorType, Ballot
<1>3. LeaseBallot \in Ballot /\ 0 \in Ballot
  BY ViewAssumption DEF LeaseBallot, Ballot, Radix, InitQuorum
<1>4. acceptors \in [Node -> [Slot -> AcceptorType]]
  BY <1>2, <1>3
<1>5. proposers \in [Node -> [Slot -> ProposerType]]
  BY NoProposerType
<1>6. TypeOK
  <2>1. <<>> \in Seq(Entry)
    OBVIOUS
  <2>2. /\ maxSlot \in [Node -> 0 .. MaxSlot]
        /\ lastSlot \in [Node -> 0 .. MaxSlot]
        /\ valueId \in [Node -> Nat]
    BY MessageAssumption DEF Node
  <2>3. /\ quorumMutHeld \in [Node -> BOOLEAN]
        /\ logCounter \in [Node -> Nat]
        /\ logPending \in [Node -> SUBSET Nat]
    <3>1. logCounter \in [Node -> Nat]
      BY CommoAssumption
    <3>2. \A n \in Node : 1 .. logCounter[n] \subseteq Nat
      BY <3>1
    <3>. QED  BY <3>1, <3>2
  <2>4. /\ tocommit \in [Node -> Seq(Entry)]
        /\ chosen \in [Node -> [Slot -> Value \cup {NULL}]]
        /\ loop \in [Node -> {"running", "wait_commit", "wait_quorum_mut",
                              "killed"}]
        /\ view \in [Node -> ViewType]
    BY <1>1, <2>1
  <2>5. /\ net \subseteq Messages
        /\ unsent \subseteq Request
        /\ informed \subseteq [client : Request \cup {NoRequest}, slot : Slot]
        /\ votes \subseteq Vote
        /\ proposals \subseteq Proposal
    OBVIOUS
  <2>. QED  BY <1>4, <1>5, <2>2, <2>3, <2>4, <2>5 DEF TypeOK
<1>7. ViewInv
  BY QuorumSizes, ViewAssumption DEF ViewInv, ViewOK, InitView
<1>8. NetInv /\ ProposerInv
  BY DEF NetInv, ProposerInv, HasInit, NoProposer
<1>. QED  BY <1>6, <1>7, <1>8 DEF IInv

\* A proposing step of a master keeps NetInv and ProposerInv, whatever it did
\* to the views in the same step, as long as masters stay masters.
LEMMA ProposingKeeps ==
  ASSUME IInv, ViewInv',
         \A k \in Node : view[k].master = k => view'[k].master = k,
         NEW n \in Node, view'[n].master = n,
         NEW msgs \in SUBSET Messages, \A m \in msgs : NetOK(m)',
         Proposes(n, msgs)
  PROVE  NetInv' /\ ProposerInv'
<1>1. ASSUME NEW m \in net'  PROVE NetOK(m)'
  BY <1>1 DEF Proposes, NetOK, Interest
<1>2. ProposerInv'
  BY DEF Proposes, ProposerInv, HasInit, IInv
<1>. QED  BY <1>1, <1>2 DEF NetInv

\* Type correctness includes that of the Paxos variables.
LEMMA PaxosTyped == TypeOK => PaxosTypeOK
BY DEF TypeOK, PaxosTypeOK

\* A client write becomes a typed entry of a node in the quorum
\* (captain.cpp:115-124).
LEMMA ReceiveTypes ==
  ASSUME TypeOK, NEW n \in WriteNode, NEW r \in Request, Receive(n, r)
  PROVE  /\ n \in InitQuorum /\ n \in Node
         /\ EntryFor(n, r) \in Entry
         /\ valueId' \in [Node -> Nat]
         /\ unsent' \subseteq Request
         /\ UNCHANGED <<chosen, informed>>
<1>1. n \in InitQuorum /\ n \in Node
  BY CaptainAssumption, QuorumSizes
<1>2. valueId[n] + Radix \in Nat \ {0}
  BY <1>1 DEF TypeOK, Radix
<1>3. EntryFor(n, r) \in Entry
  BY <1>2 DEF EntryFor, Entry, Value
<1>. QED  BY <1>1, <1>2, <1>3 DEF Receive, TypeOK

-----------------------------------------------------------------------------
(* Client writes *)

\* A write at the master keeps the invariant.
LEMMA CommitKeeps ==
  ASSUME IInv, NEW n \in WriteNode, NEW r \in Request, Commit(n, r),
         UNCHANGED commoVars
  PROVE  IInv'
<1>. USE DEF IInv
<1>1. /\ n \in InitQuorum /\ n \in Node /\ EntryFor(n, r) \in Entry
      /\ valueId' \in [Node -> Nat] /\ unsent' \subseteq Request
      /\ UNCHANGED <<chosen, informed>>
  BY ReceiveTypes DEF Commit
<1>2. view[n].quorums \in SUBSET Node /\ net \in SUBSET Messages
  BY <1>1 DEF TypeOK, ViewType
<1>3. HasInit(proposers[n])
  BY <1>1 DEF ProposerInv
<1>4. /\ Proposes(n, net)
      /\ maxSlot' \in [Node -> 0 .. MaxSlot]
      /\ lastSlot' \in [Node -> 0 .. MaxSlot]
      /\ tocommit' \in [Node -> Seq(Entry)]
  BY <1>1, <1>2, <1>3, PaxosTyped, ProposesAdmit DEF Commit, TypeOK
<1>5. TypeOK'
  BY <1>1, <1>4 DEF TypeOK, Commit, Proposes, PaxosTypeOK, commoVars
<1>6. ViewInv' /\ \A m \in net : NetOK(m)'
  BY DEF Commit, ViewInv, ViewOK, NetInv, NetOK
<1>7. NetInv' /\ ProposerInv'
  BY <1>1, <1>2, <1>4, <1>6, ProposingKeeps DEF Commit
<1>. QED  BY <1>5, <1>6, <1>7

\* Replacing a node by a spare one leaves both sets disjoint, the initial
\* quorum outside the spares, and the quorum no smaller: the node that goes
\* may have gone before, but the spare is always new (commo.cpp:437-444).
LEMMA SwapKeepsView ==
  ASSUME NEW v \in ViewType, v.nquorums # {}, v.quorums \cap v.nquorums = {},
         v.nquorums \cap InitQuorum = {},
         Cardinality(v.quorums) >= QSize, NEW old \in Node
  PROVE  /\ SwapMember(v, old).quorums \cap SwapMember(v, old).nquorums = {}
         /\ SwapMember(v, old).nquorums \cap InitQuorum = {}
         /\ Cardinality(SwapMember(v, old).quorums) >= QSize
         /\ SwapMember(v, old).master = v.master
         /\ v.quorums \ {old} \subseteq SwapMember(v, old).quorums
<1>. DEFINE new == First(v.nquorums)
<1>1. new \in v.nquorums /\ new \in Node
  BY FirstType DEF ViewType
<1>2. SwapMember(v, old) = [v EXCEPT !.quorums  = (v.quorums \ {old}) \cup {new},
                                     !.nquorums = v.nquorums \ {new}]
  BY DEF SwapMember
<1>. HIDE DEF new
<1>3. /\ SwapMember(v, old).quorums = (v.quorums \ {old}) \cup {new}
      /\ SwapMember(v, old).nquorums = v.nquorums \ {new}
      /\ SwapMember(v, old).master = v.master
  BY <1>2 DEF ViewType
<1>4. Cardinality((v.quorums \ {old}) \cup {new}) >= QSize
  <2>1. IsFiniteSet(v.quorums) /\ Cardinality(v.quorums) \in Nat
    BY NodeFinite, FS_Subset, FS_CardinalityType DEF ViewType
  <2>2. /\ IsFiniteSet(v.quorums \ {old})
        /\ Cardinality(v.quorums \ {old}) =
             IF old \in v.quorums THEN Cardinality(v.quorums) - 1
                                  ELSE Cardinality(v.quorums)
    BY <2>1, FS_RemoveElement
  <2>3. Cardinality(v.quorums \ {old}) \in Nat
    BY <2>2, FS_CardinalityType
  <2>4. new \notin v.quorums \ {old}
    BY <1>1
  <2>5. Cardinality((v.quorums \ {old}) \cup {new}) =
          Cardinality(v.quorums \ {old}) + 1
    BY <2>2, <2>4, FS_AddElement
  <2>. QED  BY <2>1, <2>2, <2>3, <2>5, QuorumSizes
<1>. QED  BY <1>1, <1>3, <1>4

\* A take-over keeps the invariant: a node takes over only from its initial
\* view, so there is a spare node, and it is itself in the new quorum.
LEMMA TakingOverKeeps ==
  ASSUME IInv, NEW n \in WriteNode, NEW r \in Request, CommitTakingOver(n, r),
         UNCHANGED commoVars
  PROVE  IInv'
<1>. USE DEF IInv
<1>. DEFINE v    == view[n]
            w    == TakeOver(v, n)
            q    == First(v.nquorums)
            msgs == net \cup {SetQuorumTo(n, q)}
<1>1. /\ n \in InitQuorum /\ n \in Node /\ EntryFor(n, r) \in Entry
      /\ valueId' \in [Node -> Nat] /\ unsent' \subseteq Request
      /\ UNCHANGED <<chosen, informed>>
  BY ReceiveTypes DEF CommitTakingOver
<1>2. v = InitView /\ v \in ViewType /\ v.master # n /\ n \in v.quorums
  BY <1>1 DEF CommitTakingOver, ViewInv, ViewOK, TypeOK, InitView
<1>3. /\ v.nquorums # {} /\ v.quorums \cap v.nquorums = {}
      /\ v.nquorums \cap InitQuorum = {}
      /\ Cardinality(v.quorums) >= QSize
      /\ v.master \in Node
  <2>1. N >= 3
    BY CaptainAssumption DEF CommitTakingOver
  <2>2. InitNonQuorum # {}
    BY <2>1, QuorumSizes, ViewAssumption DEF InitNonQuorum
  <2>. QED  BY <1>2, <2>2, QuorumSizes DEF InitView, ViewType
<1>4. /\ w \in ViewType
      /\ w.quorums \cap w.nquorums = {} /\ w.nquorums \cap InitQuorum = {}
      /\ Cardinality(w.quorums) >= QSize
      /\ w.master = n /\ n \in w.quorums
  <2>1. SwapMember(v, v.master) \in ViewType /\ w \in ViewType
    BY <1>1, <1>2, <1>3, ViewTypes
  <2>2. /\ w.quorums = SwapMember(v, v.master).quorums
        /\ w.nquorums = SwapMember(v, v.master).nquorums
        /\ w.master = n
    BY <2>1 DEF TakeOver, ViewType
  <2>. QED  BY <1>2, <1>3, <2>1, <2>2, SwapKeepsView
<1>5. q \in Node /\ q \notin InitQuorum
  BY <1>2, <1>3, FirstType DEF ViewType
<1>. HIDE DEF w, q
<1>6. view' = [view EXCEPT ![n] = w]
  BY DEF CommitTakingOver, w
<1>7. msgs \in SUBSET Messages
  BY <1>1, <1>5, CommandType DEF TypeOK
<1>8. /\ Proposes(n, msgs)
      /\ maxSlot' \in [Node -> 0 .. MaxSlot]
      /\ lastSlot' \in [Node -> 0 .. MaxSlot]
      /\ tocommit' \in [Node -> Seq(Entry)]
  <2>1. w.quorums \in SUBSET Node /\ HasInit(proposers[n])
    BY <1>1, <1>4 DEF ViewType, ProposerInv
  <2>2. Admit(n, EntryFor(n, r), w.quorums, msgs)
    BY DEF CommitTakingOver, w, q
  <2>. HIDE DEF msgs
  <2>. QED  BY <1>1, <1>7, <2>1, <2>2, PaxosTyped, ProposesAdmit DEF TypeOK
<1>9. view' \in [Node -> ViewType]
  BY <1>1, <1>4, <1>6 DEF TypeOK
<1>10. TypeOK'
  BY <1>1, <1>8, <1>9 DEF TypeOK, CommitTakingOver, Proposes, PaxosTypeOK,
                          commoVars
<1>11. ViewInv'
  BY <1>1, <1>4, <1>6 DEF ViewInv, ViewOK, TypeOK
<1>12. \A k \in Node : view[k].master = k => view'[k].master = k
  BY <1>1, <1>4, <1>6 DEF TypeOK
<1>13. ASSUME NEW m \in msgs  PROVE  NetOK(m)'
  <2>1. CASE m \in net
    <3>1. m.from \in Node
      BY <2>1, AnswerTypes DEF TypeOK
    <3>. QED  BY <2>1, <3>1, <1>12 DEF NetInv, NetOK
  <2>2. CASE m = SetQuorumTo(n, q)
    BY <2>2, <1>1, <1>4, <1>5, <1>6 DEF NetOK, SetQuorumTo, TypeOK
  <2>. QED  BY <2>1, <2>2
<1>14. view'[n].master = n
  BY <1>1, <1>4, <1>6 DEF TypeOK
<1>15. NetInv' /\ ProposerInv'
  <2>. HIDE DEF msgs
  <2>. QED  BY <1>1, <1>7, <1>8, <1>11, <1>12, <1>13, <1>14, ProposingKeeps
<1>. QED  BY <1>10, <1>11, <1>15

\* Forwarding a write to the master keeps the invariant.
LEMMA ForwardingKeeps ==
  ASSUME IInv, NEW n \in WriteNode, NEW r \in Request, CommitForwarding(n, r),
         UNCHANGED commoVars
  PROVE  IInv'
<1>. USE DEF IInv
<1>1. /\ n \in Node /\ valueId' \in [Node -> Nat] /\ unsent' \subseteq Request
      /\ UNCHANGED <<chosen, informed>>
  BY ReceiveTypes DEF CommitForwarding
<1>2. TypeOK'
  BY <1>1 DEF TypeOK, CommitForwarding, paxosVars, commoVars
<1>3. ViewInv' /\ NetInv' /\ ProposerInv'
  BY DEF CommitForwarding, paxosVars, ViewInv, ViewOK, NetInv, NetOK,
         ProposerInv, HasInit
<1>. QED  BY <1>2, <1>3

-----------------------------------------------------------------------------
(* Messages *)

\* The handlers that leave the view and the proposers' initial values alone
\* and add no Interest
LEMMA AnsweringKeeps ==
  ASSUME IInv, UNCHANGED view,
         \A n \in Node, s \in Slot :
           /\ proposers'[n][s].init = proposers[n][s].init
           /\ proposers'[n][s].status # "EMPTY" =>
                proposers[n][s].status # "EMPTY",
         \A m \in net' \ net : m.type \notin Interest
  PROVE  ViewInv' /\ NetInv' /\ ProposerInv'
<1>1. ViewInv'
  BY DEF IInv, ViewInv, ViewOK
<1>2. NetInv'
  BY DEF IInv, NetInv, NetOK
<1>3. ProposerInv'
  BY DEF IInv, ProposerInv, HasInit
<1>. QED  BY <1>1, <1>2, <1>3

\* The handler of PREPARE keeps the invariant.
LEMMA PrepareKeeps ==
  ASSUME IInv, NEW m \in net, HandlePrepare(m), UNCHANGED commoVars
  PROVE  IInv'
<1>. USE DEF IInv
<1>. DEFINE a   == acceptors[m.to][m.slot]
            ack == PromiseOf(a, m.ballot)
<1>1. /\ m \in Messages /\ m.to \in Node
      /\ m.slot \in Slot /\ m.ballot \in Ballot
      /\ \A x \in Promise : PromiseTo(m, x) \in Messages
  BY AnswerTypes DEF TypeOK, HandlePrepare, Arrives
<1>2. OnPrepare(a, m.ballot) \in AcceptorType /\ ack \in Promise
  BY <1>1, AcceptorTypes DEF TypeOK
<1>. HIDE DEF ack
<1>3. acceptors' \in [Node -> [Slot -> AcceptorType]]
  BY <1>1, <1>2 DEF TypeOK, HandlePrepare
<1>4. net' = (net \ {m}) \cup {PromiseTo(m, ack)}
  BY DEF HandlePrepare, ack
<1>5. PromiseTo(m, ack) \in Messages
  BY <1>1, <1>2
<1>6. TypeOK'
  BY <1>3, <1>4, <1>5 DEF TypeOK, HandlePrepare, nodeVars, commoVars
<1>7. ViewInv' /\ NetInv' /\ ProposerInv'
  <2>1. PromiseTo(m, ack).type \notin Interest
    BY DEF PromiseTo, Interest
  <2>. QED  BY <1>4, <2>1, AnsweringKeeps DEF HandlePrepare, nodeVars
<1>. QED  BY <1>6, <1>7

\* The handler of ACCEPT keeps the invariant, with each of its three endings.
LEMMA AcceptKeeps ==
  ASSUME IInv, NEW m \in net, HandleAccept(m), UNCHANGED commoVars
  PROVE  IInv'
<1>. USE DEF IInv
<1>. DEFINE a == acceptors[m.to][m.slot]
            x == AcceptedOf(a, m.ballot)
<1>1. /\ m \in Messages /\ m.to \in Node
      /\ m.slot \in Slot /\ m.ballot \in Ballot /\ m.value \in Value
      /\ m.lastSlot \in 0 .. MaxSlot
      /\ \A r \in {"yes", "no"} : AcceptedTo(m, r) \in Messages
  BY AnswerTypes DEF TypeOK, HandleAccept, AcceptAtSlot, Arrives
<1>2. /\ acceptors' \in [Node -> [Slot -> AcceptorType]]
      /\ votes' \subseteq Vote
  <2>1. OnAccept(a, m.ballot, m.value) \in AcceptorType
    BY <1>1, AcceptorTypes DEF TypeOK
  <2>2. VoteOf(m.to, m.slot, m.ballot, m.value) \subseteq Vote
    BY <1>1 DEF VoteOf, Vote
  <2>. QED  BY <1>1, <2>1, <2>2 DEF TypeOK, HandleAccept, AcceptAtSlot
<1>3. x \in {"yes", "no"} /\ AcceptedTo(m, x) \in Messages
  BY <1>1 DEF AcceptedOf
<1>. HIDE DEF x
<1>4. net' \subseteq (net \ {m}) \cup {AcceptedTo(m, x)}
  BY DEF HandleAccept, ReplyAccepted, x
<1>5. chosen' \in [Node -> [Slot -> Value \cup {NULL}]]
  <2>1. CASE UNCHANGED chosen
    BY <2>1 DEF TypeOK
  <2>2. CASE /\ HoldsLast(m)
             /\ chosen' = [chosen EXCEPT ![m.to] = AddChosen(@, m.lastSlot,
                             acceptors'[m.to][m.lastSlot].maxValue)]
    <3>1. m.lastSlot \in Slot
      BY <1>1, <2>2, MessageAssumption DEF HoldsLast, Slot
    <3>2. acceptors'[m.to][m.lastSlot].maxValue \in Value \cup {NULL}
      BY <1>1, <1>2, <3>1 DEF AcceptorType
    <3>3. AddChosen(chosen[m.to], m.lastSlot,
                    acceptors'[m.to][m.lastSlot].maxValue)
            \in [Slot -> Value \cup {NULL}]
      BY <1>1, <3>1, <3>2, AddChosenType DEF TypeOK
    <3>. QED  BY <1>1, <2>2, <3>3 DEF TypeOK
  <2>. QED  BY <2>1, <2>2 DEF HandleAccept
<1>6. TypeOK'
  BY <1>2, <1>3, <1>4, <1>5 DEF TypeOK, HandleAccept, AcceptAtSlot, nodeVars,
                                commoVars
<1>7. ViewInv' /\ NetInv' /\ ProposerInv'
  <2>1. AcceptedTo(m, x).type \notin Interest
    BY DEF AcceptedTo, Interest
  <2>. QED  BY <1>4, <2>1, AnsweringKeeps DEF HandleAccept, AcceptAtSlot,
                                              nodeVars
<1>. QED  BY <1>6, <1>7

\* A promise that comes too late keeps the invariant.
LEMMA IgnorePromiseKeeps ==
  ASSUME IInv, NEW m \in net, IgnorePromise(m), UNCHANGED commoVars
  PROVE  IInv'
<1>. USE DEF IInv
<1>1. m.to \in Node /\ m.slot \in Slot
  BY AnswerTypes DEF TypeOK, IgnorePromise, Arrives
<1>2. proposers' = [proposers EXCEPT ![m.to][m.slot].status =
                      IF @ = "INIT" THEN "PHASEI" ELSE @]
  BY DEF IgnorePromise
<1>. DEFINE p == proposers[m.to][m.slot]
            x == [p EXCEPT !.status = IF @ = "INIT" THEN "PHASEI" ELSE @]
<1>3. /\ proposers' \in [Node -> [Slot -> ProposerType]]
      /\ \A n \in Node, s \in Slot :
           /\ proposers'[n][s].init = proposers[n][s].init
           /\ proposers'[n][s].status # "EMPTY" =>
                proposers[n][s].status # "EMPTY"
  <2>1. p \in ProposerType
    BY <1>1 DEF TypeOK
  <2>2. /\ x \in ProposerType /\ x.init = p.init
        /\ x.status # "EMPTY" => p.status # "EMPTY"
    BY <2>1 DEF ProposerType
  <2>3. proposers' = [proposers EXCEPT ![m.to] = [@ EXCEPT ![m.slot] = x]]
    BY <1>2
  <2>. HIDE DEF x
  <2>. QED  BY <1>1, <2>2, <2>3 DEF TypeOK
<1>4. TypeOK'
  BY <1>3 DEF TypeOK, IgnorePromise, nodeVars, commoVars
<1>5. ViewInv' /\ NetInv' /\ ProposerInv'
  BY <1>3, AnsweringKeeps DEF IgnorePromise, nodeVars
<1>. QED  BY <1>4, <1>5

\* An ACCEPTED that comes too late keeps the invariant.
LEMMA IgnoreAcceptedKeeps ==
  ASSUME IInv, NEW m \in net, IgnoreAccepted(m), UNCHANGED commoVars
  PROVE  IInv'
<1>. USE DEF IInv
<1>1. TypeOK'
  BY DEF TypeOK, IgnoreAccepted, nodeVars, paxosVars, commoVars
<1>2. ViewInv' /\ NetInv' /\ ProposerInv'
  BY AnsweringKeeps DEF IgnoreAccepted, nodeVars, paxosVars
<1>. QED  BY <1>1, <1>2

\* A step of captain n that proposes, in answer to a message, keeps the
\* invariant: what it sends carries n's name, and n is master.
LEMMA ProposingInPlaceKeeps ==
  ASSUME IInv, NEW n \in Node, view[n].master = n, UNCHANGED view,
         NEW msgs \in SUBSET net, Proposes(n, msgs)
  PROVE  ViewInv' /\ NetInv' /\ ProposerInv'
<1>1. ViewInv' /\ msgs \in SUBSET Messages
  BY DEF IInv, ViewInv, ViewOK, TypeOK
<1>2. \A x \in msgs : NetOK(x)'
  BY DEF IInv, NetInv, NetOK
<1>. QED  BY <1>1, <1>2, ProposingKeeps

\* The handler of PROMISE keeps the invariant: wait, continue or restart.
LEMMA PromiseKeeps ==
  ASSUME IInv, NEW m \in net, HandlePromise(m), UNCHANGED commoVars
  PROVE  IInv'
<1>. USE DEF IInv
<1>. DEFINE n  == m.to
            s  == m.slot
            p  == proposers[n][s]
            p2 == AddPromise(p, m.from, m.ack)
<1>1. /\ m \in Messages /\ n \in Node /\ m.from \in Node /\ s \in Slot
      /\ m.ballot \in Ballot /\ m.ack \in Promise
  BY AnswerTypes DEF TypeOK, HandlePromise, Arrives
<1>2. /\ p \in ProposerType /\ p.status # "EMPTY" /\ p.init \in Value
      /\ view[n].master = n
      /\ HasInit(proposers[n]) /\ proposers[n] \in [Slot -> ProposerType]
  BY <1>1 DEF TypeOK, HandlePromise, ProposerInv, HasInit
<1>3. p2 \in ProposerType /\ p2.init = p.init
  BY <1>1, <1>2, AddTypes
<1>4. /\ Adopt(p2) \in ProposerType /\ Adopt(p2).init \in Value
      /\ Continue(Adopt(p2)) \in ProposerType
      /\ Continue(Adopt(p2)).init \in Value
      /\ Continue(Adopt(p2)).value \in Value
      /\ Restart(Adopt(p2), n) \in ProposerType
      /\ Restart(Adopt(p2), n).init \in Value
  <2>1. Adopt(p2) \in ProposerType /\ Adopt(p2).init \in Value
    BY <1>2, <1>3, AdoptType
  <2>. QED  BY <1>1, <2>1, ContinueType, RestartType
<1>5. view[n].quorums \in SUBSET Node /\ net \ {m} \in SUBSET Messages
  BY <1>1 DEF TypeOK, ViewType
<1>6. CASE /\ proposers' = [proposers EXCEPT ![n][s] = p2]
           /\ net' = net \ {m}
           /\ UNCHANGED <<acceptors, votes, proposals>>
  <2>1. proposers' \in [Node -> [Slot -> ProposerType]]
    BY <1>1, <1>3, <1>6 DEF TypeOK
  <2>2. TypeOK'
    BY <2>1, <1>6 DEF TypeOK, HandlePromise, nodeVars, commoVars
  <2>3. ViewInv' /\ NetInv' /\ ProposerInv'
    <3>1. \A k \in Node, t \in Slot :
            /\ proposers'[k][t].init = proposers[k][t].init
            /\ proposers'[k][t].status # "EMPTY" =>
                 proposers[k][t].status # "EMPTY"
      BY <1>1, <1>2, <1>3, <1>6 DEF TypeOK
    <3>. QED  BY <1>6, <3>1, AnsweringKeeps DEF HandlePromise, nodeVars
  <2>. QED  BY <2>2, <2>3
<1>7. CASE Proposes(n, net \ {m})
  <2>1. TypeOK'
    BY <1>7 DEF TypeOK, HandlePromise, Proposes, PaxosTypeOK, nodeVars,
                commoVars
  <2>2. ViewInv' /\ NetInv' /\ ProposerInv'
    BY <1>1, <1>2, <1>7, ProposingInPlaceKeeps DEF HandlePromise, nodeVars
  <2>. QED  BY <2>1, <2>2
<1>8. CASE BroadcastAccept(n, s, Continue(Adopt(p2)), proposers[n],
                           view[n].quorums, 0, 0, net \ {m})
  <2>1. 0 \in 0 .. MaxSlot /\ 0 \in Nat
    BY MessageAssumption
  <2>. HIDE DEF p2
  <2>. QED  BY <1>1, <1>2, <1>4, <1>5, <1>7, <1>8, <2>1, PaxosTyped,
               ProposesAccept
<1>9. CASE BroadcastPrepare(n, s, Restart(Adopt(p2), n), proposers[n],
                            view[n].quorums, net \ {m})
  <2>. HIDE DEF p2
  <2>. QED  BY <1>1, <1>2, <1>4, <1>5, <1>7, <1>9, PaxosTyped, ProposesPrepare
<1>. QED  BY <1>6, <1>8, <1>9 DEF HandlePromise

\* The handler of ACCEPTED keeps the invariant: wait, choose the own value
\* (and perhaps open a slot), choose another's and propose again, or restart.
LEMMA AcceptedKeeps ==
  ASSUME IInv, NEW m \in net, HandleAccepted(m), UNCHANGED commoVars
  PROVE  IInv'
<1>. USE DEF IInv
<1>. DEFINE n  == m.to
            s  == m.slot
            p  == AddAccepted(proposers[n][s], m.from, m.reply)
            ch == AddChosen(chosen[n], s, p.value)
            others == [proposers[n] EXCEPT ![s] = NoProposer]
            q  == view[n].quorums
<1>1. /\ m \in Messages /\ n \in Node /\ m.from \in Node /\ s \in Slot
      /\ m.ballot \in Ballot /\ m.reply \in Answer
  BY AnswerTypes DEF TypeOK, HandleAccepted, Arrives, Answer
<1>2. /\ proposers[n][s] \in ProposerType
      /\ HasInit(proposers[n]) /\ proposers[n] \in [Slot -> ProposerType]
  BY <1>1 DEF TypeOK, ProposerInv
<1>3. /\ p \in ProposerType /\ p.status = proposers[n][s].status
      /\ p.init = proposers[n][s].init
  BY <1>1, <1>2, AddTypes
<1>4. p.status = "PHASEII"
  BY DEF HandleAccepted
<1>5. p.init \in Value /\ view[n].master = n
  BY <1>1, <1>2, <1>3, <1>4 DEF ProposerInv, HasInit
<1>. HIDE DEF p
<1>6. q \in SUBSET Node /\ net \ {m} \in SUBSET Messages
  BY <1>1 DEF TypeOK, ViewType
<1>7. others \in [Slot -> ProposerType] /\ HasInit(others)
  BY <1>1, <1>2, NoProposerType DEF HasInit, NoProposer
<1>8. ch \in [Slot -> Value \cup {NULL}]
  BY <1>1, <1>3, AddChosenType DEF TypeOK, ProposerType
<1>9. UNCHANGED <<view, valueId, loop, unsent>>
  BY DEF HandleAccepted
<1>10. \A c \in Request \cup {NoRequest} :
         informed \cup {[client |-> c, slot |-> s]} \subseteq
           [client : Request \cup {NoRequest}, slot : Slot]
  BY <1>1 DEF TypeOK
<1>11. p.client \in Request \cup {NoRequest}
  BY <1>3 DEF ProposerType
<1>12. ASSUME Proposes(n, net \ {m}),
              chosen' \in [Node -> [Slot -> Value \cup {NULL}]],
              informed' \subseteq [client : Request \cup {NoRequest}, slot : Slot],
              maxSlot' \in [Node -> 0 .. MaxSlot],
              lastSlot' \in [Node -> 0 .. MaxSlot],
              tocommit' \in [Node -> Seq(Entry)]
       PROVE  IInv'
  <2>1. TypeOK'
    BY <1>9, <1>12 DEF TypeOK, Proposes, PaxosTypeOK, commoVars
  <2>2. ViewInv' /\ NetInv' /\ ProposerInv'
    BY <1>1, <1>5, <1>9, <1>12, ProposingInPlaceKeeps
  <2>. QED  BY <2>1, <2>2
<1>13. ASSUME UNCHANGED <<acceptors, votes, proposals, maxSlot, lastSlot,
                          tocommit>>,
              net' = net \ {m},
              NEW ps \in [Slot -> ProposerType], HasInit(ps),
              proposers' = [proposers EXCEPT ![n] = ps],
              chosen' \in [Node -> [Slot -> Value \cup {NULL}]],
              informed' \subseteq [client : Request \cup {NoRequest}, slot : Slot]
       PROVE  IInv'
  <2>1. Proposes(n, net \ {m})
    BY <1>1, <1>6, <1>13 DEF Proposes, PaxosTypeOK, TypeOK, HasInit
  <2>. QED  BY <1>12, <1>13, <2>1 DEF TypeOK
<1>14. CASE /\ proposers' = [proposers EXCEPT ![n][s] = p]
            /\ net' = net \ {m}
            /\ UNCHANGED <<acceptors, votes, proposals, chosen, informed,
                           maxSlot, lastSlot, tocommit>>
  <2>. DEFINE ps == [proposers[n] EXCEPT ![s] = p]
  <2>1. ps \in [Slot -> ProposerType] /\ HasInit(ps)
    BY <1>1, <1>2, <1>3, <1>5 DEF HasInit
  <2>2. proposers' = [proposers EXCEPT ![n] = ps]
    BY <1>14
  <2>. HIDE DEF ps
  <2>. QED  BY <1>13, <1>14, <2>1, <2>2 DEF TypeOK
<1>15. CASE ChooseOwn(m, p)
  <2>1. chosen' = [chosen EXCEPT ![n] = ch]
    BY <1>15 DEF ChooseOwn
  <2>2. chosen' \in [Node -> [Slot -> Value \cup {NULL}]]
    BY <1>1, <1>8, <2>1 DEF TypeOK
  <2>3. informed' \subseteq [client : Request \cup {NoRequest}, slot : Slot]
    BY <1>10, <1>11, <1>15 DEF ChooseOwn
  <2>4. CASE /\ proposers' = [proposers EXCEPT ![n] = others]
             /\ net' = net \ {m}
             /\ UNCHANGED <<acceptors, votes, proposals, maxSlot, lastSlot,
                            tocommit>>
    <3>. HIDE DEF others
    <3>. QED  BY <1>7, <1>13, <2>2, <2>3, <2>4
  <2>5. CASE /\ tocommit[n] # <<>>
             /\ tocommit' = [tocommit EXCEPT ![n] = Tail(@)]
             /\ OpenSlot(n, Head(tocommit[n]), ch, others, q, net \ {m})
    <3>1. Head(tocommit[n]) \in Entry /\ Tail(tocommit[n]) \in Seq(Entry)
      <4>1. tocommit[n] \in Seq(Entry)
        BY <1>1 DEF TypeOK
      <4>. QED  BY <2>5, <4>1, HeadTailProperties
    <3>. HIDE DEF others, ch
    <3>2. /\ Proposes(n, net \ {m})
          /\ maxSlot' \in [Node -> 0 .. MaxSlot]
          /\ lastSlot' \in [Node -> 0 .. MaxSlot]
      BY <1>1, <1>6, <1>7, <1>8, <2>5, <3>1, PaxosTyped, ProposesOpen
         DEF TypeOK
    <3>3. tocommit' \in [Node -> Seq(Entry)]
      BY <1>1, <2>5, <3>1 DEF TypeOK
    <3>. QED  BY <1>12, <2>2, <2>3, <3>2, <3>3
  <2>. QED  BY <1>15, <2>4, <2>5 DEF ChooseOwn
<1>16. CASE ChooseOther(m, p)
  <2>. DEFINE t  == maxSlot[n] + 1
              p0 == Restart(NewProposer(p.init, NoRequest), n)
  <2>1. /\ t \in Slot
        /\ chosen' = [chosen EXCEPT ![n] = ch]
        /\ maxSlot' = [maxSlot EXCEPT ![n] = t]
        /\ BroadcastPrepare(n, t, p0, others, q, net \ {m})
        /\ UNCHANGED <<informed, lastSlot, tocommit>>
    BY <1>16 DEF ChooseOther
  <2>2. p0 \in ProposerType /\ p0.init \in Value
    <3>1. /\ NewProposer(p.init, NoRequest) \in ProposerType
          /\ NewProposer(p.init, NoRequest).init = p.init
      BY <1>5, NewProposerType
    <3>. QED  BY <1>1, <1>5, <3>1, RestartType
  <2>. HIDE DEF p0, others, t, ch
  <2>3. Proposes(n, net \ {m})
    BY <1>1, <1>6, <1>7, <2>1, <2>2, PaxosTyped, ProposesPrepare
  <2>4. /\ chosen' \in [Node -> [Slot -> Value \cup {NULL}]]
        /\ maxSlot' \in [Node -> 0 .. MaxSlot]
    BY <1>1, <1>8, <2>1 DEF TypeOK, Slot
  <2>. QED  BY <1>12, <2>1, <2>3, <2>4 DEF TypeOK
<1>17. CASE /\ BroadcastPrepare(n, s, Restart(p, n), proposers[n], q, net \ {m})
            /\ UNCHANGED <<chosen, informed, maxSlot, lastSlot, tocommit>>
  <2>1. Restart(p, n) \in ProposerType /\ Restart(p, n).init \in Value
    BY <1>1, <1>3, <1>5, RestartType
  <2>2. Proposes(n, net \ {m})
    BY <1>1, <1>2, <1>6, <1>17, <2>1, PaxosTyped, ProposesPrepare
  <2>. QED  BY <1>12, <1>17, <2>2 DEF TypeOK
<1>. QED  BY <1>14, <1>15, <1>16, <1>17 DEF HandleAccepted, p

\* SET_QUORUM keeps the invariant: it goes only to nodes outside the initial
\* quorum, which never are masters.
LEMMA CommandKeeps ==
  ASSUME IInv, NEW m \in net, HandleCommand(m), UNCHANGED commoVars
  PROVE  IInv'
<1>. USE DEF IInv
<1>. DEFINE n == m.to
            v == view[n]
            w == JoinQuorum(v, n)
<1>1. /\ n \in Node /\ m.type = "COMMAND" /\ net' = net \ {m}
      /\ view' = [view EXCEPT ![n] = w]
  BY AnswerTypes DEF TypeOK, HandleCommand, Arrives
<1>2. n \notin InitQuorum
  BY <1>1 DEF NetInv, NetOK, Interest
<1>3. v \in ViewType /\ w \in ViewType
  BY <1>1, ViewTypes DEF TypeOK
<1>4. v.master # n
  BY <1>1, <1>2 DEF ViewInv, ViewOK
<1>5. /\ w.quorums = v.quorums \cup {n}
      /\ w.nquorums = v.nquorums \ {n}
      /\ w.master # n
  BY <1>2, QuorumSizes DEF JoinQuorum
<1>6. Cardinality(w.quorums) >= QSize
  <2>1. IsFiniteSet(v.quorums) /\ Cardinality(v.quorums) \in Nat
    BY <1>3, NodeFinite, FS_Subset, FS_CardinalityType DEF ViewType
  <2>2. Cardinality(v.quorums) >= QSize
    BY <1>1 DEF ViewInv, ViewOK
  <2>3. Cardinality(v.quorums \cup {n}) =
          IF n \in v.quorums THEN Cardinality(v.quorums)
                             ELSE Cardinality(v.quorums) + 1
    BY <2>1, FS_AddElement
  <2>. HIDE DEF v
  <2>. QED  BY <1>5, <2>1, <2>2, <2>3, QuorumSizes
<1>. HIDE DEF w
<1>7. TypeOK'
  <2>1. view' \in [Node -> ViewType]
    BY <1>1, <1>3 DEF TypeOK
  <2>. QED  BY <1>1, <2>1 DEF TypeOK, HandleCommand, paxosVars, commoVars
<1>8. ViewInv'
  <2>1. view'[n] = w /\ \A k \in Node \ {n} : view'[k] = view[k]
    BY <1>1 DEF TypeOK
  <2>2. ViewOK(n)
    BY <1>1 DEF ViewInv
  <2>3. ViewOK(n)'
    BY <1>2, <1>5, <1>6, <2>1, <2>2 DEF ViewOK
  <2>4. ASSUME NEW k \in Node \ {n}  PROVE ViewOK(k)'
    <3>1. ViewOK(k)
      BY DEF ViewInv
    <3>. QED  BY <2>1, <3>1 DEF ViewOK
  <2>. QED  BY <2>3, <2>4 DEF ViewInv
<1>9. \A k \in Node : view[k].master = k => view'[k].master = k
  BY <1>1, <1>4 DEF TypeOK
<1>10. NetInv'
  BY <1>1, <1>9, AnswerTypes DEF TypeOK, NetInv, NetOK
<1>11. ProposerInv'
  BY <1>1, <1>4, <1>9 DEF ProposerInv, HasInit, HandleCommand, paxosVars
<1>. QED  BY <1>7, <1>8, <1>10, <1>11

-----------------------------------------------------------------------------
(* Nacks, the log of decisions, loss and stops *)

\* Where Nacks are handled no id has two digits, so that onNack replaces the
\* node that is silent (commo.cpp:429).
OneDigitNames == Recover => N <= 10

\* What onNack reads is then the node's id.
LEMMA DigitIsId ==
  ASSUME OneDigitNames, Recover, NEW n \in Node
  PROVE  LastDigit(n) = n
BY ViewAssumption DEF OneDigitNames, LastDigit, Node

\* A Nack keeps the invariant: only nodes 0 and 1 are replaced, the sender is
\* master and not the one replaced, and the new receiver is a spare node.
LEMMA NackKeeps ==
  ASSUME OneDigitNames, IInv, NEW m \in net, Nack(m)
  PROVE  IInv'
<1>. USE DEF IInv
<1>. DEFINE n == m.from
            v == view[n]
            q == First(v.nquorums)
            w == SwapMember(v, m.to)
            again == [m EXCEPT !.to = q]
<1>1. /\ m \in Messages /\ n \in Node /\ m.to \in Node /\ m.type \in Interest
      /\ v \in ViewType
  BY AnswerTypes DEF TypeOK, Nack
<1>0. LastDigit(m.to) = m.to
  BY <1>1, DigitIsId DEF Nack
<1>2. m.to \in InitQuorum
  BY <1>0, <1>1, QuorumSizes DEF Nack, Node, InitQuorum
<1>3. m.from # m.to /\ m.type # "COMMAND" /\ v.master = n
  BY <1>1, <1>2 DEF NetInv, NetOK
<1>4. /\ v.quorums \cap v.nquorums = {} /\ v.nquorums \cap InitQuorum = {}
      /\ n \in InitQuorum /\ n \in v.quorums
      /\ Cardinality(v.quorums) >= QSize
  BY <1>1, <1>3 DEF ViewInv, ViewOK
<1>5. CASE UNCHANGED view /\ net' = net \ {m}
  <2>1. TypeOK'
    BY <1>1, <1>5 DEF TypeOK, Nack, paxosVars, commoVars
  <2>2. ViewInv' /\ NetInv' /\ ProposerInv'
    BY <1>5, AnsweringKeeps DEF Nack, paxosVars
  <2>. QED  BY <2>1, <2>2
<1>6. CASE /\ v.nquorums # {}
           /\ view' = [view EXCEPT ![n] = w]
           /\ net' = (net \ {m}) \cup {SetQuorumTo(n, q), again}
           /\ UNCHANGED <<loop, quorumMutHeld>>
  <2>1. q \in v.nquorums /\ q \in Node
    BY <1>1, <1>6, FirstType DEF ViewType
  <2>2. q # n /\ q \notin InitQuorum
    BY <1>4, <2>1
  <2>3. /\ w \in ViewType /\ w.master = n /\ n \in w.quorums
        /\ w.quorums \cap w.nquorums = {} /\ w.nquorums \cap InitQuorum = {}
        /\ Cardinality(w.quorums) >= QSize
    <3>1. w \in ViewType
      BY <1>1, <1>6, ViewTypes
    <3>. QED  BY <1>1, <1>3, <1>4, <1>6, <3>1, SwapKeepsView
  <2>4. /\ SetQuorumTo(n, q) \in Messages
        /\ again \in Messages
        /\ again.to = q /\ again.from = n /\ again.type = m.type
    BY <1>1, <2>1, CommandType, AnswerTypes
  <2>. HIDE DEF w, q, again
  <2>5. TypeOK'
    BY <1>1, <1>6, <2>3, <2>4 DEF TypeOK, Nack, paxosVars
  <2>6. ViewInv'
    BY <1>1, <1>4, <1>6, <2>3 DEF TypeOK, ViewInv, ViewOK
  <2>7. \A k \in Node : view[k].master = k => view'[k].master = k
    BY <1>1, <1>6, <2>3 DEF TypeOK
  <2>8. view'[n].master = n
    BY <1>1, <1>6, <2>3 DEF TypeOK
  <2>9. ASSUME NEW x \in net'  PROVE  NetOK(x)'
    <3>1. CASE x \in net
      BY <2>7, <3>1, AnswerTypes DEF TypeOK, NetInv, NetOK
    <3>2. CASE x = SetQuorumTo(n, q)
      BY <2>2, <2>8, <3>2 DEF NetOK, SetQuorumTo
    <3>3. CASE x = again
      BY <1>3, <2>2, <2>4, <2>8, <3>3 DEF NetOK
    <3>. QED  BY <1>6, <3>1, <3>2, <3>3
  <2>10. ProposerInv'
    BY <2>7 DEF ProposerInv, HasInit, Nack, paxosVars
  <2>. QED  BY <2>5, <2>6, <2>9, <2>10 DEF NetInv
<1>. QED  BY <1>0, <1>5, <1>6 DEF Nack

\* Consuming the log of decisions keeps the invariant.
LEMMA LogKeeps ==
  ASSUME IInv, NEW n \in Node, NEW s \in logPending[n],
         \/ \E q \in LogServer : OnDataLog(n, s, q)
         \/ OnTimeoutLog(n, s)
  PROVE  IInv'
<1>. USE DEF IInv
<1>1. CASE OnTimeoutLog(n, s)
  <2>1. TypeOK'
    BY <1>1 DEF TypeOK, OnTimeoutLog, captainVars, nodeVars, paxosVars
  <2>2. ViewInv' /\ NetInv' /\ ProposerInv'
    BY <1>1, AnsweringKeeps DEF OnTimeoutLog, captainVars, nodeVars, paxosVars
  <2>. QED  BY <2>1, <2>2
<1>2. ASSUME NEW q \in LogServer, OnDataLog(n, s, q)
      PROVE  IInv'
  <2>1. q \in Node /\ s \in Slot
    BY <1>2, QuorumSizes DEF LogServer, OnDataLog
  <2>2. AddChosen(chosen[n], s, chosen[q][s]) \in [Slot -> Value \cup {NULL}]
    <3>1. /\ chosen[n] \in [Slot -> Value \cup {NULL}]
          /\ chosen[q][s] \in Value \cup {NULL}
      BY <2>1 DEF TypeOK
    <3>. QED  BY <2>1, <3>1, AddChosenType
  <2>3. chosen' \in [Node -> [Slot -> Value \cup {NULL}]]
    BY <1>2, <2>2 DEF TypeOK, OnDataLog
  <2>4. logCounter' \in [Node -> Nat] /\ logPending' \in [Node -> SUBSET Nat]
    <3>1. /\ logCounter[n] \in Nat /\ logPending[n] \in SUBSET Nat
          /\ logCounter \in [Node -> Nat] /\ logPending \in [Node -> SUBSET Nat]
      BY DEF TypeOK
    <3>2. CASE /\ logPending' = [logPending EXCEPT ![n] = @ \ {s}]
               /\ UNCHANGED logCounter
      BY <3>1, <3>2
    <3>3. CASE /\ logCounter' = [logCounter EXCEPT ![n] = @ + 1]
               /\ logPending' = [logPending EXCEPT ![n] =
                                  (@ \ {s}) \cup {logCounter[n] + 1}]
      BY <3>1, <3>3
    <3>. QED  BY <1>2, <3>2, <3>3 DEF OnDataLog
  <2>5. TypeOK'
    BY <1>2, <2>3, <2>4 DEF TypeOK, OnDataLog, nodeVars, paxosVars
  <2>6. ViewInv' /\ NetInv' /\ ProposerInv'
    BY <1>2, AnsweringKeeps DEF OnDataLog, nodeVars, paxosVars
  <2>. QED  BY <2>5, <2>6
<1>. QED  BY <1>1, <1>2

\* Losing a message, stopping, and doing nothing keep the invariant.
LEMMA LoseKillKeeps ==
  ASSUME IInv,
         \/ \E m \in net : Lose(m)
         \/ \E n \in Mortal : Kill(n)
         \/ UNCHANGED vars
  PROVE  IInv'
<1>. USE DEF IInv
<1>1. CASE \E m \in net : Lose(m)
  <2>1. TypeOK'
    BY <1>1 DEF TypeOK, Lose, nodeVars, paxosVars, commoVars
  <2>2. ViewInv' /\ NetInv' /\ ProposerInv'
    BY <1>1, AnsweringKeeps DEF Lose, nodeVars, paxosVars
  <2>. QED  BY <2>1, <2>2
<1>2. CASE \E n \in Mortal : Kill(n)
  <2>1. TypeOK'
    BY <1>2, NaxosAssumption DEF TypeOK, Kill, nodeVars, paxosVars, commoVars
  <2>2. ViewInv' /\ NetInv' /\ ProposerInv'
    BY <1>2, AnsweringKeeps DEF Kill, nodeVars, paxosVars
  <2>. QED  BY <2>1, <2>2
<1>3. CASE UNCHANGED vars
  <2>1. TypeOK'
    BY <1>3 DEF TypeOK, vars, captainVars, nodeVars, paxosVars, commoVars
  <2>2. ViewInv' /\ NetInv' /\ ProposerInv'
    BY <1>3, AnsweringKeeps DEF vars, captainVars, nodeVars, paxosVars
  <2>. QED  BY <2>1, <2>2
<1>. QED  BY <1>1, <1>2, <1>3

-----------------------------------------------------------------------------
(* The theorems *)

\* Every step of the system keeps the inductive invariant.
THEOREM NextIInv ==
  ASSUME OneDigitNames
  PROVE  IInv /\ [Next]_vars => IInv'
<1>. SUFFICES ASSUME IInv, [Next]_vars  PROVE IInv'
  OBVIOUS
<1>1. ASSUME NEW n \in WriteNode, NEW r \in Request, Write(n, r)
      PROVE  IInv'
  BY <1>1, CommitKeeps, TakingOverKeeps, ForwardingKeeps DEF Write
<1>2. ASSUME NEW m \in net, Deliver(m)
      PROVE  IInv'
  BY <1>2, PrepareKeeps, AcceptKeeps, CommandKeeps, IgnorePromiseKeeps,
     PromiseKeeps, IgnoreAcceptedKeeps, AcceptedKeeps DEF Deliver, HandleMsg
<1>3. ASSUME NEW m \in net, Nack(m)
      PROVE  IInv'
  BY <1>3, NackKeeps
<1>4. ASSUME NEW n \in Node, NEW s \in logPending[n],
             \/ \E q \in LogServer : OnDataLog(n, s, q)
             \/ Lossy /\ OnTimeoutLog(n, s)
      PROVE  IInv'
  BY <1>4, LogKeeps
<1>5. CASE \/ \E m \in net : Lose(m)
           \/ \E n \in Mortal : Kill(n)
           \/ UNCHANGED vars
  BY <1>5, LoseKillKeeps
<1>. QED  BY <1>1, <1>2, <1>3, <1>4, <1>5 DEF Next

\* The inductive invariant holds in every reachable state.
LEMMA SpecIInv ==
  ASSUME OneDigitNames
  PROVE  Spec => []IInv
BY InitIInv, NextIInv, PTL DEF Spec

\* Type correctness: in every reachable state every variable has its type.  In
\* particular an ACCEPT always carries a value, a slot is never left without
\* the write it was opened for, and the node a Nack or a take-over brings in
\* exists (captain.cpp, commo.cpp).
THEOREM TypeCorrect ==
  ASSUME OneDigitNames
  PROVE  Spec => []TypeOK
<1>1. IInv => TypeOK
  BY DEF IInv
<1>. QED  BY <1>1, SpecIInv, PTL

\* A captain that takes itself for the master is always in its own quorum, and
\* that quorum is never smaller than a majority, whatever was swapped or taken
\* over (captain.cpp:128-147, commo.cpp:422-465): its own answer counts among
\* the q_size that decide.  With twelve nodes it fails: a Nack for node10
\* makes node 0 remove itself.
THEOREM MasterStaysInQuorum ==
  ASSUME OneDigitNames
  PROVE  Spec => []MasterInQuorum
<1>1. IInv => MasterInQuorum
  BY DEF IInv, ViewInv, ViewOK, MasterInQuorum
<1>. QED  BY <1>1, SpecIInv, PTL

-----------------------------------------------------------------------------
(* The lock of onNack *)

Stuck(n) == quorumMutHeld[n] \/ loop[n] = "wait_quorum_mut"

\* The lock stays held, and the event loop blocks, where no node is spare.
SpareInv == \A n \in Node : Stuck(n) => view[n].nquorums = {}

\* Spare nodes are only used up.
LEMMA SparesShrink ==
  ASSUME TypeOK, [Next]_vars
  PROVE  \A n \in Node : view'[n].nquorums \subseteq view[n].nquorums
<1>1. \A v \in ViewType : \A k :
        /\ SwapMember(v, k).nquorums \subseteq v.nquorums
        /\ TakeOver(v, k).nquorums \subseteq v.nquorums
        /\ JoinQuorum(v, k).nquorums \subseteq v.nquorums
  BY DEF SwapMember, TakeOver, JoinQuorum, ViewType
<1>2. \/ UNCHANGED view
      \/ \E k, old : view' = [view EXCEPT ![k] = SwapMember(view[k], old)]
      \/ \E k : view' = [view EXCEPT ![k] = TakeOver(view[k], k)]
      \/ \E k : view' = [view EXCEPT ![k] = JoinQuorum(view[k], k)]
  <2>. DEFINE Goal == \/ UNCHANGED view
                      \/ \E k, old : view' = [view EXCEPT ![k] =
                                                SwapMember(view[k], old)]
                      \/ \E k : view' = [view EXCEPT ![k] = TakeOver(view[k], k)]
                      \/ \E k : view' = [view EXCEPT ![k] =
                                           JoinQuorum(view[k], k)]
  <2>1. ASSUME NEW n, NEW r, Write(n, r)  PROVE Goal
    BY <2>1 DEF Write, Commit, CommitTakingOver, CommitForwarding
  <2>2. ASSUME NEW m \in net, Deliver(m)  PROVE Goal
    <3>1. \/ UNCHANGED view
          \/ view' = [view EXCEPT ![m.to] = JoinQuorum(view[m.to], m.to)]
      BY <2>2 DEF Deliver, HandleMsg, HandlePrepare, HandleAccept, AcceptAtSlot,
                  HandleCommand, IgnorePromise, HandlePromise, IgnoreAccepted,
                  HandleAccepted, nodeVars
    <3>. QED  BY <3>1
  <2>3. ASSUME NEW m \in net, Nack(m)  PROVE Goal
    <3>1. \/ UNCHANGED view
          \/ view' = [view EXCEPT ![m.from] =
                        SwapMember(view[m.from], LastDigit(m.to))]
      BY <2>3 DEF Nack
    <3>. QED  BY <3>1
  <2>4. CASE \/ \E m \in net : Lose(m)
             \/ \E n \in Mortal : Kill(n)
             \/ \E n \in Node : \E s \in logPending[n] :
                  \/ \E q \in LogServer : OnDataLog(n, s, q)
                  \/ OnTimeoutLog(n, s)
             \/ UNCHANGED vars
    BY <2>4 DEF Lose, Kill, OnDataLog, OnTimeoutLog, vars, captainVars, nodeVars
  <2>. QED  BY <2>1, <2>2, <2>3, <2>4 DEF Next
<1>3. view \in [Node -> ViewType]
  BY DEF TypeOK
<1>. HIDE DEF Next, vars
<1>. QED  BY <1>1, <1>2, <1>3

\* A Nack locks, or waits for the lock, where no node is spare or the lock is
\* held (commo.cpp:433-456); no other step does.
LEMMA StuckSteps ==
  ASSUME TypeOK, [Next]_vars, NEW n \in Node, Stuck(n)'
  PROVE  Stuck(n) \/ view[n].nquorums = {}
<1>1. ASSUME NEW k \in WriteNode, NEW r \in Request, Write(k, r)
      PROVE  Stuck(n)
  <2>1. /\ UNCHANGED quorumMutHeld
        /\ loop' = loop \/ loop' = [loop EXCEPT ![k] = "wait_commit"]
    BY <1>1 DEF Write, Commit, CommitTakingOver, CommitForwarding, commoVars
  <2>. QED  BY <2>1 DEF Stuck, TypeOK
<1>2. ASSUME NEW m \in net, Deliver(m)
      PROVE  Stuck(n)
  BY <1>2 DEF Stuck, Deliver, HandleMsg, HandlePrepare, HandleAccept,
              AcceptAtSlot, HandleCommand, IgnorePromise, HandlePromise,
              IgnoreAccepted, HandleAccepted, commoVars
<1>3. ASSUME NEW m \in net, Nack(m)
      PROVE  Stuck(n) \/ view[n].nquorums = {}
  <2>1. \/ /\ quorumMutHeld[m.from] /\ UNCHANGED quorumMutHeld
           /\ loop' = [loop EXCEPT ![m.from] = "wait_quorum_mut"]
        \/ /\ view[m.from].nquorums = {} /\ UNCHANGED loop
           /\ quorumMutHeld' = [quorumMutHeld EXCEPT ![m.from] = TRUE]
        \/ UNCHANGED <<loop, quorumMutHeld>>
    BY <1>3 DEF Nack
  <2>. QED  BY <2>1 DEF Stuck, TypeOK
<1>4. CASE \E k \in Mortal : Kill(k)
  <2>1. PICK k : loop' = [loop EXCEPT ![k] = "killed"] /\ UNCHANGED quorumMutHeld
    BY <1>4 DEF Kill, commoVars
  <2>. QED  BY <2>1 DEF Stuck, TypeOK
<1>5. CASE \/ \E m \in net : Lose(m)
           \/ \E k \in Node : \E s \in logPending[k] :
                \/ \E q \in LogServer : OnDataLog(k, s, q)
                \/ OnTimeoutLog(k, s)
           \/ UNCHANGED vars
  BY <1>5 DEF Stuck, Lose, OnDataLog, OnTimeoutLog, vars, captainVars, commoVars
<1>. QED  BY <1>1, <1>2, <1>3, <1>4, <1>5 DEF Next

\* A step that leaves a captain stuck was taken with no node spare.
StuckWithoutSpares == \A n \in Node : Stuck(n)' => view[n].nquorums = {}

LEMMA NextSpare ==
  ASSUME TypeOK, SpareInv, [Next]_vars
  PROVE  SpareInv' /\ StuckWithoutSpares
<1>1. StuckWithoutSpares
  BY StuckSteps DEF SpareInv, StuckWithoutSpares
<1>2. \A n \in Node : view'[n].nquorums \subseteq view[n].nquorums
  BY SparesShrink
<1>. QED  BY <1>1, <1>2 DEF SpareInv, StuckWithoutSpares

\* At the start nobody holds the lock.
LEMMA InitSpare == Init => SpareInv
BY DEF Init, CaptainInit, CommoInit, SpareInv, Stuck

\* As long as a captain has a spare node its event loop does not block on
\* quorum_mut_, whoever stops and takes over (commo.cpp:433-456).
THEOREM BlocksLate ==
  ASSUME OneDigitNames
  PROVE  Spec => BlocksOnlyWithoutSpares
<1>1. IInv /\ SpareInv /\ [Next]_vars => SpareInv' /\ StuckWithoutSpares
  BY NextSpare DEF IInv
<1>2. StuckWithoutSpares => \A n \in Node :
        quorumMutHeld'[n] \/ loop'[n] = "wait_quorum_mut"
          => view[n].nquorums = {}
  BY DEF StuckWithoutSpares, Stuck
<1>. QED  BY <1>1, <1>2, InitSpare, SpecIInv, PTL
          DEF Spec, BlocksOnlyWithoutSpares

-----------------------------------------------------------------------------
(* What is chosen *)

\* What is chosen stays chosen.
LEMMA ChosenGrows ==
  ASSUME votes \subseteq votes', NEW s
  PROVE  ChosenIn(s) \subseteq ChosenIn(s)'
<1>1. ASSUME NEW b, NEW v, ChosenAt(s, b, v)  PROVE ChosenAt(s, b, v)'
  <2>1. /\ Voters(s, b, v) \subseteq Voters(s, b, v)'
        /\ Voters(s, b, v)' \subseteq Node
    BY DEF Voters
  <2>2. /\ IsFiniteSet(Voters(s, b, v)')
        /\ Cardinality(Voters(s, b, v)) \in Nat
        /\ Cardinality(Voters(s, b, v)') \in Nat
    BY <2>1, NodeFinite, FS_Subset, FS_CardinalityType
  <2>3. Cardinality(Voters(s, b, v)) <= Cardinality(Voters(s, b, v)')
    BY <2>1, <2>2, FS_Subset
  <2>. QED  BY <1>1, <2>2, <2>3, QuorumSizes DEF ChosenAt
<1>. QED  BY <1>1 DEF ChosenIn

\* It is a matter of the votes alone.
LEMMA ChosenSame ==
  ASSUME votes' = votes, NEW s
  PROVE  ChosenIn(s)' = ChosenIn(s)
<1>1. \A b, v : Voters(s, b, v)' = Voters(s, b, v)
  BY DEF Voters
<1>2. \A b, v : ChosenAt(s, b, v)' = ChosenAt(s, b, v)
  BY <1>1 DEF ChosenAt
<1>. QED  BY <1>2 DEF ChosenIn
=============================================================================
