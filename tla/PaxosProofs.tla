----------------------------- MODULE PaxosProofs -----------------------------
(***************************************************************************)
(* Several captains at work: any number of nodes takes the mastership      *)
(* over, and they propose against each other.  For every number of nodes,  *)
(* slots, writes and ballots, whatever is lost, late, stopped or replaced: *)
(* what a captain learns was chosen, and Phase I keeps what was chosen,    *)
(* unless somebody skipped it at a higher ballot.                          *)
(***************************************************************************)
EXTENDS NaxosProofs

\* A node id has 16 bits (internal_types.hpp:116), and ballots and value ids
\* count in the bits above it.
IdsFit == N <= Radix

-----------------------------------------------------------------------------
(* The inductive invariant.  P, V, A, R and T stand for the proposals, the  *)
(* votes, the acceptors, the proposers and maxSlot of some state.           *)

\* Node n drew the ballot, or the value id, b.
Drawn(b, n) == \E k \in Nat : k > 0 /\ b = k * Radix + n

VoteFor(k, s, b, v) ==
  [node |-> k, slot |-> s, ballot |-> b, value |-> v]

ProposedIn(P, s, b, v) == \E x \in P :
  x.slot = s /\ x.ballot = b /\ x.value = v

\* The values received so far: proposed, or waiting in the queues Q
QueueValues(q) == {q[i].value : i \in DOMAIN q}
KnownIn(P, Q) ==
  {x.value : x \in P} \cup UNION {QueueValues(Q[n]) : n \in Node}

\* Two values never share an id, and the next id of a node is new.
IdInv ==
  /\ \A n \in Node : Drawn(valueId[n] + Radix, n)
  /\ \A v \in KnownIn(proposals, tocommit) : \E n \in Node :
       Drawn(v.id, n) /\ v.id <= valueId[n]
  /\ \A v, w \in KnownIn(proposals, tocommit) : v.id = w.id => v = w

\* Ballot b was proposed by proposer p: p is closed, or at b in Phase II, or
\* beyond b.
Below(b, p) == p.status # "EMPTY" =>
  b < p.ballot \/ (b = p.ballot /\ p.status = "PHASEII")

\* A ballot is its node's own, in a slot that node opened, and one value is
\* proposed at most in each ballot of a slot.
ProposalInv ==
  /\ \A x \in proposals :
       /\ Drawn(x.ballot, x.node)
       /\ x.slot <= maxSlot[x.node]
       /\ Below(x.ballot, proposers[x.node][x.slot])
  /\ \A x, y \in proposals :
       x.slot = y.slot /\ x.ballot = y.ballot => x.value = y.value

\* Only what was proposed is voted for.
VoteInv == \A w \in votes : ProposedIn(proposals, w.slot, w.ballot, w.value)

\* An acceptor holds the value it voted for last, in its highest ballot.
AcceptorOk(V, k, s, a) ==
  /\ a.maxAccepted <= a.maxProposed
  /\ IF a.maxValue = NULL THEN a.maxAccepted = 0
                          ELSE VoteFor(k, s, a.maxAccepted, a.maxValue) \in V
  /\ \A w \in V : w.node = k /\ w.slot = s => w.ballot <= a.maxAccepted
AcceptorInv == \A k \in Node, s \in Slot :
  AcceptorOk(votes, k, s, acceptors[k][s])

\* The highest value v heard of before ballot b: none, or proposed at c < b
Heard(P, s, b, c, v) ==
  c < b /\ IF v = NULL THEN c = 0 ELSE ProposedIn(P, s, c, v)

\* A promise of k for ballot b: k has not voted, and never will, between the
\* ballot it reports and b.
PromiseOk(P, V, A, k, s, b, ack) == ack.reply = "yes" =>
  /\ b <= A[k][s].maxProposed
  /\ Heard(P, s, b, ack.maxBallot, ack.maxValue)
  /\ \A w \in V :
       w.node = k /\ w.slot = s /\ w.ballot < b => w.ballot <= ack.maxBallot

\* The open proposer p of node n for slot s
OpenOk(P, V, A, n, s, p) ==
  /\ Drawn(p.ballot, n)
  /\ \E x \in P : x.value = p.init
  /\ Heard(P, s, p.ballot, p.maxBallot, p.maxValue)
  /\ \A k \in Node : PromiseOk(P, V, A, k, s, p.ballot, p.promises[k])
  /\ IF p.status = "PHASEII"
       THEN /\ ProposedIn(P, s, p.ballot, p.value)
            /\ \A k \in Node : p.accepteds[k] = "yes" =>
                 VoteFor(k, s, p.ballot, p.value) \in V
       ELSE \A k \in Node : p.accepteds[k] = "none"
OpenInv == \A n \in Node, s \in Slot : proposers[n][s].status # "EMPTY" =>
  /\ s <= maxSlot[n]
  /\ OpenOk(proposals, votes, acceptors, n, s, proposers[n][s])

\* Node n asked for ballot b in slot s, and has not fallen behind it.
Asked(R, T, n, s, b) ==
  s <= T[n] /\ (R[n][s].status # "EMPTY" => b <= R[n][s].ballot)

\* Node n proposed v in ballot b of slot s.
ProposedBy(P, n, s, b, v) == \E x \in P :
  x.node = n /\ x.slot = s /\ x.ballot = b /\ x.value = v

\* A message on its way: asked for by its sender, promised, proposed by its
\* sender, or voted for, an answer to the addressee's own question
MessageOk(P, V, A, R, T, m) ==
  /\ m.type = "PREPARE" => Asked(R, T, m.from, m.slot, m.ballot)
  /\ m.type = "PROMISE" =>
       /\ Asked(R, T, m.to, m.slot, m.ballot)
       /\ PromiseOk(P, V, A, m.from, m.slot, m.ballot, m.ack)
  /\ m.type = "ACCEPT" =>
       ProposedBy(P, m.from, m.slot, m.ballot, m.value)
  /\ m.type = "ACCEPTED" => \E v \in Value :
       /\ ProposedBy(P, m.to, m.slot, m.ballot, v)
       /\ m.reply = "yes" => VoteFor(m.from, m.slot, m.ballot, v) \in V
MessageInv == \A m \in net :
  MessageOk(proposals, votes, acceptors, proposers, maxSlot, m)

\* What an ACCEPT announces was chosen.
Announced(m) == m.type = "ACCEPT" /\ m.lastSlot # 0 =>
  \E v \in ChosenIn(m.lastSlot) : v.id = m.lastValue
AnnounceInv == \A m \in net : Announced(m)

\* k has not voted in ballot c of slot s, and never will.
Wont(V, A, k, s, c) ==
  /\ c < A[k][s].maxProposed
  /\ \A w \in V : ~(w.node = k /\ w.slot = s /\ w.ballot = c)

\* Nothing but v can be chosen in slot s at ballot c: of a majority each node
\* voted for v, or never will vote.
OnlyAt(V, A, s, c, v) == \E Q \in SUBSET Node :
  /\ Cardinality(Q) >= QSize
  /\ \A k \in Q : VoteFor(k, s, c, v) \in V \/ Wont(V, A, k, s, c)

\* v was proposed without Phase I between ballots c and b.
SkippedTo(P, s, c, b, v) == \E y \in P :
  y.slot = s /\ y.direct /\ y.value = v /\ c < y.ballot /\ y.ballot < b

\* v may be proposed in ballot b: whatever is chosen below b, v is, or v comes
\* from somebody above it who skipped Phase I.
SafeAt(P, V, A, s, b, v) == \A c \in Nat : c < b =>
  SkippedTo(P, s, c, b, v) \/ OnlyAt(V, A, s, c, v)
SafeInv == \A x \in proposals :
  x.direct \/ SafeAt(proposals, votes, acceptors, x.slot, x.ballot, x.value)

PaxosInv ==
  /\ IdInv /\ ProposalInv /\ VoteInv /\ AcceptorInv /\ OpenInv
  /\ MessageInv /\ AnnounceInv /\ SafeInv /\ LearnedIsChosen

-----------------------------------------------------------------------------
(* Ballots and ids *)

\* No two nodes draw the same ballot, or the same value id (captain.cpp:119,
\* proposer.cpp:175-187).
LEMMA DrawnOnce ==
  ASSUME IdsFit, NEW n \in Node, NEW m \in Node, NEW b \in Nat,
         Drawn(b, n), Drawn(b, m)
  PROVE  n = m
<1>1. PICK j \in Nat : b = j * 65536 + n
  BY DEF Drawn, Radix
<1>2. PICK k \in Nat : b = k * 65536 + m
  BY DEF Drawn, Radix
<1>3. /\ n \in Int /\ 0 <= n /\ n < 65536
      /\ m \in Int /\ 0 <= m /\ m < 65536
  BY ViewAssumption DEF IdsFit, Node, Radix
<1>4. ~(j + 1 <= k)
  BY <1>1, <1>2, <1>3
<1>5. ~(k + 1 <= j)
  BY <1>1, <1>2, <1>3
<1>6. j = k
  BY <1>4, <1>5
<1>. QED  BY <1>1, <1>2, <1>3, <1>6

\* gen_next_ballot draws a higher ballot of the node's own
\* (proposer.cpp:175-187); the next value id is drawn in the same way.
LEMMA NextDrawn ==
  ASSUME NEW n \in Node, NEW b \in Nat
  PROVE  /\ Drawn(n + Radix, n) /\ NextBallot(0, n) = n + Radix
         /\ Drawn(b, n) => /\ b > 0 /\ Drawn(b + Radix, n)
                           /\ NextBallot(b, n) = b + Radix
                           /\ b + Radix > b
<1>1. Drawn(n + Radix, n) /\ NextBallot(0, n) = n + Radix
  <2>1. n + Radix = 1 * Radix + n
    BY DEF Node, Radix
  <2>. QED  BY <2>1 DEF Drawn, NextBallot, Node, Radix
<1>2. ASSUME Drawn(b, n)
      PROVE  /\ b > 0 /\ Drawn(b + Radix, n)
             /\ NextBallot(b, n) = b + Radix
             /\ b + Radix > b
  <2>1. PICK k \in Nat : k > 0 /\ b = k * Radix + n
    BY <1>2 DEF Drawn
  <2>2. b > 0 /\ b + Radix > b
    BY <2>1 DEF Node, Radix
  <2>3. k + 1 \in Nat /\ k + 1 > 0 /\ b + Radix = (k + 1) * Radix + n
    BY <2>1 DEF Node, Radix
  <2>. QED  BY <2>2, <2>3 DEF Drawn, NextBallot
<1>. QED  BY <1>1, <1>2

\* A proposed ballot is not 0.
LEMMA ProposedPositive ==
  ASSUME TypeOK, ProposalInv, NEW x \in proposals
  PROVE  x.ballot \in Nat /\ x.ballot > 0 /\ x.node \in Node /\ x.slot \in Slot
         /\ x.value \in Value
<1>1. x \in Proposal
  BY DEF TypeOK
<1>2. Drawn(x.ballot, x.node)
  BY DEF ProposalInv
<1>. QED  BY <1>1, <1>2, NextDrawn DEF Proposal, Ballot

-----------------------------------------------------------------------------
(* What the ids of received values allow *)

\* A step that receives no value keeps the ids.
LEMMA SameIds ==
  ASSUME IdInv, UNCHANGED valueId,
         KnownIn(proposals, tocommit)' \subseteq KnownIn(proposals, tocommit)
  PROVE  IdInv'
BY DEF IdInv

\* A node that receives a write gives it an id of its own that no value has
\* (captain.cpp:117-124).
LEMMA NewId ==
  ASSUME IdsFit, TypeOK, IdInv, NEW n \in Node, NEW v,
         v.id = valueId[n] + Radix,
         valueId' = [valueId EXCEPT ![n] = @ + Radix],
         KnownIn(proposals, tocommit)' \subseteq
           KnownIn(proposals, tocommit) \cup {v}
  PROVE  IdInv'
<1>. DEFINE K  == KnownIn(proposals, tocommit)
            K2 == KnownIn(proposals, tocommit)'
<1>1. /\ \A m \in Node : valueId[m] \in Nat
      /\ valueId'[n] = valueId[n] + Radix /\ valueId'[n] \in Nat
      /\ \A m \in Node : m # n => valueId'[m] = valueId[m]
      /\ valueId[n] < valueId[n] + Radix
  BY DEF TypeOK, Radix
<1>2. Drawn(v.id, n)
  BY DEF IdInv
<1>3. \A m \in Node : Drawn(valueId'[m] + Radix, m)
  BY <1>1, <1>2, NextDrawn DEF IdInv
<1>4. \A w \in K : \E m \in Node :
        Drawn(w.id, m) /\ w.id <= valueId[m]
  BY DEF IdInv
<1>5. ASSUME NEW w \in K  PROVE w.id # v.id
  <2>1. PICK m \in Node : Drawn(w.id, m) /\ w.id <= valueId[m]
    BY <1>4
  <2>2. ASSUME w.id = v.id  PROVE FALSE
    <3>1. m = n
      BY <1>1, <1>2, <2>1, <2>2, DrawnOnce
    <3>. QED  BY <1>1, <2>1, <2>2, <3>1
  <2>. QED  BY <2>2
<1>. HIDE DEF K, K2
<1>6. ASSUME NEW w \in K2
      PROVE  \E m \in Node : Drawn(w.id, m) /\ w.id <= valueId'[m]
  <2>1. CASE w = v
    BY <1>1, <1>2, <2>1
  <2>2. CASE w \in K
    <3>1. PICK m \in Node : Drawn(w.id, m) /\ w.id <= valueId[m]
      BY <1>4, <2>2
    <3>2. w.id \in Nat
      BY <3>1 DEF Drawn, Node, Radix
    <3>. QED  BY <1>1, <3>1, <3>2
  <2>. QED  BY <2>1, <2>2 DEF K, K2
<1>7. \A w, x \in K2 : w.id = x.id => w = x
  <2>1. \A w, x \in K : w.id = x.id => w = x
    BY DEF IdInv, K
  <2>2. K2 \subseteq K \cup {v}
    BY DEF K, K2
  <2>. QED  BY <1>5, <2>1, <2>2
<1>. QED  BY <1>3, <1>6, <1>7 DEF IdInv, K2

\* What commit appends is in the queue, and what is taken off its front is
\* not lost (captain.cpp:180-193).
LEMMA QueueKnown ==
  ASSUME NEW q \in Seq(Entry)
  PROVE  /\ \A e \in Entry :
              QueueValues(Append(q, e)) \subseteq QueueValues(q) \cup {e.value}
         /\ q # <<>> => /\ Head(q).value \in QueueValues(q)
                        /\ QueueValues(Tail(q)) \subseteq QueueValues(q)
<1>1. ASSUME NEW e \in Entry
      PROVE  QueueValues(Append(q, e)) \subseteq QueueValues(q) \cup {e.value}
  <2>. DEFINE a == Append(q, e)
  <2>1. /\ DOMAIN q = 1 .. Len(q) /\ Len(q) \in Nat
        /\ DOMAIN a = 1 .. Len(q) + 1
        /\ \A i \in 1 .. Len(q) : a[i] = q[i]
        /\ a[Len(q) + 1] = e
    BY AppendProperties, LenProperties
  <2>. HIDE DEF a
  <2>2. \A i \in DOMAIN a : i \in DOMAIN q \/ i = Len(q) + 1
    BY <2>1
  <2>3. \A i \in DOMAIN a : a[i].value \in QueueValues(q) \cup {e.value}
    BY <2>1, <2>2 DEF QueueValues
  <2>. QED  BY <2>3 DEF QueueValues, a
<1>2. ASSUME q # <<>>
      PROVE  /\ Head(q).value \in QueueValues(q)
             /\ QueueValues(Tail(q)) \subseteq QueueValues(q)
  <2>. DEFINE t == Tail(q)
  <2>1. Len(q) \in Nat /\ Len(q) # 0 /\ DOMAIN q = 1 .. Len(q)
    BY <1>2, EmptySeq, LenProperties
  <2>2. /\ Head(q) = q[1] /\ t \in Seq(Entry) /\ Len(t) = Len(q) - 1
        /\ \A i \in 1 .. Len(t) : t[i] = q[i + 1]
    BY <1>2, HeadTailProperties
  <2>3. DOMAIN t = 1 .. Len(t)
    BY <2>2, LenProperties
  <2>. HIDE DEF t
  <2>4. 1 \in DOMAIN q /\ \A i \in DOMAIN t : i + 1 \in DOMAIN q
    BY <2>1, <2>2, <2>3
  <2>5. Head(q).value \in QueueValues(q)
    BY <2>2, <2>4 DEF QueueValues
  <2>6. \A i \in DOMAIN t : t[i].value \in QueueValues(q)
    BY <2>2, <2>3, <2>4 DEF QueueValues
  <2>. QED  BY <2>5, <2>6 DEF QueueValues, t
<1>. QED  BY <1>1, <1>2

-----------------------------------------------------------------------------
(* What only grows *)

\* The types the proofs below ask for most
Sized == \A n \in Node :
  /\ maxSlot[n] \in Nat
  /\ \A s \in Slot :
       /\ s \in Nat
       /\ proposers[n][s] \in ProposerType
       /\ proposers[n][s].ballot \in Nat
       /\ acceptors[n][s] \in AcceptorType
       /\ acceptors[n][s].maxProposed \in Nat
       /\ acceptors[n][s].maxAccepted \in Nat

\* They follow from type correctness.
LEMMA Sizes == TypeOK => Sized
<1>. SUFFICES ASSUME TypeOK, NEW n \in Node
     PROVE  /\ maxSlot[n] \in Nat
            /\ \A s \in Slot :
                 /\ s \in Nat
                 /\ proposers[n][s] \in ProposerType
                 /\ proposers[n][s].ballot \in Nat
                 /\ acceptors[n][s] \in AcceptorType
                 /\ acceptors[n][s].maxProposed \in Nat
                 /\ acceptors[n][s].maxAccepted \in Nat
  BY DEF Sized
<1>1. maxSlot[n] \in Nat
  BY DEF TypeOK
<1>2. ASSUME NEW s \in Slot
      PROVE  /\ s \in Nat
             /\ proposers[n][s] \in ProposerType
             /\ acceptors[n][s] \in AcceptorType
  <2>1. s \in Nat
    BY MessageAssumption DEF Slot
  <2>2. /\ proposers \in [Node -> [Slot -> ProposerType]]
        /\ acceptors \in [Node -> [Slot -> AcceptorType]]
    BY DEF TypeOK
  <2>. QED  BY <2>1, <2>2
<1>3. /\ \A p \in ProposerType : p.ballot \in Nat
      /\ \A a \in AcceptorType : a.maxProposed \in Nat /\ a.maxAccepted \in Nat
  BY DEF ProposerType, AcceptorType, Ballot
<1>. QED  BY <1>1, <1>2, <1>3

\* Every step: history and promises grow, and a vote respects the promise.
Grows ==
  /\ proposals \subseteq proposals' /\ votes \subseteq votes'
  /\ \A n \in Node : maxSlot[n] <= maxSlot'[n]
  /\ \A k \in Node, s \in Slot :
       acceptors[k][s].maxProposed <= acceptors'[k][s].maxProposed
  /\ \A w \in votes' \ votes :
       acceptors[w.node][w.slot].maxProposed <= w.ballot

\* What was heard of stays so.
LEMMA HeardGrows ==
  ASSUME Grows, NEW s, NEW b, NEW c, NEW v, Heard(proposals, s, b, c, v)
  PROVE  Heard(proposals', s, b, c, v)
BY DEF Grows, Heard, ProposedIn

\* A promise is kept: later votes are at or above its ballot
\* (acceptor.cpp:63-101).
LEMMA PromiseGrows ==
  ASSUME TypeOK, TypeOK', Grows, NEW k \in Node, NEW s \in Slot,
         NEW b \in Ballot, NEW ack,
         PromiseOk(proposals, votes, acceptors, k, s, b, ack)
  PROVE  PromiseOk(proposals', votes', acceptors', k, s, b, ack)
<1>. SUFFICES ASSUME ack.reply = "yes"
     PROVE  /\ b <= acceptors'[k][s].maxProposed
            /\ Heard(proposals', s, b, ack.maxBallot, ack.maxValue)
            /\ \A w \in votes' : w.node = k /\ w.slot = s /\ w.ballot < b =>
                 w.ballot <= ack.maxBallot
  BY DEF PromiseOk
<1>1. /\ b <= acceptors[k][s].maxProposed
      /\ Heard(proposals, s, b, ack.maxBallot, ack.maxValue)
      /\ \A w \in votes : w.node = k /\ w.slot = s /\ w.ballot < b =>
           w.ballot <= ack.maxBallot
  BY DEF PromiseOk
<1>2. b \in Nat /\ acceptors[k][s].maxProposed \in Nat
      /\ acceptors'[k][s].maxProposed \in Nat
  BY DEF TypeOK, AcceptorType, Ballot
<1>3. Heard(proposals', s, b, ack.maxBallot, ack.maxValue)
  BY <1>1, HeardGrows
<1>4. acceptors[k][s].maxProposed <= acceptors'[k][s].maxProposed
  BY DEF Grows
<1>5. ASSUME NEW w \in votes', w.node = k, w.slot = s, w.ballot < b
      PROVE  w.ballot <= ack.maxBallot
  <2>1. w.ballot \in Nat
    BY DEF TypeOK, Vote, Ballot
  <2>2. w \in votes
    BY <1>1, <1>2, <1>5, <2>1 DEF Grows
  <2>. QED  BY <1>1, <1>5, <2>2
<1>. QED  BY <1>1, <1>2, <1>3, <1>4, <1>5

\* An open proposer that is left alone stays right.
LEMMA OpenGrows ==
  ASSUME TypeOK, TypeOK', Grows, NEW n \in Node, NEW s \in Slot,
         NEW p \in ProposerType, OpenOk(proposals, votes, acceptors, n, s, p)
  PROVE  OpenOk(proposals', votes', acceptors', n, s, p)
<1>1. /\ Drawn(p.ballot, n)
      /\ \E x \in proposals : x.value = p.init
      /\ Heard(proposals, s, p.ballot, p.maxBallot, p.maxValue)
      /\ \A k \in Node :
           PromiseOk(proposals, votes, acceptors, k, s, p.ballot,
                     p.promises[k])
  BY DEF OpenOk
<1>2. p.ballot \in Ballot
  BY DEF ProposerType
<1>3. \A k \in Node :
        PromiseOk(proposals', votes', acceptors', k, s, p.ballot,
                  p.promises[k])
  BY <1>1, <1>2, PromiseGrows
<1>4. Heard(proposals', s, p.ballot, p.maxBallot, p.maxValue)
  BY <1>1, HeardGrows
<1>5. \E x \in proposals' : x.value = p.init
  BY <1>1 DEF Grows
<1>6. p.status = "PHASEII" =>
        /\ ProposedIn(proposals', s, p.ballot, p.value)
        /\ \A k \in Node : p.accepteds[k] = "yes" =>
             VoteFor(k, s, p.ballot, p.value) \in votes'
  BY DEF OpenOk, Grows, ProposedIn
<1>7. p.status # "PHASEII" => \A k \in Node : p.accepteds[k] = "none"
  BY DEF OpenOk
<1>. QED  BY <1>1, <1>3, <1>4, <1>5, <1>6, <1>7 DEF OpenOk

\* Once v alone can be chosen at c, it stays so (the promises of a majority
\* are kept).
LEMMA OnlyGrows ==
  ASSUME TypeOK, TypeOK', Grows, NEW s \in Slot, NEW c \in Nat, NEW v,
         OnlyAt(votes, acceptors, s, c, v)
  PROVE  OnlyAt(votes', acceptors', s, c, v)
<1>1. PICK Q \in SUBSET Node :
        /\ Cardinality(Q) >= QSize
        /\ \A k \in Q : \/ VoteFor(k, s, c, v) \in votes
                        \/ Wont(votes, acceptors, k, s, c)
  BY DEF OnlyAt
<1>2. ASSUME NEW k \in Q, Wont(votes, acceptors, k, s, c)
      PROVE  Wont(votes', acceptors', k, s, c)
  <2>1. /\ acceptors[k][s].maxProposed \in Nat
        /\ acceptors'[k][s].maxProposed \in Nat
    BY DEF TypeOK, AcceptorType, Ballot
  <2>2. /\ c < acceptors[k][s].maxProposed
        /\ acceptors[k][s].maxProposed <= acceptors'[k][s].maxProposed
    BY <1>2 DEF Grows, Wont
  <2>3. ASSUME NEW w \in votes', w.node = k, w.slot = s, w.ballot = c
        PROVE  FALSE
    <3>1. w \in votes
      BY <2>1, <2>2, <2>3 DEF Grows
    <3>. QED  BY <1>2, <2>3, <3>1 DEF Wont
  <2>. QED  BY <2>1, <2>2, <2>3 DEF Wont
<1>3. \A k \in Q : \/ VoteFor(k, s, c, v) \in votes'
                   \/ Wont(votes', acceptors', k, s, c)
  BY <1>1, <1>2 DEF Grows
<1>. QED  BY <1>1, <1>3 DEF OnlyAt

\* What may be proposed, may be proposed later.
LEMMA SafeGrows ==
  ASSUME TypeOK, TypeOK', Grows, NEW s \in Slot, NEW b \in Nat, NEW v,
         SafeAt(proposals, votes, acceptors, s, b, v)
  PROVE  SafeAt(proposals', votes', acceptors', s, b, v)
<1>1. ASSUME NEW c \in Nat, c < b
      PROVE  \/ SkippedTo(proposals', s, c, b, v)
             \/ OnlyAt(votes', acceptors', s, c, v)
  <2>1. CASE SkippedTo(proposals, s, c, b, v)
    BY <2>1 DEF SkippedTo, Grows
  <2>2. CASE OnlyAt(votes, acceptors, s, c, v)
    BY <2>2, OnlyGrows
  <2>. QED  BY <1>1, <2>1, <2>2 DEF SafeAt
<1>. QED  BY <1>1 DEF SafeAt

-----------------------------------------------------------------------------
(* A step that keeps the invariant, described by its effects *)

\* Proposer p of node n for slot s becomes q, which is open: a new slot, a new
\* ballot, or the same ballot, in which Phase II is not left.
Advances(n, s, p, q) ==
  IF p.status = "EMPTY" THEN maxSlot[n] < s
  ELSE \/ p.ballot < q.ballot
       \/ p.ballot = q.ballot /\ (p.status = "PHASEII" => q.status = "PHASEII")

ProposersAdvance == \A n \in Node, s \in Slot :
  \/ proposers'[n][s] = proposers[n][s]
  \/ proposers'[n][s].status = "EMPTY"
  \/ /\ s <= maxSlot'[n]
     /\ Advances(n, s, proposers[n][s], proposers'[n][s])
     /\ OpenOk(proposals', votes', acceptors', n, s, proposers'[n][s])

\* One proposal at most, in a ballot of its node not used before, and safe if
\* it comes from Phase I
NewProposals == \A x \in proposals' \ proposals :
  /\ Drawn(x.ballot, x.node) /\ x.slot <= maxSlot'[x.node]
  /\ proposers'[x.node][x.slot].status = "PHASEII"
  /\ proposers'[x.node][x.slot].ballot = x.ballot
  /\ \A y \in proposals :
       y.node = x.node /\ y.slot = x.slot => y.ballot # x.ballot
  /\ x.direct \/ SafeAt(proposals, votes, acceptors, x.slot, x.ballot, x.value)
  /\ \A y \in proposals' \ proposals : y = x

NewMessages == \A m \in net' \ net :
  /\ MessageOk(proposals', votes', acceptors', proposers', maxSlot', m)
  /\ Announced(m)

Learns == \A n \in Node, s \in Slot : chosen'[n][s] # NULL =>
  chosen'[n][s] = chosen[n][s] \/ chosen'[n][s] \in ChosenIn(s)

PaxosStep ==
  /\ Grows /\ ProposersAdvance /\ NewProposals /\ NewMessages /\ Learns
  /\ IdInv' /\ VoteInv' /\ AcceptorInv'

\* A node does not fall behind what it asked for.
LEMMA AskedGrows ==
  ASSUME TypeOK, TypeOK', Grows, ProposersAdvance,
         NEW n \in Node, NEW s \in Slot, NEW b \in Nat,
         Asked(proposers, maxSlot, n, s, b)
  PROVE  Asked(proposers', maxSlot', n, s, b)
<1>. DEFINE p == proposers[n][s]
            q == proposers'[n][s]
<1>0. Sized /\ Sized'
  BY Sizes, PTL
<1>1. /\ p.ballot \in Nat /\ q.ballot \in Nat
      /\ s \in Nat /\ maxSlot[n] \in Nat /\ maxSlot'[n] \in Nat
      /\ maxSlot[n] <= maxSlot'[n]
  BY <1>0 DEF Sized, Grows
<1>2. s <= maxSlot[n] /\ (p.status # "EMPTY" => b <= p.ballot)
  BY DEF Asked
<1>3. q = p \/ q.status = "EMPTY" \/ Advances(n, s, p, q)
  BY DEF ProposersAdvance
<1>. HIDE DEF p, q
<1>4. q.status # "EMPTY" => b <= q.ballot
  BY <1>1, <1>2, <1>3 DEF Advances
<1>5. s <= maxSlot'[n]
  BY <1>1, <1>2
<1>. QED  BY <1>4, <1>5 DEF Asked, q

\* Messages on their way stay right.
LEMMA MessageGrows ==
  ASSUME TypeOK, TypeOK', Grows, ProposersAdvance, NEW m \in Messages,
         MessageOk(proposals, votes, acceptors, proposers, maxSlot, m)
  PROVE  MessageOk(proposals', votes', acceptors', proposers', maxSlot', m)
<1>1. m.type = "PREPARE" =>
        Asked(proposers', maxSlot', m.from, m.slot, m.ballot)
  BY AskedGrows, AnswerTypes DEF MessageOk, Ballot
<1>2. ASSUME m.type = "PROMISE"
      PROVE  /\ Asked(proposers', maxSlot', m.to, m.slot, m.ballot)
             /\ PromiseOk(proposals', votes', acceptors', m.from, m.slot,
                          m.ballot, m.ack)
  <2>1. m.to \in Node /\ m.from \in Node /\ m.slot \in Slot /\ m.ballot \in Nat
    BY <1>2, AnswerTypes DEF Ballot
  <2>2. /\ Asked(proposers, maxSlot, m.to, m.slot, m.ballot)
        /\ PromiseOk(proposals, votes, acceptors, m.from, m.slot, m.ballot,
                     m.ack)
    BY <1>2 DEF MessageOk
  <2>3. Asked(proposers', maxSlot', m.to, m.slot, m.ballot)
    BY <2>1, <2>2, AskedGrows
  <2>. QED  BY <2>1, <2>2, <2>3, PromiseGrows DEF Ballot
<1>3. m.type = "ACCEPT" =>
        ProposedBy(proposals', m.from, m.slot, m.ballot, m.value)
  BY DEF MessageOk, ProposedBy, Grows
<1>4. m.type = "ACCEPTED" => \E v \in Value :
        /\ ProposedBy(proposals', m.to, m.slot, m.ballot, v)
        /\ m.reply = "yes" => VoteFor(m.from, m.slot, m.ballot, v) \in votes'
  BY DEF MessageOk, ProposedBy, Grows
<1>. QED  BY <1>1, <1>2, <1>3, <1>4 DEF MessageOk

\* One value per ballot, each in its node's own ballot: ProposalInv is kept.
LEMMA ProposalsKeep ==
  ASSUME IdsFit, TypeOK, TypeOK', ProposalInv, Grows, ProposersAdvance,
         NewProposals
  PROVE  ProposalInv'
<1>1. ASSUME NEW x \in proposals'
      PROVE  /\ Drawn(x.ballot, x.node)
             /\ x.slot <= maxSlot'[x.node]
             /\ Below(x.ballot, proposers'[x.node][x.slot])
  <2>. DEFINE n == x.node
              s == x.slot
              p == proposers[n][s]
              q == proposers'[n][s]
  <2>1. /\ n \in Node /\ s \in Slot /\ s \in Nat /\ x.ballot \in Nat
        /\ p.ballot \in Nat /\ q.ballot \in Nat
        /\ maxSlot[n] \in Nat /\ maxSlot'[n] \in Nat
        /\ maxSlot[n] <= maxSlot'[n]
    <3>1. n \in Node /\ s \in Slot /\ x.ballot \in Nat
      BY DEF TypeOK, Proposal, Ballot
    <3>2. Sized /\ Sized'
      BY Sizes, PTL
    <3>. QED  BY <3>1, <3>2 DEF Sized, Grows
  <2>2. CASE x \in proposals
    <3>1. Drawn(x.ballot, n) /\ s <= maxSlot[n] /\ Below(x.ballot, p)
      BY <2>2 DEF ProposalInv
    <3>2. q = p \/ q.status = "EMPTY" \/ Advances(n, s, p, q)
      BY <2>1 DEF ProposersAdvance
    <3>. HIDE DEF p, q, n, s
    <3>3. Below(x.ballot, q)
      BY <2>1, <3>1, <3>2 DEF Below, Advances
    <3>. QED  BY <2>1, <3>1, <3>3 DEF p, q, n, s
  <2>3. CASE x \notin proposals
    BY <2>3 DEF NewProposals, Below
  <2>. QED  BY <2>2, <2>3
<1>2. ASSUME NEW x \in proposals', NEW y \in proposals',
             x.slot = y.slot, x.ballot = y.ballot
      PROVE  x.value = y.value
  <2>1. x.node = y.node
    <3>1. x.node \in Node /\ y.node \in Node /\ x.ballot \in Nat
      BY DEF TypeOK, Proposal, Ballot
    <3>2. Drawn(x.ballot, x.node) /\ Drawn(x.ballot, y.node)
      BY <1>1, <1>2
    <3>. QED  BY <3>1, <3>2, DrawnOnce
  <2>2. CASE x \in proposals /\ y \in proposals
    BY <1>2, <2>2 DEF ProposalInv
  <2>3. CASE x \notin proposals
    BY <1>2, <2>1, <2>3 DEF NewProposals
  <2>4. CASE y \notin proposals
    BY <1>2, <2>1, <2>4 DEF NewProposals
  <2>. QED  BY <2>2, <2>3, <2>4
<1>. QED  BY <1>1, <1>2 DEF ProposalInv

\* A step with such effects keeps the invariant.
LEMMA StepKeeps ==
  ASSUME IdsFit, TypeOK, TypeOK', PaxosInv, PaxosStep
  PROVE  PaxosInv'
<1>. USE DEF PaxosInv, PaxosStep
<1>1. ProposalInv'
  BY ProposalsKeep
<1>2. OpenInv'
  <2>. SUFFICES ASSUME NEW n \in Node, NEW s \in Slot,
                       proposers'[n][s].status # "EMPTY"
       PROVE  /\ s <= maxSlot'[n]
              /\ OpenOk(proposals', votes', acceptors', n, s, proposers'[n][s])
    BY DEF OpenInv
  <2>1. CASE proposers'[n][s] = proposers[n][s]
    <3>1. /\ s <= maxSlot[n] /\ proposers[n][s] \in ProposerType
          /\ OpenOk(proposals, votes, acceptors, n, s, proposers[n][s])
      BY <2>1 DEF OpenInv, TypeOK
    <3>2. OpenOk(proposals', votes', acceptors', n, s, proposers[n][s])
      BY <3>1, OpenGrows
    <3>3. s <= maxSlot'[n]
      BY <3>1 DEF TypeOK, Grows, Slot
    <3>. QED  BY <2>1, <3>2, <3>3
  <2>2. CASE /\ s <= maxSlot'[n]
             /\ OpenOk(proposals', votes', acceptors', n, s, proposers'[n][s])
    BY <2>2
  <2>. QED  BY <2>1, <2>2 DEF ProposersAdvance
<1>3. MessageInv'
  <2>1. ASSUME NEW m \in net'
        PROVE  MessageOk(proposals', votes', acceptors', proposers', maxSlot',
                         m)
    <3>1. CASE m \in net
      <4>1. /\ m \in Messages
            /\ MessageOk(proposals, votes, acceptors, proposers, maxSlot, m)
        BY <3>1 DEF TypeOK, MessageInv
      <4>. QED  BY <4>1, MessageGrows
    <3>2. CASE m \notin net
      BY <3>2 DEF NewMessages
    <3>. QED  BY <3>1, <3>2
  <2>. QED  BY <2>1 DEF MessageInv
<1>4. \A s : ChosenIn(s) \subseteq ChosenIn(s)'
  BY ChosenGrows DEF Grows
<1>5. AnnounceInv'
  <2>1. ASSUME NEW m \in net'  PROVE Announced(m)
    BY DEF NewMessages, AnnounceInv
  <2>. QED  BY <1>4, <2>1 DEF AnnounceInv, Announced
<1>6. SafeInv'
  <2>. SUFFICES ASSUME NEW x \in proposals', ~x.direct
       PROVE  SafeAt(proposals', votes', acceptors', x.slot, x.ballot, x.value)
    BY DEF SafeInv
  <2>1. SafeAt(proposals, votes, acceptors, x.slot, x.ballot, x.value)
    BY DEF SafeInv, NewProposals
  <2>2. x.slot \in Slot /\ x.ballot \in Nat
    BY DEF TypeOK, Proposal, Ballot
  <2>. QED  BY <2>1, <2>2, SafeGrows
<1>7. LearnedIsChosen'
  BY <1>4 DEF LearnedIsChosen, Learns
<1>. QED  BY <1>1, <1>2, <1>3, <1>5, <1>6, <1>7

-----------------------------------------------------------------------------
(* Acceptors *)

\* An acceptor's step: promises are kept, and votes respect them.
AcceptorsAdvance ==
  /\ votes \subseteq votes'
  /\ \A k \in Node, s \in Slot :
       acceptors[k][s].maxProposed <= acceptors'[k][s].maxProposed
  /\ \A w \in votes' \ votes :
       acceptors[w.node][w.slot].maxProposed <= w.ballot

\* What an acceptor votes for becomes the value it holds, in its highest
\* ballot (acceptor.cpp:63-101); that a value with the id held is not stored
\* again makes no difference.
LEMMA OneVoteOk ==
  ASSUME NEW a \in AcceptorType, NEW V \in SUBSET Vote, NEW k \in Node,
         NEW s \in Slot, NEW b \in Nat, NEW v \in Value,
         AcceptorOk(V, k, s, a), Accepts(a, b),
         a.maxValue # NULL /\ a.maxValue.id = v.id => a.maxValue = v
  PROVE  /\ OnAccept(a, b, v).maxProposed = b
         /\ a.maxProposed <= b
         /\ AcceptorOk(V \cup {VoteFor(k, s, b, v)}, k, s, OnAccept(a, b, v))
<1>. DEFINE a2 == OnAccept(a, b, v)
            V2 == V \cup {VoteFor(k, s, b, v)}
<1>1. a2 = [maxProposed |-> b, maxAccepted |-> b,
            maxValue |-> IF a.maxValue.id # v.id THEN v ELSE a.maxValue]
  BY DEF OnAccept
<1>2. v # NULL /\ v.id # NULL.id /\ NULL.id = 0
  BY DEF Value, NULL
<1>3. a2.maxProposed = b /\ a2.maxAccepted = b /\ a2.maxValue = v
  BY <1>1, <1>2
<1>4. a.maxProposed \in Nat /\ a.maxAccepted \in Nat
      /\ a.maxProposed <= b /\ a.maxAccepted <= a.maxProposed
  BY DEF AcceptorType, Ballot, Accepts, AcceptorOk
<1>. HIDE DEF a2
<1>5. ASSUME NEW w \in V2, w.node = k, w.slot = s  PROVE w.ballot <= b
  <2>1. CASE w \in V
    <3>1. w.ballot \in Nat /\ w.ballot <= a.maxAccepted
      BY <1>5, <2>1 DEF Vote, Ballot, AcceptorOk
    <3>. QED  BY <1>4, <3>1
  <2>2. CASE w = VoteFor(k, s, b, v)
    BY <2>2 DEF VoteFor
  <2>. QED  BY <2>1, <2>2
<1>6. AcceptorOk(V2, k, s, a2)
  BY <1>2, <1>3, <1>5 DEF AcceptorOk
<1>. QED  BY <1>3, <1>4, <1>6 DEF a2

\* The other acceptors do not notice.
LEMMA OtherVoteOk ==
  ASSUME NEW a, NEW V, NEW k, NEW s, NEW w,
         w.node # k \/ w.slot # s, AcceptorOk(V, k, s, a)
  PROVE  AcceptorOk(V \cup {w}, k, s, a)
BY DEF AcceptorOk

\* Acceptor k handles an ACCEPT of v in ballot b of slot s.
Votes(k, s, b, v) ==
  /\ votes' = votes \cup VoteOf(k, s, b, v)
  /\ acceptors' = [acceptors EXCEPT ![k][s] = OnAccept(acceptors[k][s], b, v)]

\* Voting keeps what the invariant says of acceptors and votes.
LEMMA VotingKeeps ==
  ASSUME TypeOK, VoteInv, AcceptorInv, NEW k \in Node, NEW s \in Slot,
         NEW b \in Nat, NEW v \in Value,
         \A x \in proposals : x.value.id = v.id => x.value = v,
         proposals \subseteq proposals', ProposedIn(proposals', s, b, v),
         Votes(k, s, b, v)
  PROVE  /\ VoteInv' /\ AcceptorInv' /\ AcceptorsAdvance
         /\ AcceptedOf(acceptors[k][s], b) = "yes" =>
              VoteFor(k, s, b, v) \in votes'
<1>. DEFINE a == acceptors[k][s]
<1>0. Sized
  BY Sizes
<1>1. /\ AcceptorOk(votes, k, s, a)
      /\ a \in AcceptorType /\ a.maxProposed \in Nat
      /\ votes \in SUBSET Vote
  BY <1>0 DEF Sized, AcceptorInv, TypeOK
<1>2. acceptors' =
        [acceptors EXCEPT ![k] = [@ EXCEPT ![s] = OnAccept(a, b, v)]]
  BY DEF Votes
<1>3. /\ acceptors'[k][s] = OnAccept(a, b, v)
      /\ \A j \in Node, t \in Slot : j # k \/ t # s =>
           acceptors'[j][t] = acceptors[j][t]
  <2>1. acceptors \in [Node -> [Slot -> AcceptorType]]
    BY DEF TypeOK
  <2>. HIDE DEF a
  <2>. QED  BY <1>2, <2>1
<1>4. CASE ~Accepts(a, b)
  <2>1. votes' = votes /\ OnAccept(a, b, v) = a
    BY <1>4 DEF Votes, VoteOf, OnAccept
  <2>2. \A j \in Node, t \in Slot : acceptors'[j][t] = acceptors[j][t]
    BY <1>3, <2>1
  <2>3. VoteInv'
    BY <2>1 DEF VoteInv, ProposedIn
  <2>4. AcceptorInv'
    BY <2>1, <2>2 DEF AcceptorInv
  <2>5. AcceptorsAdvance
    BY <1>0, <2>1, <2>2 DEF AcceptorsAdvance, Sized
  <2>6. AcceptedOf(a, b) = "no"
    BY <1>4 DEF AcceptedOf
  <2>. QED  BY <2>3, <2>4, <2>5, <2>6
<1>5. CASE Accepts(a, b)
  <2>. DEFINE w == VoteFor(k, s, b, v)
  <2>1. votes' = votes \cup {w}
    BY <1>5 DEF Votes, VoteOf, VoteFor
  <2>2. /\ w.node = k /\ w.slot = s /\ w.ballot = b /\ w.value = v
    BY DEF VoteFor
  <2>3. a.maxValue # NULL /\ a.maxValue.id = v.id => a.maxValue = v
    <3>. SUFFICES ASSUME a.maxValue # NULL, a.maxValue.id = v.id
         PROVE  a.maxValue = v
      OBVIOUS
    <3>1. VoteFor(k, s, a.maxAccepted, a.maxValue) \in votes
      BY <1>1 DEF AcceptorOk
    <3>2. ProposedIn(proposals, s, a.maxAccepted, a.maxValue)
      BY <3>1 DEF VoteInv, VoteFor
    <3>. QED  BY <3>2 DEF ProposedIn
  <2>4. /\ OnAccept(a, b, v).maxProposed = b /\ a.maxProposed <= b
        /\ AcceptorOk(votes \cup {w}, k, s, OnAccept(a, b, v))
    <3>. HIDE DEF a
    <3>. QED  BY <1>1, <1>5, <2>3, OneVoteOk
  <2>. HIDE DEF w, a
  <2>5. VoteInv'
    BY <2>1, <2>2 DEF VoteInv, ProposedIn
  <2>6. AcceptorInv'
    <3>1. ASSUME NEW j \in Node, NEW t \in Slot
          PROVE  AcceptorOk(votes', j, t, acceptors'[j][t])
      <4>1. CASE j = k /\ t = s
        BY <1>3, <2>1, <2>4, <4>1
      <4>2. CASE j # k \/ t # s
        <5>1. AcceptorOk(votes, j, t, acceptors[j][t])
          BY DEF AcceptorInv
        <5>2. w.node # j \/ w.slot # t
          BY <2>2, <4>2
        <5>. QED  BY <1>3, <2>1, <4>2, <5>1, <5>2, OtherVoteOk
      <4>. QED  BY <4>1, <4>2
    <3>. QED  BY <3>1 DEF AcceptorInv
  <2>7. AcceptorsAdvance
    <3>1. \A j \in Node, t \in Slot :
            acceptors[j][t].maxProposed <= acceptors'[j][t].maxProposed
      BY <1>0, <1>3, <2>4 DEF Sized, a
    <3>2. votes' \ votes \subseteq {w}
      BY <2>1
    <3>3. acceptors[w.node][w.slot].maxProposed <= w.ballot
      BY <2>2, <2>4 DEF a
    <3>. QED  BY <2>1, <3>1, <3>2, <3>3 DEF AcceptorsAdvance
  <2>. QED  BY <2>1, <2>5, <2>6, <2>7 DEF w
<1>. QED  BY <1>4, <1>5

\* Acceptor k handles a PREPARE of ballot b for slot s.
Prepares(k, s, b) ==
  /\ acceptors' = [acceptors EXCEPT ![k][s] = OnPrepare(acceptors[k][s], b)]
  /\ UNCHANGED <<votes, proposals>>

\* Promising keeps it too, and the promise is true: the acceptor has not voted
\* between the ballot it reports and the one it promises
\* (acceptor.cpp:27-57).
LEMMA PromisingKeeps ==
  ASSUME TypeOK, ProposalInv, VoteInv, AcceptorInv,
         NEW k \in Node, NEW s \in Slot, NEW b \in Nat, Prepares(k, s, b)
  PROVE  /\ VoteInv' /\ AcceptorInv' /\ AcceptorsAdvance
         /\ PromiseOk(proposals', votes', acceptors', k, s, b,
                      PromiseOf(acceptors[k][s], b))
<1>. DEFINE a  == acceptors[k][s]
            a2 == OnPrepare(a, b)
            ack == PromiseOf(a, b)
<1>0. Sized
  BY Sizes
<1>1. /\ AcceptorOk(votes, k, s, a)
      /\ a \in AcceptorType /\ a.maxProposed \in Nat /\ a.maxAccepted \in Nat
  BY <1>0 DEF Sized, AcceptorInv
<1>2. acceptors' = [acceptors EXCEPT ![k] = [@ EXCEPT ![s] = a2]]
  BY DEF Prepares
<1>3. /\ acceptors'[k][s] = a2
      /\ \A j \in Node, t \in Slot : j # k \/ t # s =>
           acceptors'[j][t] = acceptors[j][t]
  <2>1. acceptors \in [Node -> [Slot -> AcceptorType]]
    BY DEF TypeOK
  <2>. HIDE DEF a2
  <2>. QED  BY <1>2, <2>1
<1>4. /\ a2.maxAccepted = a.maxAccepted /\ a2.maxValue = a.maxValue
      /\ a.maxProposed <= a2.maxProposed /\ a2.maxProposed \in Nat
      /\ Promises(a, b) => a2.maxProposed = b /\ a.maxProposed < b
  BY <1>1 DEF OnPrepare, Promises, AcceptorType
<1>5. UNCHANGED <<votes, proposals>>
  BY DEF Prepares
<1>6. VoteInv'
  BY <1>5 DEF VoteInv
<1>. HIDE DEF a2
<1>7. AcceptorOk(votes, k, s, a2)
  <2>1. a2.maxAccepted <= a2.maxProposed
    BY <1>1, <1>4 DEF AcceptorOk
  <2>. QED  BY <1>1, <1>4, <2>1 DEF AcceptorOk
<1>8. AcceptorInv'
  BY <1>3, <1>5, <1>7 DEF AcceptorInv
<1>9. AcceptorsAdvance
  BY <1>0, <1>3, <1>4, <1>5 DEF AcceptorsAdvance, Sized
<1>10. PromiseOk(proposals', votes', acceptors', k, s, b, ack)
  <2>. SUFFICES ASSUME ack.reply = "yes"
       PROVE  /\ b <= a2.maxProposed
              /\ Heard(proposals, s, b, ack.maxBallot, ack.maxValue)
              /\ \A w \in votes : w.node = k /\ w.slot = s /\ w.ballot < b =>
                   w.ballot <= ack.maxBallot
    BY <1>3, <1>5 DEF PromiseOk
  <2>1. /\ Promises(a, b) /\ ack.maxBallot = a.maxAccepted
        /\ ack.maxValue = a.maxValue
    BY DEF PromiseOf
  <2>2. b <= a2.maxProposed /\ a.maxAccepted < b
    BY <1>1, <1>4, <2>1 DEF AcceptorOk
  <2>3. a.maxValue # NULL =>
          ProposedIn(proposals, s, a.maxAccepted, a.maxValue)
    BY <1>1 DEF AcceptorOk, VoteInv, VoteFor
  <2>. QED  BY <1>1, <2>1, <2>2, <2>3 DEF Heard, AcceptorOk
<1>. QED  BY <1>6, <1>8, <1>9, <1>10

-----------------------------------------------------------------------------
(* Broadcasts *)

\* others are the proposers of n, some of them perhaps closed.
ClosedOnly(n, others) ==
  /\ others \in [Slot -> ProposerType]
  /\ \A t \in Slot : others[t] = proposers[n][t] \/ others[t].status = "EMPTY"

\* A captain that closes some slots and leaves q in slot s
LEMMA OneSlotAdvances ==
  ASSUME TypeOK, NEW n \in Node, NEW s \in Slot, NEW q, NEW others,
         ClosedOnly(n, others),
         proposers' = [proposers EXCEPT ![n] = [others EXCEPT ![s] = q]],
         s <= maxSlot'[n], Advances(n, s, proposers[n][s], q),
         OpenOk(proposals', votes', acceptors', n, s, q)
  PROVE  ProposersAdvance /\ proposers'[n][s] = q
<1>1. others \in [Slot -> ProposerType]
  BY DEF ClosedOnly
<1>2. \A k \in Node : k # n => proposers'[k] = proposers[k]
  BY DEF TypeOK
<1>3. proposers'[n] = [others EXCEPT ![s] = q]
  BY DEF TypeOK
<1>4. /\ proposers'[n][s] = q
      /\ \A t \in Slot : t # s => proposers'[n][t] = others[t]
  BY <1>1, <1>3
<1>5. ASSUME NEW k \in Node, NEW t \in Slot, k # n \/ t # s
      PROVE  \/ proposers'[k][t] = proposers[k][t]
             \/ proposers'[k][t].status = "EMPTY"
  BY <1>2, <1>4, <1>5 DEF ClosedOnly
<1>. QED  BY <1>4, <1>5 DEF ProposersAdvance

\* Captain n may restart what p0 proposes in slot s.
CanRestart(n, s, p0) ==
  /\ \E x \in proposals : x.value = p0.init
  /\ Drawn(NextBallot(p0.ballot, n), n)
  /\ Heard(proposals, s, NextBallot(p0.ballot, n), p0.maxBallot, p0.maxValue)
  /\ IF proposers[n][s].status = "EMPTY"
       THEN maxSlot[n] < s
       ELSE proposers[n][s].ballot < NextBallot(p0.ballot, n)

\* A restarted proposer that has its own acceptor's answer, in any state in
\* which the answer is true (proposer.cpp:28-51).
LEMMA RestartedOk ==
  ASSUME NEW p0 \in ProposerType, NEW n \in Node, NEW s, NEW ack \in Promise,
         NEW P, NEW V, NEW A, \E x \in P : x.value = p0.init,
         Drawn(NextBallot(p0.ballot, n), n),
         Heard(P, s, NextBallot(p0.ballot, n), p0.maxBallot, p0.maxValue),
         PromiseOk(P, V, A, n, s, NextBallot(p0.ballot, n), ack)
  PROVE  LET q == AddPromise(Restart(p0, n), n, ack)
         IN  /\ q \in ProposerType /\ q.status = "PHASEI"
             /\ q.ballot = NextBallot(p0.ballot, n)
             /\ OpenOk(P, V, A, n, s, q)
<1>. DEFINE r == Restart(p0, n)
            q == AddPromise(r, n, ack)
            b == NextBallot(p0.ballot, n)
<1>1. /\ r \in ProposerType /\ r.init = p0.init /\ r.ballot = b
      /\ r.maxBallot = p0.maxBallot /\ r.maxValue = p0.maxValue
      /\ r.promises = NoProposer.promises
      /\ r.accepteds = NoProposer.accepteds
  <2>1. r \in ProposerType /\ r.init = p0.init
    BY RestartType
  <2>. QED  BY <2>1 DEF Restart, ProposerType
<1>. HIDE DEF r, b
<1>2. /\ q \in ProposerType /\ q.status = "PHASEI" /\ q.init = p0.init
      /\ q.ballot = b /\ q.maxBallot = p0.maxBallot /\ q.maxValue = p0.maxValue
      /\ q.accepteds = r.accepteds
      /\ q.promises = [r.promises EXCEPT ![n] = ack]
  <2>1. q \in ProposerType /\ q.init = p0.init /\ q.status = "PHASEI"
    BY <1>1, AddTypes
  <2>. QED  BY <1>1, <2>1 DEF AddPromise, ProposerType
<1>. HIDE DEF q
<1>3. \A k \in Node : q.accepteds[k] = "none"
  BY <1>1, <1>2 DEF NoProposer
<1>4. \A k \in Node : q.promises[k] = IF k = n THEN ack ELSE NoPromise
  BY <1>1, <1>2 DEF NoProposer
<1>5. \A k \in Node : PromiseOk(P, V, A, k, s, q.ballot, q.promises[k])
  BY <1>2, <1>4 DEF PromiseOk, NoPromise, b
<1>6. OpenOk(P, V, A, n, s, q)
  BY <1>2, <1>3, <1>5 DEF OpenOk, b
<1>. QED  BY <1>2, <1>6 DEF q, r, b

\* The effects of broadcast_msg of a PREPARE, its own answer included
\* (commo.cpp:121-154).
LEMMA PrepareStep ==
  ASSUME TypeOK, TypeOK', PaxosInv, NEW n \in Node, NEW s \in Slot,
         NEW p0 \in ProposerType, CanRestart(n, s, p0),
         NEW others, ClosedOnly(n, others), NEW q, NEW msgs \in SUBSET net,
         BroadcastPrepare(n, s, Restart(p0, n), others, q, msgs),
         \A k \in Node : maxSlot[k] <= maxSlot'[k], s <= maxSlot'[n],
         UNCHANGED <<valueId, tocommit>>, Learns
  PROVE  PaxosStep
<1>. DEFINE r   == Restart(p0, n)
            b   == NextBallot(p0.ballot, n)
            ack == PromiseOf(acceptors[n][s], b)
            z   == AddPromise(r, n, ack)
<1>0. Sized /\ b \in Nat
  BY Sizes, NextBallotType DEF ProposerType, Ballot
<1>1. r.ballot = b
  BY DEF Restart, ProposerType
<1>2. /\ Prepares(n, s, b)
      /\ proposers' = [proposers EXCEPT ![n] = [others EXCEPT ![s] = z]]
      /\ net' = msgs \cup {Prepare(n, m, s, b) : m \in q \ {n}}
      /\ UNCHANGED <<votes, proposals>>
  <2>1. BroadcastPrepare(n, s, r, others, q, msgs)
    OBVIOUS
  <2>. HIDE DEF r, b
  <2>2. /\ acceptors' = [acceptors EXCEPT ![n][s] =
                           OnPrepare(acceptors[n][s], r.ballot)]
        /\ proposers' = [proposers EXCEPT ![n] = [others EXCEPT ![s] =
             AddPromise(r, n, PromiseOf(acceptors[n][s], r.ballot))]]
        /\ net' = msgs \cup {Prepare(n, m, s, r.ballot) : m \in q \ {n}}
        /\ UNCHANGED <<votes, proposals>>
    BY <2>1, Zenon DEF BroadcastPrepare
  <2>. QED  BY <1>1, <2>2, Zenon DEF Prepares
<1>3. ack \in Promise
  BY <1>0, AcceptorTypes DEF Sized, Ballot
<1>. HIDE DEF r, b, ack
<1>4. /\ VoteInv' /\ AcceptorInv' /\ AcceptorsAdvance
      /\ PromiseOk(proposals', votes', acceptors', n, s, b, ack)
  BY <1>0, <1>2, PromisingKeeps DEF PaxosInv, ack
<1>5. Grows
  BY <1>2, <1>4 DEF Grows, AcceptorsAdvance
<1>6. /\ \E x \in proposals' : x.value = p0.init
      /\ Drawn(b, n)
      /\ Heard(proposals', s, b, p0.maxBallot, p0.maxValue)
  BY <1>2 DEF CanRestart, b
<1>7. z \in ProposerType /\ z.status = "PHASEI" /\ z.ballot = b
      /\ OpenOk(proposals', votes', acceptors', n, s, z)
  BY <1>3, <1>4, <1>6, RestartedOk DEF r, b
<1>. HIDE DEF z
<1>8. Advances(n, s, proposers[n][s], z)
  BY <1>7 DEF CanRestart, Advances, b
<1>9. ProposersAdvance /\ proposers'[n][s] = z
  BY <1>2, <1>7, <1>8, OneSlotAdvances
<1>10. NewProposals
  BY <1>2 DEF NewProposals
<1>11. NewMessages
  <2>1. ASSUME NEW m \in net' \ net
        PROVE  /\ MessageOk(proposals', votes', acceptors', proposers',
                            maxSlot', m)
               /\ Announced(m)
    <3>1. /\ m.type = "PREPARE" /\ m.from = n /\ m.slot = s /\ m.ballot = b
      BY <1>2 DEF Prepare
    <3>2. Asked(proposers', maxSlot', n, s, b)
      BY <1>0, <1>7, <1>9 DEF Asked
    <3>. QED  BY <3>1, <3>2 DEF MessageOk, Announced
  <2>. QED  BY <2>1 DEF NewMessages
<1>12. IdInv'
  BY <1>2, SameIds DEF PaxosInv, KnownIn
<1>. QED  BY <1>4, <1>5, <1>9, <1>10, <1>11, <1>12 DEF PaxosStep

\* Captain n may propose the value of p, which is in Phase II, in slot s.
CanPropose(n, s, p) ==
  /\ p.status = "PHASEII" /\ Drawn(p.ballot, n)
  /\ p.init = p.value \/ \E x \in proposals : x.value = p.init
  /\ Heard(proposals, s, p.ballot, p.maxBallot, p.maxValue)
  /\ \A k \in Node :
       /\ PromiseOk(proposals, votes, acceptors, k, s, p.ballot, p.promises[k])
       /\ p.accepteds[k] = "none"
  /\ Advances(n, s, proposers[n][s], p)
  /\ \A y \in proposals : y.node = n /\ y.slot = s => y.ballot # p.ballot
  /\ \/ Promised(p) = {}
     \/ SafeAt(proposals, votes, acceptors, s, p.ballot, p.value)
  /\ \A x \in proposals : x.value.id = p.value.id => x.value = p.value

\* The effects of broadcast_msg of an ACCEPT, its own vote included
\* (commo.cpp:121-154).
LEMMA AcceptStep ==
  ASSUME TypeOK, TypeOK', PaxosInv, NEW n \in Node, NEW s \in Slot,
         NEW p \in ProposerType, p.value \in Value, CanPropose(n, s, p),
         NEW others, ClosedOnly(n, others), NEW q, NEW msgs,
         \A m \in msgs : m \in net \/ m.type = "COMMAND",
         NEW last, NEW lastId,
         last # 0 => \E v \in ChosenIn(last) : v.id = lastId,
         BroadcastAccept(n, s, p, others, q, last, lastId, msgs),
         \A k \in Node : maxSlot[k] <= maxSlot'[k], s <= maxSlot'[n],
         IdInv', Learns
  PROVE  PaxosStep
<1>. DEFINE b == p.ballot
            v == p.value
            r == AcceptedOf(acceptors[n][s], b)
            z == AddAccepted(p, n, r)
            x == [node |-> n, slot |-> s, ballot |-> b, value |-> v,
                  direct |-> Promised(p) = {}]
<1>0. b \in Nat /\ r \in Answer
  BY DEF ProposerType, Ballot, AcceptedOf, Answer
<1>1. /\ Votes(n, s, b, v)
      /\ proposers' = [proposers EXCEPT ![n] = [others EXCEPT ![s] = z]]
      /\ net' = msgs \cup {Accept(n, m, s, b, v, last, lastId) : m \in q \ {n}}
      /\ proposals' = proposals \cup {x}
  BY DEF BroadcastAccept, Votes
<1>2. /\ x.node = n /\ x.slot = s /\ x.ballot = b /\ x.value = v
      /\ x.direct = (Promised(p) = {})
  OBVIOUS
<1>3. /\ z \in ProposerType /\ z.status = "PHASEII" /\ z.ballot = b
      /\ z.value = v /\ z.init = p.init
      /\ z.maxBallot = p.maxBallot /\ z.maxValue = p.maxValue
      /\ z.promises = p.promises
      /\ z.accepteds = [p.accepteds EXCEPT ![n] = r]
  <2>1. /\ z \in ProposerType /\ z.init = p.init /\ z.status = p.status
        /\ z.value = v
    BY <1>0, AddTypes
  <2>2. p.status = "PHASEII"
    BY DEF CanPropose
  <2>. QED  BY <2>1, <2>2 DEF AddAccepted, ProposerType
<1>. HIDE DEF r, z, x
<1>4. ProposedIn(proposals', s, b, v) /\ ProposedBy(proposals', n, s, b, v)
  BY <1>1, <1>2 DEF ProposedIn, ProposedBy
<1>5. /\ VoteInv' /\ AcceptorInv' /\ AcceptorsAdvance
      /\ r = "yes" => VoteFor(n, s, b, v) \in votes'
  <2>1. \A y \in proposals : y.value.id = v.id => y.value = v
    BY DEF CanPropose
  <2>2. proposals \subseteq proposals'
    BY <1>1
  <2>. HIDE DEF b, v
  <2>. QED  BY <1>0, <1>1, <1>4, <2>1, <2>2, VotingKeeps DEF PaxosInv, r, v
<1>6. Grows
  BY <1>1, <1>5 DEF Grows, AcceptorsAdvance
<1>7. OpenOk(proposals', votes', acceptors', n, s, z)
  <2>1. /\ Drawn(b, n)
        /\ p.init = v \/ \E y \in proposals : y.value = p.init
        /\ Heard(proposals, s, b, p.maxBallot, p.maxValue)
        /\ \A k \in Node :
             /\ PromiseOk(proposals, votes, acceptors, k, s, b, p.promises[k])
             /\ p.accepteds[k] = "none"
    BY DEF CanPropose
  <2>2. \E y \in proposals' : y.value = p.init
    BY <1>1, <1>2, <2>1
  <2>3. Heard(proposals', s, b, p.maxBallot, p.maxValue)
    BY <1>6, <2>1, HeardGrows
  <2>4. \A k \in Node :
          PromiseOk(proposals', votes', acceptors', k, s, b, p.promises[k])
    BY <1>0, <1>6, <2>1, PromiseGrows DEF Ballot
  <2>5. \A k \in Node :
          z.accepteds[k] = "yes" => VoteFor(k, s, b, v) \in votes'
    <3>1. p.accepteds \in [Node -> Answer]
      BY DEF ProposerType
    <3>2. \A k \in Node : z.accepteds[k] = IF k = n THEN r ELSE "none"
      BY <1>3, <2>1, <3>1
    <3>. QED  BY <1>5, <3>2
  <2>. HIDE DEF b, v
  <2>. QED  BY <1>3, <1>4, <2>1, <2>2, <2>3, <2>4, <2>5 DEF OpenOk
<1>8. Advances(n, s, proposers[n][s], z)
  BY <1>3 DEF CanPropose, Advances
<1>9. ProposersAdvance /\ proposers'[n][s] = z
  BY <1>1, <1>7, <1>8, OneSlotAdvances
<1>10. NewProposals
  <2>1. \A y \in proposals' \ proposals : y = x
    BY <1>1
  <2>2. /\ Drawn(x.ballot, x.node)
        /\ \A y \in proposals :
             y.node = x.node /\ y.slot = x.slot => y.ballot # x.ballot
        /\ x.direct \/ SafeAt(proposals, votes, acceptors, x.slot, x.ballot,
                              x.value)
    BY <1>2 DEF CanPropose
  <2>3. /\ x.slot <= maxSlot'[x.node]
        /\ proposers'[x.node][x.slot].status = "PHASEII"
        /\ proposers'[x.node][x.slot].ballot = x.ballot
    BY <1>2, <1>3, <1>9
  <2>. QED  BY <2>1, <2>2, <2>3 DEF NewProposals
<1>11. NewMessages
  <2>1. ASSUME NEW m \in net' \ net
        PROVE  /\ MessageOk(proposals', votes', acceptors', proposers',
                            maxSlot', m)
               /\ Announced(m)
    <3>1. CASE m \in msgs
      BY <3>1 DEF MessageOk, Announced
    <3>2. CASE m \notin msgs
      <4>1. /\ m.type = "ACCEPT" /\ m.from = n /\ m.slot = s /\ m.ballot = b
            /\ m.value = v /\ m.lastSlot = last /\ m.lastValue = lastId
        BY <1>1, <3>2 DEF Accept
      <4>2. MessageOk(proposals', votes', acceptors', proposers', maxSlot', m)
        BY <1>4, <4>1 DEF MessageOk
      <4>3. Announced(m)
        BY <4>1 DEF Announced
      <4>. QED  BY <4>2, <4>3
    <3>. QED  BY <3>1, <3>2
  <2>. QED  BY <2>1 DEF NewMessages
<1>. QED  BY <1>5, <1>6, <1>9, <1>10, <1>11 DEF PaxosStep

-----------------------------------------------------------------------------
(* Client writes *)

\* A proposer that skips Phase I has promises of nobody, and the node's first
\* ballot (captain.cpp:201-203).
LEMMA SkippingProposer ==
  ASSUME NEW v \in Value, NEW c \in Request \cup {NoRequest}, NEW n \in Node
  PROVE  LET p == Skip(NewProposer(v, c), n)
         IN  /\ p \in ProposerType /\ p.status = "PHASEII"
             /\ p.value = v /\ p.init = v
             /\ Drawn(p.ballot, n) /\ p.ballot \in Nat /\ p.ballot > 0
             /\ p.maxBallot = 0 /\ p.maxValue = NULL
             /\ \A k \in Node : /\ p.promises[k].reply = "none"
                                /\ p.accepteds[k] = "none"
             /\ Promised(p) = {}
<1>. DEFINE p0 == NewProposer(v, c)
            p  == Skip(p0, n)
<1>1. /\ p0 \in ProposerType /\ p0.init = v /\ p0.ballot = 0
      /\ p0.maxBallot = 0 /\ p0.maxValue = NULL
      /\ p0.promises = [m \in Node |-> NoPromise]
      /\ p0.accepteds = [m \in Node |-> "none"]
  BY NewProposerType DEF NewProposer, NoProposer
<1>. HIDE DEF p0
<1>2. /\ p \in ProposerType /\ p.status = "PHASEII"
      /\ p.value = v /\ p.init = v
      /\ p.ballot = NextBallot(0, n)
      /\ p.maxBallot = 0 /\ p.maxValue = NULL
      /\ p.promises = p0.promises /\ p.accepteds = p0.accepteds
  <2>1. /\ p \in ProposerType /\ p.status = "PHASEII"
        /\ p.value = v /\ p.init = v
    BY <1>1, SkipType
  <2>. QED  BY <1>1, <2>1 DEF Skip, ProposerType
<1>. HIDE DEF p
<1>3. Drawn(p.ballot, n) /\ p.ballot \in Nat /\ p.ballot > 0
  <2>1. Drawn(n + Radix, n) /\ p.ballot = n + Radix
    BY <1>2, NextDrawn
  <2>. QED  BY <2>1 DEF Node, Radix
<1>4. \A k \in Node : p.promises[k].reply = "none" /\ p.accepteds[k] = "none"
  BY <1>1, <1>2 DEF NoPromise
<1>. QED  BY <1>2, <1>3, <1>4 DEF Promised, p, p0

\* Opening a slot: the node has proposed nothing there (captain.cpp:196-219).
LEMMA OpeningStep ==
  ASSUME TypeOK, TypeOK', PaxosInv, NEW n \in Node, NEW e \in Entry,
         NEW ch, \A t \in Slot : ch[t] # NULL => ch[t] \in ChosenIn(t),
         NEW others, ClosedOnly(n, others), NEW q, NEW msgs,
         \A m \in msgs : m \in net \/ m.type = "COMMAND",
         OpenSlot(n, e, ch, others, q, msgs),
         \A x \in proposals : x.value.id = e.value.id => x.value = e.value,
         IdInv', Learns
  PROVE  PaxosStep
<1>. DEFINE s    == maxSlot[n] + 1
            next == lastSlot[n] + 1
            p    == Skip(NewProposer(e.value, e.client), n)
<1>0. Sized
  BY Sizes
<1>1. s \in Slot /\ maxSlot' = [maxSlot EXCEPT ![n] = s]
  BY DEF OpenSlot
<1>2. /\ \A k \in Node : maxSlot[k] <= maxSlot'[k]
      /\ s <= maxSlot'[n] /\ maxSlot[n] < s
  <2>1. /\ maxSlot \in [Node -> 0 .. MaxSlot]
        /\ \A k \in Node : maxSlot[k] \in Nat
    BY <1>0 DEF TypeOK, Sized
  <2>. QED  BY <1>1, <2>1
<1>3. e.value \in Value /\ e.client \in Request \cup {NoRequest}
  BY DEF Entry
<1>4. /\ p \in ProposerType /\ p.status = "PHASEII"
      /\ p.value = e.value /\ p.init = e.value
      /\ Drawn(p.ballot, n) /\ p.ballot \in Nat /\ p.ballot > 0
      /\ p.maxBallot = 0 /\ p.maxValue = NULL
      /\ \A k \in Node : /\ p.promises[k].reply = "none"
                         /\ p.accepteds[k] = "none"
      /\ Promised(p) = {}
  BY <1>3, SkippingProposer
<1>. HIDE DEF p
<1>5. CanPropose(n, s, p)
  <2>1. Heard(proposals, s, p.ballot, p.maxBallot, p.maxValue)
    BY <1>4 DEF Heard
  <2>2. \A k \in Node :
          /\ PromiseOk(proposals, votes, acceptors, k, s, p.ballot,
                       p.promises[k])
          /\ p.accepteds[k] = "none"
    BY <1>4 DEF PromiseOk
  <2>3. ~(s <= maxSlot[n])
    BY <1>0, <1>1, <1>2 DEF Sized
  <2>4. Advances(n, s, proposers[n][s], p)
    BY <1>1, <1>2, <2>3 DEF PaxosInv, OpenInv, Advances
  <2>5. \A y \in proposals : y.node = n => y.slot # s
    BY <2>3 DEF PaxosInv, ProposalInv
  <2>. QED  BY <1>4, <2>1, <2>2, <2>4, <2>5 DEF CanPropose
<1>6. CASE next \in Slot /\ ch[next] # NULL
  <2>1. BroadcastAccept(n, s, p, others, q, next, ch[next].id, msgs)
    BY <1>6 DEF OpenSlot, p
  <2>2. \E v \in ChosenIn(next) : v.id = ch[next].id
    BY <1>6
  <2>. HIDE DEF s, next
  <2>. QED  BY <1>1, <1>2, <1>3, <1>4, <1>5, <2>1, <2>2, AcceptStep
<1>7. CASE ~(next \in Slot /\ ch[next] # NULL)
  <2>1. BroadcastAccept(n, s, p, others, q, 0, 0, msgs)
    BY <1>7 DEF OpenSlot, p
  <2>. HIDE DEF s, next
  <2>. QED  BY <1>1, <1>2, <1>3, <1>4, <1>5, <2>1, AcceptStep
<1>. QED  BY <1>6, <1>7

\* What opening a slot proposes
LEMMA OpeningProposes ==
  ASSUME NEW n \in Node, NEW e \in Entry, NEW ch, NEW others, NEW q, NEW msgs,
         OpenSlot(n, e, ch, others, q, msgs)
  PROVE  \E x : x.value = e.value /\ proposals' = proposals \cup {x}
<1>. DEFINE p == Skip(NewProposer(e.value, e.client), n)
            x == [node |-> n, slot |-> maxSlot[n] + 1, ballot |-> p.ballot,
                  value |-> p.value, direct |-> Promised(p) = {}]
<1>1. p.value = e.value
  BY SkippingProposer DEF Entry
<1>2. proposals' = proposals \cup {x}
  BY DEF OpenSlot, BroadcastAccept
<1>3. x.value = p.value
  OBVIOUS
<1>. QED  BY <1>1, <1>2, <1>3

\* A step that leaves the acceptors and the proposers alone
LEMMA QuietStep ==
  ASSUME TypeOK, PaxosInv,
         UNCHANGED <<acceptors, proposers, votes, proposals, maxSlot>>,
         \A m \in net' \ net :
           /\ MessageOk(proposals, votes, acceptors, proposers, maxSlot, m)
           /\ Announced(m),
         IdInv', Learns
  PROVE  PaxosStep
<1>1. Grows
  <2>1. Sized
    BY Sizes
  <2>. QED  BY <2>1 DEF Grows, Sized
<1>2. ProposersAdvance /\ NewProposals /\ NewMessages
  BY DEF ProposersAdvance, NewProposals, NewMessages
<1>3. VoteInv' /\ AcceptorInv'
  BY DEF PaxosInv, VoteInv, AcceptorInv
<1>. QED  BY <1>1, <1>2, <1>3 DEF PaxosStep

\* A step that queues values, or proposes one, knows no others than before
\* and the one it was given.
LEMMA KnownGrows ==
  ASSUME TypeOK, NEW n \in Node, NEW v, NEW Q,
         tocommit' = [tocommit EXCEPT ![n] = Q],
         QueueValues(Q) \subseteq KnownIn(proposals, tocommit) \cup {v},
         \/ UNCHANGED proposals
         \/ \E x : /\ x.value \in KnownIn(proposals, tocommit) \cup {v}
                  /\ proposals' = proposals \cup {x}
  PROVE  KnownIn(proposals, tocommit)'
           \subseteq KnownIn(proposals, tocommit) \cup {v}
<1>. DEFINE K == KnownIn(proposals, tocommit)
<1>1. tocommit'[n] = Q /\ \A k \in Node : k # n => tocommit'[k] = tocommit[k]
  BY DEF TypeOK
<1>2. ASSUME NEW k \in Node
      PROVE  QueueValues(tocommit'[k]) \subseteq K \cup {v}
  <2>1. CASE k = n
    BY <1>1, <2>1
  <2>2. CASE k # n
    BY <1>1, <2>2 DEF KnownIn
  <2>. QED  BY <2>1, <2>2
<1>3. ASSUME NEW x \in proposals'  PROVE x.value \in K \cup {v}
  <2>1. CASE x \in proposals
    BY <2>1 DEF KnownIn
  <2>2. CASE x \notin proposals
    BY <2>2
  <2>. QED  BY <2>1, <2>2
<1>. QED  BY <1>2, <1>3 DEF KnownIn

\* commit: the write waits, or the oldest one is proposed
\* (captain.cpp:162-221).
LEMMA AdmitStep ==
  ASSUME IdsFit, TypeOK, TypeOK', PaxosInv,
         NEW n \in WriteNode, NEW r \in Request,
         NEW q, NEW msgs, \A m \in msgs : m \in net \/ m.type = "COMMAND",
         Receive(n, r), Admit(n, EntryFor(n, r), q, msgs)
  PROVE  PaxosStep
<1>. DEFINE e     == EntryFor(n, r)
            queue == Append(tocommit[n], e)
            v     == e.value
            K     == KnownIn(proposals, tocommit)
<1>1. n \in Node /\ e \in Entry /\ UNCHANGED chosen
  BY ReceiveTypes
<1>2. v.id = valueId[n] + Radix /\ valueId' = [valueId EXCEPT ![n] = @ + Radix]
  BY DEF EntryFor, Receive
<1>3. /\ tocommit \in [Node -> Seq(Entry)] /\ tocommit[n] \in Seq(Entry)
      /\ queue \in Seq(Entry) /\ queue # <<>>
      /\ Head(queue) \in Entry
  <2>1. tocommit \in [Node -> Seq(Entry)] /\ tocommit[n] \in Seq(Entry)
    BY <1>1 DEF TypeOK
  <2>. HIDE DEF e
  <2>. QED  BY <1>1, <2>1, AppendProperties, HeadTailProperties
<1>4. /\ QueueValues(queue) \subseteq QueueValues(tocommit[n]) \cup {v}
      /\ Head(queue).value \in QueueValues(queue)
      /\ QueueValues(Tail(queue)) \subseteq QueueValues(queue)
  <2>1. QueueValues(queue) \subseteq QueueValues(tocommit[n]) \cup {v}
    BY <1>1, <1>3, QueueKnown
  <2>. HIDE DEF queue
  <2>. QED  BY <1>3, <2>1, QueueKnown
<1>5. Learns
  BY <1>1 DEF Learns
<1>6. \A Q : QueueValues(Q) \subseteq QueueValues(queue) =>
               QueueValues(Q) \subseteq K \cup {v}
  <2>1. QueueValues(tocommit[n]) \subseteq K
    BY <1>1 DEF KnownIn
  <2>. HIDE DEF queue, v, K
  <2>. QED  BY <1>4, <2>1
<1>7. Head(queue).value \in K \cup {v}
  <2>. HIDE DEF queue, v, K
  <2>. QED  BY <1>4, <1>6
<1>8. KnownIn(proposals, tocommit)' \subseteq K \cup {v} => IdInv'
  BY <1>1, <1>2, NewId DEF PaxosInv
<1>. HIDE DEF queue, v, K
<1>9. CASE /\ tocommit' = [tocommit EXCEPT ![n] = queue]
           /\ net' = msgs
           /\ UNCHANGED <<paxosVars, maxSlot, lastSlot>>
  <2>1. IdInv'
    <3>1. KnownIn(proposals, tocommit)' \subseteq K \cup {v}
      BY <1>1, <1>6, <1>9, KnownGrows DEF paxosVars, K
    <3>. QED  BY <1>8, <3>1
  <2>2. \A m \in net' \ net : m.type = "COMMAND"
    BY <1>9
  <2>3. \A m \in net' \ net :
          /\ MessageOk(proposals, votes, acceptors, proposers, maxSlot, m)
          /\ Announced(m)
    BY <2>2 DEF MessageOk, Announced
  <2>. QED  BY <1>5, <1>9, <2>1, <2>3, QuietStep DEF paxosVars
<1>10. CASE /\ tocommit' = [tocommit EXCEPT ![n] = Tail(queue)]
           /\ OpenSlot(n, Head(queue), chosen[n], proposers[n], q, msgs)
  <2>1. PICK x : x.value = Head(queue).value /\ proposals' = proposals \cup {x}
    BY <1>1, <1>3, <1>10, OpeningProposes
  <2>2. IdInv'
    <3>1. QueueValues(Tail(queue)) \subseteq K \cup {v}
      BY <1>4, <1>6
    <3>2. KnownIn(proposals, tocommit)' \subseteq K \cup {v}
      BY <1>1, <1>7, <1>10, <2>1, <3>1, KnownGrows DEF K
    <3>. QED  BY <1>8, <3>2
  <2>3. \A y \in proposals : y.value.id = Head(queue).value.id =>
                               y.value = Head(queue).value
    <3>1. \A y \in proposals' : y.value \in KnownIn(proposals, tocommit)'
      BY DEF KnownIn
    <3>2. \A y, z \in proposals' : y.value.id = z.value.id => y.value = z.value
      BY <2>2, <3>1 DEF IdInv
    <3>. QED  BY <2>1, <3>2
  <2>4. ClosedOnly(n, proposers[n])
    BY <1>1 DEF ClosedOnly, TypeOK
  <2>5. \A t \in Slot : chosen[n][t] # NULL => chosen[n][t] \in ChosenIn(t)
    BY <1>1 DEF PaxosInv, LearnedIsChosen
  <2>. QED  BY <1>1, <1>3, <1>5, <1>10, <2>2, <2>3, <2>4, <2>5, OpeningStep
<1>. QED  BY <1>9, <1>10 DEF Admit, queue

-----------------------------------------------------------------------------
(* PREPARE and ACCEPT *)

\* A step of an acceptor: it may put an answer on its way, and learn.
LEMMA AcceptorStep ==
  ASSUME TypeOK, PaxosInv, AcceptorsAdvance, VoteInv', AcceptorInv',
         UNCHANGED <<proposers, proposals, maxSlot, valueId, tocommit>>,
         NewMessages, Learns
  PROVE  PaxosStep
<1>1. Grows
  <2>1. Sized
    BY Sizes
  <2>. QED  BY <2>1 DEF Grows, AcceptorsAdvance, Sized
<1>2. ProposersAdvance /\ NewProposals
  BY DEF ProposersAdvance, NewProposals
<1>3. IdInv'
  BY SameIds DEF PaxosInv, KnownIn
<1>. QED  BY <1>1, <1>2, <1>3 DEF PaxosStep

\* The handler of PREPARE answers with a true promise (captain.cpp:248-271).
LEMMA PrepareHandled ==
  ASSUME TypeOK, PaxosInv, NEW m \in net, HandlePrepare(m)
  PROVE  PaxosStep
<1>. DEFINE n   == m.to
            s   == m.slot
            b   == m.ballot
            ack == PromiseOf(acceptors[n][s], b)
            a   == PromiseTo(m, ack)
<1>1. /\ m.type = "PREPARE"
      /\ n \in Node /\ m.from \in Node /\ s \in Slot /\ b \in Nat
  BY AnswerTypes DEF TypeOK, HandlePrepare, Arrives, Ballot
<1>2. /\ Prepares(n, s, b)
      /\ net' = (net \ {m}) \cup {a}
      /\ UNCHANGED <<nodeVars, proposers, votes, proposals, chosen>>
  BY DEF HandlePrepare, Prepares
<1>. HIDE DEF ack
<1>3. /\ VoteInv' /\ AcceptorInv' /\ AcceptorsAdvance
      /\ PromiseOk(proposals', votes', acceptors', n, s, b, ack)
  BY <1>1, <1>2, PromisingKeeps DEF PaxosInv, ack
<1>4. Asked(proposers', maxSlot', m.from, s, b)
  <2>1. Asked(proposers, maxSlot, m.from, s, b)
    BY <1>1 DEF PaxosInv, MessageInv, MessageOk
  <2>. QED  BY <1>2, <2>1 DEF Asked, nodeVars
<1>5. /\ a.type = "PROMISE" /\ a.from = n /\ a.to = m.from
      /\ a.slot = s /\ a.ballot = b /\ a.ack = ack
  BY DEF PromiseTo
<1>. HIDE DEF a
<1>6. NewMessages
  <2>1. net' \ net \subseteq {a}
    BY <1>2
  <2>2. /\ MessageOk(proposals', votes', acceptors', proposers', maxSlot', a)
        /\ Announced(a)
    BY <1>3, <1>4, <1>5 DEF MessageOk, Announced
  <2>. QED  BY <2>1, <2>2 DEF NewMessages
<1>7. Learns
  BY <1>2 DEF Learns
<1>. QED  BY <1>2, <1>3, <1>6, <1>7, AcceptorStep DEF nodeVars

\* The value an acceptor holds, if it has the id announced, is the one that
\* was chosen (captain.cpp:363-384).
LEMMA LearningStep ==
  ASSUME TypeOK, PaxosInv, VoteInv', AcceptorInv', UNCHANGED proposals,
         NEW m \in net, m.type = "ACCEPT", HoldsLast(m)
  PROVE  /\ m.lastSlot \in Slot
         /\ acceptors'[m.to][m.lastSlot].maxValue \in ChosenIn(m.lastSlot)
<1>. DEFINE t == m.lastSlot
            h == acceptors'[m.to][t].maxValue
            a == acceptors'[m.to][t].maxAccepted
<1>1. t # 0 /\ h # NULL /\ h.id = m.lastValue
  BY DEF HoldsLast
<1>2. t \in Slot /\ m.to \in Node
  BY <1>1, AnswerTypes, MessageAssumption DEF TypeOK, Slot
<1>3. PICK v \in ChosenIn(t) : v.id = m.lastValue
  BY <1>1 DEF PaxosInv, AnnounceInv, Announced
<1>4. \E x \in proposals : x.value = v
  <2>1. PICK w \in votes : w.value = v
    BY <1>3 DEF ChosenIn
  <2>. QED  BY <2>1 DEF PaxosInv, VoteInv, ProposedIn
<1>5. \E x \in proposals : x.value = h
  <2>1. VoteFor(m.to, t, a, h) \in votes'
    BY <1>1, <1>2 DEF AcceptorInv, AcceptorOk
  <2>2. ProposedIn(proposals', t, a, h)
    BY <2>1 DEF VoteInv, VoteFor
  <2>. QED  BY <2>2 DEF ProposedIn
<1>6. h = v
  BY <1>1, <1>3, <1>4, <1>5 DEF PaxosInv, IdInv, KnownIn
<1>. QED  BY <1>2, <1>3, <1>6

\* What a captain learns: one slot, whose decision is v.
LEMMA LearnsOne ==
  ASSUME TypeOK, NEW n \in Node, NEW s \in Slot, NEW v \in ChosenIn(s),
         chosen' = [chosen EXCEPT ![n] = AddChosen(@, s, v)]
  PROVE  Learns
<1>1. chosen \in [Node -> [Slot -> Value \cup {NULL}]]
  BY DEF TypeOK
<1>2. /\ \A k \in Node : k # n => chosen'[k] = chosen[k]
      /\ chosen'[n] = AddChosen(chosen[n], s, v)
  BY <1>1
<1>3. \A t \in Slot : \/ chosen'[n][t] = chosen[n][t]
                      \/ t = s /\ chosen'[n][t] = v
  BY <1>1, <1>2 DEF AddChosen
<1>. QED  BY <1>2, <1>3 DEF Learns

\* The handler of ACCEPT answers with what it did, and learns only what was
\* chosen (captain.cpp:341-388).
LEMMA AcceptHandled ==
  ASSUME TypeOK, PaxosInv, NEW m \in net, HandleAccept(m)
  PROVE  PaxosStep
<1>. DEFINE n == m.to
            s == m.slot
            b == m.ballot
            r == AcceptedOf(acceptors[n][s], b)
            a == AcceptedTo(m, r)
<1>1. /\ m.type = "ACCEPT" /\ n \in Node /\ m.from \in Node
      /\ s \in Slot /\ b \in Nat /\ m.value \in Value
  BY AnswerTypes DEF TypeOK, HandleAccept, AcceptAtSlot, Arrives, Ballot
<1>2. /\ Votes(n, s, b, m.value)
      /\ UNCHANGED <<nodeVars, proposers, proposals>>
  BY DEF HandleAccept, AcceptAtSlot, Votes
<1>3. ProposedBy(proposals, m.from, s, b, m.value)
  BY <1>1 DEF PaxosInv, MessageInv, MessageOk
<1>4. /\ ProposedIn(proposals', s, b, m.value)
      /\ \A x \in proposals : x.value.id = m.value.id => x.value = m.value
  <2>1. \E y \in proposals : y.value = m.value /\ y.slot = s /\ y.ballot = b
    BY <1>3 DEF ProposedBy
  <2>2. \A x, y \in proposals : x.value.id = y.value.id => x.value = y.value
    BY DEF PaxosInv, IdInv, KnownIn
  <2>. QED  BY <1>2, <2>1, <2>2 DEF ProposedIn
<1>5. /\ VoteInv' /\ AcceptorInv' /\ AcceptorsAdvance
      /\ r = "yes" => VoteFor(n, s, b, m.value) \in votes'
  <2>. HIDE DEF r
  <2>. QED  BY <1>1, <1>2, <1>4, VotingKeeps DEF PaxosInv, r
<1>6. /\ a.type = "ACCEPTED" /\ a.from = n /\ a.to = m.from
      /\ a.slot = s /\ a.ballot = b /\ a.reply = r
  BY DEF AcceptedTo
<1>7. net' \ net \subseteq {a}
  BY DEF HandleAccept, ReplyAccepted
<1>. HIDE DEF a, r
<1>8. NewMessages
  <2>1. ProposedBy(proposals', m.from, s, b, m.value)
    BY <1>2, <1>3
  <2>2. /\ MessageOk(proposals', votes', acceptors', proposers', maxSlot', a)
        /\ Announced(a)
    BY <1>1, <1>5, <1>6, <2>1 DEF MessageOk, Announced
  <2>. QED  BY <1>7, <2>2 DEF NewMessages
<1>9. Learns
  <2>1. CASE UNCHANGED chosen
    BY <2>1 DEF Learns
  <2>2. CASE /\ HoldsLast(m)
             /\ chosen' = [chosen EXCEPT ![n] = AddChosen(@, m.lastSlot,
                             acceptors'[n][m.lastSlot].maxValue)]
    <3>1. /\ m.lastSlot \in Slot
          /\ acceptors'[n][m.lastSlot].maxValue \in ChosenIn(m.lastSlot)
      BY <1>1, <1>2, <1>5, <2>2, LearningStep
    <3>. QED  BY <1>1, <2>2, <3>1, LearnsOne
  <2>. QED  BY <2>1, <2>2 DEF HandleAccept
<1>. QED  BY <1>2, <1>5, <1>8, <1>9, AcceptorStep DEF nodeVars

-----------------------------------------------------------------------------
(* PROMISE *)

\* A step of one captain that changes one proposer, or closes it, and
\* proposes nothing
LEMMA ProposerStep ==
  ASSUME TypeOK, PaxosInv, NEW n \in Node, NEW s \in Slot, NEW q,
         proposers' = [proposers EXCEPT ![n] = [@ EXCEPT ![s] = q]],
         q.status = "EMPTY" \/ /\ s <= maxSlot[n]
                               /\ Advances(n, s, proposers[n][s], q)
                               /\ OpenOk(proposals, votes, acceptors, n, s, q),
         UNCHANGED <<acceptors, votes, proposals, maxSlot, valueId, tocommit>>,
         net' \subseteq net, Learns
  PROVE  PaxosStep
<1>1. Grows
  <2>1. Sized
    BY Sizes
  <2>. QED  BY <2>1 DEF Grows, Sized
<1>2. ASSUME NEW k \in Node, NEW t \in Slot
      PROVE  proposers'[k][t] = IF k = n /\ t = s THEN q ELSE proposers[k][t]
  BY DEF TypeOK
<1>3. ProposersAdvance
  BY <1>2 DEF ProposersAdvance
<1>4. NewProposals /\ NewMessages
  BY DEF NewProposals, NewMessages
<1>5. VoteInv' /\ AcceptorInv'
  BY DEF PaxosInv, VoteInv, AcceptorInv
<1>6. IdInv'
  BY SameIds DEF PaxosInv, KnownIn
<1>. QED  BY <1>1, <1>3, <1>4, <1>5, <1>6 DEF PaxosStep

\* A late promise changes nothing but, perhaps, the status
\* (captain.cpp:284-297).
LEMMA PromiseIgnored ==
  ASSUME TypeOK, PaxosInv, NEW m \in net, IgnorePromise(m)
  PROVE  PaxosStep
<1>. DEFINE n == m.to
            s == m.slot
            p == proposers[n][s]
            q == [p EXCEPT !.status = IF @ = "INIT" THEN "PHASEI" ELSE @]
<1>1. n \in Node /\ s \in Slot
  BY AnswerTypes DEF TypeOK, IgnorePromise, Arrives
<1>2. /\ p \in ProposerType
      /\ UNCHANGED <<nodeVars, acceptors, votes, proposals, chosen>>
      /\ net' = net \ {m}
      /\ proposers' = [proposers EXCEPT ![n] = [@ EXCEPT ![s] = q]]
  BY <1>1 DEF TypeOK, IgnorePromise
<1>3. /\ p.status \in {"EMPTY", "INIT", "PHASEI", "PHASEII"}
      /\ q.status = IF p.status = "INIT" THEN "PHASEI" ELSE p.status
      /\ q.ballot = p.ballot /\ q.init = p.init /\ q.value = p.value
      /\ q.maxBallot = p.maxBallot /\ q.maxValue = p.maxValue
      /\ q.promises = p.promises /\ q.accepteds = p.accepteds
  BY <1>2 DEF ProposerType
<1>. HIDE DEF q
<1>4. p.status # "EMPTY" => /\ s <= maxSlot[n]
                            /\ OpenOk(proposals, votes, acceptors, n, s, p)
  BY <1>1 DEF PaxosInv, OpenInv
<1>. HIDE DEF p
<1>5. p.status # "EMPTY" => OpenOk(proposals, votes, acceptors, n, s, q)
  BY <1>3, <1>4 DEF OpenOk
<1>6. p.status # "EMPTY" => Advances(n, s, p, q)
  BY <1>3 DEF Advances
<1>7. Learns
  BY <1>2 DEF Learns
<1>. QED  BY <1>1, <1>2, <1>3, <1>4, <1>5, <1>6, <1>7, ProposerStep
          DEF nodeVars, p

\* A promise that is counted was asked for in the proposer's ballot
\* (captain.cpp:279-292): no promise is ahead of the proposer.
LEMMA PromiseCounted ==
  ASSUME TypeOK, PaxosInv, NEW m \in net, m.type = "PROMISE",
         proposers[m.to][m.slot].status \in {"INIT", "PHASEI"},
         m.ballot >= proposers[m.to][m.slot].ballot
  PROVE  LET p  == proposers[m.to][m.slot]
             p2 == AddPromise(p, m.from, m.ack)
         IN  /\ p2 \in ProposerType /\ p2.status = "PHASEI"
             /\ p2.ballot = p.ballot
             /\ m.slot <= maxSlot[m.to]
             /\ OpenOk(proposals, votes, acceptors, m.to, m.slot, p2)
<1>. DEFINE n  == m.to
            s  == m.slot
            p  == proposers[n][s]
            p2 == AddPromise(p, m.from, m.ack)
<1>0. Sized
  BY Sizes
<1>1. /\ n \in Node /\ m.from \in Node /\ s \in Slot
      /\ m.ballot \in Nat /\ m.ack \in Promise
  BY AnswerTypes DEF TypeOK, Ballot
<1>2. /\ p \in ProposerType /\ p.ballot \in Nat /\ s <= maxSlot[n]
      /\ OpenOk(proposals, votes, acceptors, n, s, p)
  BY <1>0, <1>1 DEF Sized, PaxosInv, OpenInv
<1>3. /\ Asked(proposers, maxSlot, n, s, m.ballot)
      /\ PromiseOk(proposals, votes, acceptors, m.from, s, m.ballot, m.ack)
  BY DEF PaxosInv, MessageInv, MessageOk
<1>4. p.ballot = m.ballot
  BY <1>1, <1>2, <1>3 DEF Asked
<1>5. p.status \in {"INIT", "PHASEI"}
  OBVIOUS
<1>. HIDE DEF p
<1>6. /\ p2 \in ProposerType /\ p2.init = p.init /\ p2.status = "PHASEI"
      /\ p2.ballot = p.ballot
      /\ p2.maxBallot = p.maxBallot /\ p2.maxValue = p.maxValue
      /\ p2.accepteds = p.accepteds
      /\ p2.promises = [p.promises EXCEPT ![m.from] = m.ack]
  <2>1. p2 \in ProposerType /\ p2.init = p.init /\ p2.status = "PHASEI"
    BY <1>1, <1>2, AddTypes
  <2>. QED  BY <1>2, <2>1 DEF AddPromise, ProposerType
<1>7. \A k \in Node :
        p2.promises[k] = IF k = m.from THEN m.ack ELSE p.promises[k]
  <2>1. p.promises \in [Node -> Promise]
    BY <1>2 DEF ProposerType
  <2>. QED  BY <1>1, <1>6, <2>1
<1>. HIDE DEF p2
<1>8. \A k \in Node : PromiseOk(proposals, votes, acceptors, k, s, p2.ballot,
                                p2.promises[k])
  BY <1>2, <1>3, <1>4, <1>6, <1>7 DEF OpenOk
<1>9. OpenOk(proposals, votes, acceptors, n, s, p2)
  BY <1>2, <1>5, <1>6, <1>8 DEF OpenOk
<1>. QED  BY <1>2, <1>6, <1>9 DEF p, p2

\* The promise taken over is the highest of the newer ones
\* (proposer.cpp:100-108).
LEMMA BestIsHighest ==
  ASSUME NEW p \in ProposerType, Newer(p) # {}
  PROVE  /\ Best(p) \in Newer(p)
         /\ \A k \in Newer(p) :
              p.promises[k].maxBallot <= p.promises[Best(p)].maxBallot
<1>. DEFINE bal == [k \in Node |-> p.promises[k].maxBallot]
            Higher(m, k) ==
              \/ p.promises[m].maxBallot > p.promises[k].maxBallot
              \/ p.promises[m].maxBallot = p.promises[k].maxBallot /\ m <= k
<1>1. Newer(p) \subseteq Node
  BY DEF Newer, PromisedYes
<1>2. bal \in [Node -> Nat] /\ \A k \in Node : p.promises[k].maxBallot \in Nat
  BY DEF ProposerType, Promise, Ballot
<1>3. \E m \in Newer(p) : \A k \in Newer(p) :
        bal[m] > bal[k] \/ (bal[m] = bal[k] /\ m <= k)
  <2>. HIDE DEF bal
  <2>. QED  BY <1>1, <1>2, Highest
<1>4. \E m \in Newer(p) : \A k \in Newer(p) : Higher(m, k)
  BY <1>1, <1>3
<1>5. Best(p) = CHOOSE m \in Newer(p) : \A k \in Newer(p) : Higher(m, k)
  BY DEF Best
<1>. HIDE DEF Higher
<1>6. Best(p) \in Newer(p) /\ \A k \in Newer(p) : Higher(Best(p), k)
  BY <1>4, <1>5
<1>. QED  BY <1>1, <1>2, <1>6 DEF Higher

\* After it, no counted promise reports a higher ballot than the proposer
\* heard of, and nothing else of the proposer changes.
LEMMA Adopted ==
  ASSUME NEW p \in ProposerType, NEW n, NEW s, NEW P, NEW V, NEW A,
         OpenOk(P, V, A, n, s, p)
  PROVE  LET q == Adopt(p)
         IN  /\ q \in ProposerType /\ q.status = p.status
             /\ q.ballot = p.ballot /\ q.init = p.init
             /\ q.promises = p.promises /\ q.accepteds = p.accepteds
             /\ Heard(P, s, p.ballot, q.maxBallot, q.maxValue)
             /\ \A k \in PromisedYes(p) :
                  p.promises[k].maxBallot <= q.maxBallot
<1>. DEFINE q == Adopt(p)
<1>1. q \in ProposerType
  BY AdoptType
<1>2. /\ p.maxBallot \in Nat
      /\ \A k \in Node : p.promises[k].maxBallot \in Nat
  BY DEF ProposerType, Promise, Ballot
<1>3. Heard(P, s, p.ballot, p.maxBallot, p.maxValue)
  BY DEF OpenOk
<1>4. \A k \in PromisedYes(p) :
        k \in Node /\ (k \notin Newer(p) =>
                         p.promises[k].maxBallot <= p.maxBallot)
  BY <1>2 DEF Newer, PromisedYes
<1>5. CASE Newer(p) = {}
  BY <1>1, <1>3, <1>4, <1>5 DEF Adopt
<1>6. CASE Newer(p) # {}
  <2>. DEFINE m == Best(p)
  <2>1. /\ m \in Newer(p)
        /\ \A k \in Newer(p) :
             p.promises[k].maxBallot <= p.promises[m].maxBallot
    BY <1>6, BestIsHighest
  <2>2. /\ q.status = p.status /\ q.ballot = p.ballot /\ q.init = p.init
        /\ q.promises = p.promises /\ q.accepteds = p.accepteds
        /\ q.maxBallot = p.promises[m].maxBallot
        /\ q.maxValue = p.promises[m].maxValue
    BY <1>6 DEF Adopt, ProposerType
  <2>. HIDE DEF m, q
  <2>3. /\ m \in Node /\ p.promises[m].reply = "yes"
        /\ p.promises[m].maxBallot > p.maxBallot
    BY <2>1 DEF Newer, PromisedYes
  <2>4. Heard(P, s, p.ballot, q.maxBallot, q.maxValue)
    BY <2>2, <2>3 DEF OpenOk, PromiseOk
  <2>5. \A k \in PromisedYes(p) : p.promises[k].maxBallot <= q.maxBallot
    BY <1>2, <1>4, <2>1, <2>2, <2>3
  <2>. QED  BY <1>1, <2>2, <2>4, <2>5 DEF q
<1>. QED  BY <1>5, <1>6

\* Phase I is safe: with the promises of a majority for its ballot, a proposer
\* that takes the highest reported value may propose it
\* (proposer.cpp:97-118).
LEMMA PhaseOneSafe ==
  ASSUME TypeOK, PaxosInv, NEW s \in Slot, NEW b \in Nat, NEW c0 \in Nat,
         NEW h, NEW v, Heard(proposals, s, b, c0, h), h # NULL => v = h,
         NEW Q \in SUBSET Node, Cardinality(Q) >= QSize,
         \A k \in Q :
           /\ b <= acceptors[k][s].maxProposed
           /\ \A w \in votes :
                w.node = k /\ w.slot = s /\ w.ballot < b => w.ballot <= c0
  PROVE  SafeAt(proposals, votes, acceptors, s, b, v)
<1>0. Sized
  BY Sizes
<1>1. /\ c0 < b /\ (h = NULL => c0 = 0)
      /\ h # NULL => ProposedIn(proposals, s, c0, v)
  BY DEF Heard
<1>2. \A w \in votes : /\ w \in Vote /\ w.ballot \in Nat /\ w.ballot > 0
                       /\ ProposedIn(proposals, w.slot, w.ballot, w.value)
  <2>1. ASSUME NEW w \in votes
        PROVE  /\ w \in Vote /\ w.ballot \in Nat /\ w.ballot > 0
               /\ ProposedIn(proposals, w.slot, w.ballot, w.value)
    <3>1. w \in Vote /\ ProposedIn(proposals, w.slot, w.ballot, w.value)
      BY DEF TypeOK, PaxosInv, VoteInv
    <3>2. PICK x \in proposals : x.ballot = w.ballot
      BY <3>1 DEF ProposedIn
    <3>. QED  BY <3>1, <3>2, ProposedPositive DEF PaxosInv
  <2>. QED  BY <2>1
<1>3. ASSUME NEW c \in Nat, c < b, NEW k \in Q,
             \A w \in votes : ~(w.node = k /\ w.slot = s /\ w.ballot = c)
      PROVE  Wont(votes, acceptors, k, s, c)
  <2>1. b <= acceptors[k][s].maxProposed /\ acceptors[k][s].maxProposed \in Nat
    BY <1>0 DEF Sized
  <2>. QED  BY <1>3, <2>1 DEF Wont
<1>4. ASSUME NEW c \in Nat, c < b
      PROVE  \/ SkippedTo(proposals, s, c, b, v)
             \/ OnlyAt(votes, acceptors, s, c, v)
  <2>1. CASE c > c0 \/ h = NULL
    <3>1. ASSUME NEW k \in Q, NEW w \in votes,
                 w.node = k, w.slot = s, w.ballot = c
          PROVE  FALSE
      <4>1. w.ballot <= c0 /\ w.ballot > 0
        BY <1>2, <1>4, <3>1
      <4>. QED  BY <1>1, <1>4, <2>1, <3>1, <4>1
    <3>2. \A k \in Q : Wont(votes, acceptors, k, s, c)
      BY <1>3, <1>4, <3>1
    <3>. QED  BY <3>2 DEF OnlyAt
  <2>2. CASE c = c0 /\ h # NULL
    <3>1. ASSUME NEW k \in Q, ~Wont(votes, acceptors, k, s, c)
          PROVE  VoteFor(k, s, c, v) \in votes
      <4>1. PICK w \in votes : w.node = k /\ w.slot = s /\ w.ballot = c
        BY <1>3, <1>4, <3>1
      <4>2. w.value = v
        BY <1>1, <1>2, <2>2, <4>1 DEF PaxosInv, ProposalInv, ProposedIn
      <4>3. w \in Vote
        BY <1>2
      <4>4. w = VoteFor(k, s, c, v)
        BY <4>1, <4>2, <4>3 DEF Vote, VoteFor
      <4>. QED  BY <4>4
    <3>. QED  BY <3>1 DEF OnlyAt
  <2>3. CASE c < c0 /\ h # NULL
    <3>1. PICK x \in proposals : x.slot = s /\ x.ballot = c0 /\ x.value = v
      BY <1>1, <2>3 DEF ProposedIn
    <3>2. CASE x.direct
      BY <1>1, <2>3, <3>1, <3>2 DEF SkippedTo
    <3>3. CASE ~x.direct
      <4>1. SafeAt(proposals, votes, acceptors, s, c0, v)
        BY <3>1, <3>3 DEF PaxosInv, SafeInv
      <4>2. \/ SkippedTo(proposals, s, c, c0, v)
            \/ OnlyAt(votes, acceptors, s, c, v)
        BY <1>4, <2>3, <4>1 DEF SafeAt
      <4>3. ASSUME SkippedTo(proposals, s, c, c0, v)
            PROVE  SkippedTo(proposals, s, c, b, v)
        <5>1. PICK y \in proposals : /\ y.slot = s /\ y.direct /\ y.value = v
                                     /\ c < y.ballot /\ y.ballot < c0
          BY <4>3 DEF SkippedTo
        <5>2. y.ballot \in Nat
          BY DEF TypeOK, Proposal, Ballot
        <5>. QED  BY <1>1, <5>1, <5>2 DEF SkippedTo
      <4>. QED  BY <4>2, <4>3
    <3>. QED  BY <3>2, <3>3
  <2>. QED  BY <1>4, <2>1, <2>2, <2>3
<1>. QED  BY <1>4 DEF SafeAt

\* The handler of PROMISE proposes only what is safe, and restarts in a new
\* ballot (captain.cpp:274-338).
LEMMA PromiseHandled ==
  ASSUME IdsFit, TypeOK, TypeOK', ProposerInv, PaxosInv,
         NEW m \in net, HandlePromise(m)
  PROVE  PaxosStep
<1>. DEFINE n  == m.to
            s  == m.slot
            p  == proposers[n][s]
            p2 == AddPromise(p, m.from, m.ack)
            p3 == Adopt(p2)
            p4 == Continue(p3)
<1>0. Sized
  BY Sizes
<1>1. /\ n \in Node /\ m.from \in Node /\ s \in Slot
      /\ m.type = "PROMISE" /\ p.status \in {"INIT", "PHASEI"}
      /\ m.ballot >= p.ballot
  BY AnswerTypes DEF TypeOK, HandlePromise, Arrives
<1>2. /\ p2 \in ProposerType /\ p2.status = "PHASEI"
      /\ p2.ballot = p.ballot /\ p2.ballot \in Nat
      /\ s <= maxSlot[n]
      /\ OpenOk(proposals, votes, acceptors, n, s, p2)
  BY <1>1, PromiseCounted DEF ProposerType, Ballot
<1>3. UNCHANGED <<maxSlot, valueId, tocommit, chosen>>
  BY DEF HandlePromise, nodeVars
<1>4. /\ Learns /\ net \ {m} \in SUBSET net
      /\ \A k \in Node : maxSlot[k] <= maxSlot'[k]
      /\ s <= maxSlot'[n]
  BY <1>0, <1>2, <1>3 DEF Learns, Sized
<1>5. ClosedOnly(n, proposers[n])
  BY <1>1 DEF ClosedOnly, TypeOK
<1>6. HandlePromise(m)
  OBVIOUS
<1>. HIDE DEF p2
<1>7. /\ p3 \in ProposerType /\ p3.status = "PHASEI"
      /\ p3.ballot = p2.ballot /\ p3.init = p2.init
      /\ p3.promises = p2.promises /\ p3.accepteds = p2.accepteds
      /\ Heard(proposals, s, p2.ballot, p3.maxBallot, p3.maxValue)
      /\ \A k \in PromisedYes(p2) :
           p2.promises[k].maxBallot <= p3.maxBallot
  BY <1>2, Adopted
<1>8. /\ p3.maxBallot \in Nat /\ p3.init \in Value \cup {NULL}
      /\ p3.maxValue \in Value \cup {NULL}
      /\ \A k \in Node : p2.promises[k].maxBallot \in Nat
  BY <1>2, <1>7 DEF ProposerType, Promise, Ballot
<1>9. /\ Drawn(p2.ballot, n)
      /\ \E x \in proposals : x.value = p2.init
      /\ \A k \in Node :
           /\ PromiseOk(proposals, votes, acceptors, k, s, p2.ballot,
                        p2.promises[k])
           /\ p2.accepteds[k] = "none"
  BY <1>2 DEF OpenOk
<1>10. CASE /\ proposers' = [proposers EXCEPT ![n][s] = p2]
            /\ net' = net \ {m}
            /\ UNCHANGED <<acceptors, votes, proposals>>
  <2>1. proposers' = [proposers EXCEPT ![n] = [@ EXCEPT ![s] = p2]]
    BY <1>10
  <2>2. Advances(n, s, proposers[n][s], p2)
    BY <1>1, <1>2 DEF Advances
  <2>. QED  BY <1>1, <1>2, <1>3, <1>4, <1>10, <2>1, <2>2, ProposerStep
<1>11. CASE /\ PromiseVerdict(p2) = "CONTINUE"
            /\ BroadcastAccept(n, s, p4, proposers[n], view[n].quorums, 0, 0,
                               net \ {m})
  <2>. HIDE DEF p3
  <2>1. p3.init \in Value
    BY <1>7, <1>9 DEF TypeOK, Proposal
  <2>2. p4 \in ProposerType /\ p4.init = p3.init /\ p4.value \in Value
    BY <1>7, <2>1, ContinueType
  <2>3. /\ p4.status = "PHASEII" /\ p4.ballot = p2.ballot
        /\ p4.maxBallot = p3.maxBallot /\ p4.maxValue = p3.maxValue
        /\ p4.promises = p2.promises /\ p4.accepteds = p2.accepteds
        /\ p4.value = IF p3.maxValue # NULL THEN p3.maxValue ELSE p3.init
    BY <1>7 DEF Continue, ProposerType
  <2>. HIDE DEF p4
  <2>4. PICK x \in proposals : x.value = p4.value
    BY <1>7, <1>9, <2>3 DEF Heard, ProposedIn
  <2>5. SafeAt(proposals, votes, acceptors, s, p2.ballot, p4.value)
    <3>. DEFINE Q == PromisedYes(p2)
    <3>1. Q \in SUBSET Node /\ Cardinality(Q) >= QSize
      BY <1>11 DEF PromiseVerdict, PromisedYes
    <3>2. ASSUME NEW k \in Q
          PROVE  /\ p2.ballot <= acceptors[k][s].maxProposed
                 /\ \A w \in votes :
                      w.node = k /\ w.slot = s /\ w.ballot < p2.ballot =>
                        w.ballot <= p3.maxBallot
      <4>1. k \in Node /\ p2.promises[k].reply = "yes"
        BY DEF PromisedYes
      <4>2. /\ p2.ballot <= acceptors[k][s].maxProposed
            /\ \A w \in votes :
                 w.node = k /\ w.slot = s /\ w.ballot < p2.ballot =>
                   w.ballot <= p2.promises[k].maxBallot
        BY <1>9, <4>1 DEF PromiseOk
      <4>3. p2.promises[k].maxBallot <= p3.maxBallot
        BY <1>7
      <4>4. \A w \in votes : w.ballot \in Nat
        BY DEF TypeOK, Vote, Ballot
      <4>. QED  BY <1>8, <4>1, <4>2, <4>3, <4>4
    <3>. HIDE DEF Q
    <3>. QED  BY <1>1, <1>2, <1>7, <1>8, <2>3, <3>1, <3>2, PhaseOneSafe
  <2>6. CanPropose(n, s, p4)
    <3>1. Advances(n, s, proposers[n][s], p4)
      BY <1>1, <1>2, <2>3 DEF Advances
    <3>2. ASSUME NEW y \in proposals, y.node = n, y.slot = s
          PROVE  y.ballot # p4.ballot
      <4>1. Below(y.ballot, p)
        BY <3>2 DEF PaxosInv, ProposalInv
      <4>2. y.ballot < p.ballot
        BY <1>1, <4>1 DEF Below
      <4>3. y.ballot \in Nat
        BY DEF TypeOK, Proposal, Ballot
      <4>. QED  BY <1>2, <2>3, <4>2, <4>3
    <3>3. \A y \in proposals : y.value.id = p4.value.id => y.value = p4.value
      BY <2>4 DEF PaxosInv, IdInv, KnownIn
    <3>. QED  BY <1>7, <1>9, <2>2, <2>3, <2>5, <3>1, <3>2, <3>3 DEF CanPropose
  <2>7. IdInv'
    <3>1. PICK y : /\ y.value = p4.value
                   /\ proposals' = proposals \cup {y}
      BY <1>11, Zenon DEF BroadcastAccept
    <3>2. KnownIn(proposals, tocommit)' \subseteq KnownIn(proposals, tocommit)
      BY <1>3, <2>4, <3>1 DEF KnownIn
    <3>. QED  BY <1>3, <3>2, SameIds DEF PaxosInv
  <2>8. \A x2 \in net \ {m} : x2 \in net \/ x2.type = "COMMAND"
    OBVIOUS
  <2>. QED  BY <1>1, <1>4, <1>5, <1>11, <2>2, <2>6, <2>7, <2>8, AcceptStep
<1>12. CASE BroadcastPrepare(n, s, Restart(p3, n), proposers[n],
                             view[n].quorums, net \ {m})
  <2>. HIDE DEF p3
  <2>1. CanRestart(n, s, p3)
    <3>1. /\ p3.ballot = p.ballot /\ p.ballot \in Nat
          /\ Drawn(NextBallot(p3.ballot, n), n)
          /\ p3.ballot < NextBallot(p3.ballot, n)
          /\ NextBallot(p3.ballot, n) \in Nat
      BY <1>1, <1>2, <1>7, <1>9, NextDrawn, NextBallotType DEF Ballot, Radix
    <3>2. Heard(proposals, s, NextBallot(p3.ballot, n), p3.maxBallot,
                p3.maxValue)
      BY <1>7, <1>8, <3>1 DEF Heard
    <3>. QED  BY <1>1, <1>7, <1>9, <3>1, <3>2 DEF CanRestart
  <2>. QED  BY <1>1, <1>3, <1>4, <1>5, <1>7, <1>12, <2>1, PrepareStep
<1>. QED  BY <1>6, <1>10, <1>11, <1>12 DEF HandlePromise, p2

-----------------------------------------------------------------------------
(* ACCEPTED *)

\* An answer that comes too late changes nothing (captain.cpp:400-415).
LEMMA AcceptedIgnored ==
  ASSUME TypeOK, PaxosInv, NEW m \in net, IgnoreAccepted(m)
  PROVE  PaxosStep
<1>1. /\ UNCHANGED <<nodeVars, paxosVars, chosen>>
      /\ net' \subseteq net
  BY DEF IgnoreAccepted
<1>2. Learns
  BY <1>1 DEF Learns
<1>3. IdInv'
  BY <1>1, SameIds DEF PaxosInv, KnownIn, nodeVars, paxosVars
<1>. QED  BY <1>1, <1>2, <1>3, QuietStep DEF nodeVars, paxosVars

\* An answer that is counted is one to the proposer's last ACCEPT
\* (captain.cpp:407-418): a yes is a vote for its value.
LEMMA AcceptedCounted ==
  ASSUME TypeOK, PaxosInv, NEW m \in net, m.type = "ACCEPTED",
         proposers[m.to][m.slot].status = "PHASEII",
         m.ballot >= proposers[m.to][m.slot].ballot
  PROVE  LET p == proposers[m.to][m.slot]
             q == AddAccepted(p, m.from, m.reply)
         IN  /\ q \in ProposerType /\ q.status = "PHASEII"
             /\ q.ballot = p.ballot
             /\ m.slot <= maxSlot[m.to]
             /\ OpenOk(proposals, votes, acceptors, m.to, m.slot, q)
<1>. DEFINE n == m.to
            s == m.slot
            p == proposers[n][s]
            q == AddAccepted(p, m.from, m.reply)
<1>0. Sized
  BY Sizes
<1>1. /\ n \in Node /\ m.from \in Node /\ s \in Slot
      /\ m.ballot \in Nat /\ m.reply \in Answer
  BY AnswerTypes DEF TypeOK, Ballot, Answer
<1>2. /\ p \in ProposerType /\ p.ballot \in Nat /\ s <= maxSlot[n]
      /\ OpenOk(proposals, votes, acceptors, n, s, p)
  BY <1>0, <1>1 DEF Sized, PaxosInv, OpenInv
<1>3. PICK v \in Value :
        /\ ProposedBy(proposals, n, s, m.ballot, v)
        /\ m.reply = "yes" => VoteFor(m.from, s, m.ballot, v) \in votes
  BY DEF PaxosInv, MessageInv, MessageOk
<1>4. PICK x \in proposals :
        x.node = n /\ x.slot = s /\ x.ballot = m.ballot /\ x.value = v
  BY <1>3 DEF ProposedBy
<1>5. p.ballot = m.ballot
  <2>1. Below(m.ballot, p)
    BY <1>4 DEF PaxosInv, ProposalInv
  <2>. QED  BY <1>1, <1>2, <2>1 DEF Below
<1>6. v = p.value
  <2>1. ProposedIn(proposals, s, p.ballot, p.value)
    BY <1>2 DEF OpenOk
  <2>. QED  BY <1>4, <1>5, <2>1 DEF PaxosInv, ProposalInv, ProposedIn
<1>7. p.status = "PHASEII"
  OBVIOUS
<1>. HIDE DEF p
<1>8. /\ q \in ProposerType /\ q.init = p.init /\ q.status = "PHASEII"
      /\ q.value = p.value /\ q.ballot = p.ballot
      /\ q.maxBallot = p.maxBallot /\ q.maxValue = p.maxValue
      /\ q.promises = p.promises
      /\ q.accepteds = [p.accepteds EXCEPT ![m.from] = m.reply]
  <2>1. /\ q \in ProposerType /\ q.init = p.init /\ q.status = "PHASEII"
        /\ q.value = p.value
    BY <1>1, <1>2, <1>7, AddTypes
  <2>. QED  BY <1>2, <2>1 DEF AddAccepted, ProposerType
<1>9. \A k \in Node :
        q.accepteds[k] = IF k = m.from THEN m.reply ELSE p.accepteds[k]
  <2>1. p.accepteds \in [Node -> Answer]
    BY <1>2 DEF ProposerType
  <2>. QED  BY <1>1, <1>8, <2>1
<1>. HIDE DEF q
<1>10. \A k \in Node : q.accepteds[k] = "yes" =>
         VoteFor(k, s, q.ballot, q.value) \in votes
  BY <1>2, <1>3, <1>5, <1>6, <1>7, <1>8, <1>9 DEF OpenOk
<1>11. OpenOk(proposals, votes, acceptors, n, s, q)
  BY <1>2, <1>7, <1>8, <1>10 DEF OpenOk
<1>. QED  BY <1>2, <1>8, <1>11 DEF p, q

\* With a majority of yes the value is chosen (proposer.cpp:150-163).
LEMMA ChosenByMajority ==
  ASSUME NEW n, NEW s, NEW p,
         p.status = "PHASEII", OpenOk(proposals, votes, acceptors, n, s, p),
         AcceptedVerdict(p) = "CHOOSE"
  PROVE  p.value \in ChosenIn(s)
<1>. DEFINE V == Voters(s, p.ballot, p.value)
            Y == AnsweredYes(p)
<1>1. Cardinality(Y) >= QSize
  BY DEF AcceptedVerdict
<1>2. V \subseteq Node /\ Y \subseteq V
  BY DEF Voters, AnsweredYes, OpenOk, VoteFor
<1>3. IsFiniteSet(V) /\ Cardinality(V) \in Nat /\ Cardinality(Y) \in Nat
      /\ Cardinality(Y) <= Cardinality(V)
  <2>. HIDE DEF V, Y
  <2>. QED  BY <1>2, NodeFinite, FS_Subset, FS_CardinalityType
<1>4. ChosenAt(s, p.ballot, p.value)
  <2>. HIDE DEF Y
  <2>. QED  BY <1>1, <1>3, QuorumSizes DEF ChosenAt
<1>5. V # {}
  <2>. HIDE DEF Y
  <2>. QED  BY <1>1, <1>2, <1>3, QuorumSizes, FS_EmptySet
<1>6. PICK k \in Node : VoteFor(k, s, p.ballot, p.value) \in votes
  BY <1>2, <1>5 DEF Voters, VoteFor
<1>. QED  BY <1>4, <1>6 DEF ChosenIn, VoteFor

\* The own value is chosen: the slot is closed, and the oldest waiting write,
\* if any, is proposed in a new one (captain.cpp:428-507).
LEMMA OwnChosen ==
  ASSUME TypeOK, TypeOK', PaxosInv, NEW m \in net, NEW p,
         m.to \in Node, m.slot \in Slot, p.value \in ChosenIn(m.slot),
         ChooseOwn(m, p), UNCHANGED valueId
  PROVE  PaxosStep
<1>. DEFINE n == m.to
            s == m.slot
            ch == AddChosen(chosen[n], s, p.value)
            others == [proposers[n] EXCEPT ![s] = NoProposer]
<1>1. chosen' = [chosen EXCEPT ![n] = AddChosen(@, s, p.value)]
  BY DEF ChooseOwn
<1>2. Learns
  BY <1>1, LearnsOne
<1>3. CASE /\ proposers' = [proposers EXCEPT ![n] = others]
           /\ net' = net \ {m}
           /\ UNCHANGED <<acceptors, votes, proposals, maxSlot, tocommit>>
  <2>1. NoProposer.status = "EMPTY"
    BY DEF NoProposer
  <2>2. net' \subseteq net
    BY <1>3
  <2>. QED  BY <1>2, <1>3, <2>1, <2>2, ProposerStep
<1>4. CASE /\ tocommit[n] # <<>>
           /\ tocommit' = [tocommit EXCEPT ![n] = Tail(@)]
           /\ OpenSlot(n, Head(tocommit[n]), ch, others, view[n].quorums,
                       net \ {m})
  <2>. DEFINE e == Head(tocommit[n])
  <2>1. /\ tocommit \in [Node -> Seq(Entry)] /\ tocommit[n] \in Seq(Entry)
        /\ e \in Entry
    BY <1>4, HeadTailProperties DEF TypeOK
  <2>2. /\ e.value \in QueueValues(tocommit[n])
        /\ QueueValues(Tail(tocommit[n])) \subseteq QueueValues(tocommit[n])
    BY <1>4, <2>1, QueueKnown
  <2>3. /\ OpenSlot(n, e, ch, others, view[n].quorums, net \ {m})
        /\ tocommit'[n] = Tail(tocommit[n])
        /\ \A k \in Node : k # n => tocommit'[k] = tocommit[k]
    BY <1>4, <2>1
  <2>. HIDE DEF e, ch, others
  <2>4. PICK x : x.value = e.value /\ proposals' = proposals \cup {x}
    BY <2>1, <2>3, OpeningProposes
  <2>5. e.value \in KnownIn(proposals, tocommit)
    BY <2>2 DEF KnownIn
  <2>6. IdInv'
    <3>1. ASSUME NEW k \in Node
          PROVE  QueueValues(tocommit'[k]) \subseteq QueueValues(tocommit[k])
      BY <2>2, <2>3
    <3>2. KnownIn(proposals, tocommit)' \subseteq KnownIn(proposals, tocommit)
      BY <2>4, <2>5, <3>1 DEF KnownIn
    <3>. QED  BY <3>2, SameIds DEF PaxosInv
  <2>7. \A y \in proposals : y.value.id = e.value.id => y.value = e.value
    BY <2>5 DEF PaxosInv, IdInv, KnownIn
  <2>8. ClosedOnly(n, others)
    BY NoProposerType DEF ClosedOnly, TypeOK, others, NoProposer
  <2>9. \A t \in Slot : ch[t] # NULL => ch[t] \in ChosenIn(t)
    BY DEF TypeOK, PaxosInv, LearnedIsChosen, AddChosen, ch
  <2>10. \A y \in net \ {m} : y \in net \/ y.type = "COMMAND"
    OBVIOUS
  <2>. QED  BY <1>2, <2>1, <2>3, <2>6, <2>7, <2>8, <2>9, <2>10, OpeningStep
<1>. QED  BY <1>3, <1>4 DEF ChooseOwn

\* Somebody else's value is chosen: the own one goes to a new slot, from
\* Phase I (captain.cpp:516-540).
LEMMA OtherChosen ==
  ASSUME TypeOK, TypeOK', PaxosInv, NEW m \in net, NEW p \in ProposerType,
         m.to \in Node, m.slot \in Slot, p.value \in ChosenIn(m.slot),
         \E x \in proposals : x.value = p.init,
         ChooseOther(m, p), UNCHANGED valueId
  PROVE  PaxosStep
<1>. DEFINE n == m.to
            s == m.slot
            t == maxSlot[n] + 1
            others == [proposers[n] EXCEPT ![s] = NoProposer]
            p0 == NewProposer(p.init, NoRequest)
<1>0. Sized
  BY Sizes
<1>1. /\ t \in Slot
      /\ chosen' = [chosen EXCEPT ![n] = AddChosen(@, s, p.value)]
      /\ maxSlot' = [maxSlot EXCEPT ![n] = t]
      /\ BroadcastPrepare(n, t, Restart(p0, n), others, view[n].quorums,
                          net \ {m})
      /\ UNCHANGED tocommit
  BY DEF ChooseOther
<1>2. Learns
  BY <1>1, LearnsOne
<1>3. /\ \A k \in Node : maxSlot[k] <= maxSlot'[k]
      /\ t <= maxSlot'[n] /\ maxSlot[n] < t /\ ~(t <= maxSlot[n])
  <2>1. /\ maxSlot \in [Node -> 0 .. MaxSlot]
        /\ \A k \in Node : maxSlot[k] \in Nat
    BY <1>0 DEF TypeOK, Sized
  <2>. QED  BY <1>1, <2>1
<1>4. ClosedOnly(n, others)
  BY NoProposerType DEF ClosedOnly, TypeOK, NoProposer
<1>5. /\ p0 \in ProposerType /\ p0.init = p.init /\ p0.ballot = 0
      /\ p0.maxBallot = 0 /\ p0.maxValue = NULL
  <2>1. p.init \in Value
    BY DEF TypeOK, Proposal
  <2>2. p0 \in ProposerType /\ p0.init = p.init
    BY <2>1, NewProposerType
  <2>. QED  BY <2>2 DEF NewProposer, NoProposer
<1>6. proposers[n][t].status = "EMPTY"
  BY <1>1, <1>3 DEF PaxosInv, OpenInv
<1>. HIDE DEF p0, others, t
<1>7. CanRestart(n, t, p0)
  <2>1. /\ NextBallot(p0.ballot, n) = n + Radix /\ Drawn(n + Radix, n)
        /\ 0 < n + Radix
    BY <1>5, NextDrawn DEF Node, Radix
  <2>2. Heard(proposals, t, NextBallot(p0.ballot, n), p0.maxBallot,
              p0.maxValue)
    BY <1>5, <2>1 DEF Heard
  <2>. QED  BY <1>3, <1>5, <1>6, <2>1, <2>2 DEF CanRestart
<1>8. net \ {m} \in SUBSET net
  OBVIOUS
<1>. QED  BY <1>1, <1>2, <1>3, <1>4, <1>5, <1>7, <1>8, PrepareStep

\* The handler of ACCEPTED takes a value for chosen only when it is, and
\* restarts in a new ballot (captain.cpp:391-553).
LEMMA AcceptedHandled ==
  ASSUME TypeOK, TypeOK', PaxosInv, NEW m \in net, HandleAccepted(m)
  PROVE  PaxosStep
<1>. DEFINE n == m.to
            s == m.slot
            p == AddAccepted(proposers[n][s], m.from, m.reply)
<1>0. Sized
  BY Sizes
<1>1. /\ n \in Node /\ m.from \in Node /\ s \in Slot
      /\ m.type = "ACCEPTED" /\ m.reply \in Answer
      /\ UNCHANGED valueId /\ HandleAccepted(m)
  BY AnswerTypes DEF TypeOK, HandleAccepted, Arrives, Answer
<1>2. proposers[n][s] \in ProposerType
  BY <1>0, <1>1 DEF Sized
<1>3. p.status = "PHASEII" /\ m.ballot >= p.ballot
  BY DEF HandleAccepted
<1>4. proposers[n][s].status = p.status /\ proposers[n][s].ballot = p.ballot
  BY <1>2 DEF AddAccepted, ProposerType
<1>5. /\ p \in ProposerType /\ p.ballot \in Nat /\ s <= maxSlot[n]
      /\ OpenOk(proposals, votes, acceptors, n, s, p)
  BY <1>1, <1>3, <1>4, AcceptedCounted DEF ProposerType, Ballot
<1>. HIDE DEF p
<1>6. \E x \in proposals : x.value = p.init
  BY <1>5 DEF OpenOk
<1>7. AcceptedVerdict(p) = "CHOOSE" => p.value \in ChosenIn(s)
  BY <1>3, <1>5, ChosenByMajority
<1>8. CASE /\ proposers' = [proposers EXCEPT ![n][s] = p]
           /\ net' = net \ {m}
           /\ UNCHANGED <<acceptors, votes, proposals, chosen, maxSlot,
                          tocommit>>
  <2>1. proposers' = [proposers EXCEPT ![n] = [@ EXCEPT ![s] = p]]
    BY <1>8
  <2>2. Advances(n, s, proposers[n][s], p)
    BY <1>3, <1>4 DEF Advances
  <2>3. Learns
    BY <1>8 DEF Learns
  <2>4. net' \subseteq net
    BY <1>8
  <2>. QED  BY <1>1, <1>5, <1>8, <2>1, <2>2, <2>3, <2>4, ProposerStep
<1>9. CASE AcceptedVerdict(p) = "CHOOSE" /\ ChooseOwn(m, p)
  BY <1>1, <1>7, <1>9, OwnChosen
<1>10. CASE AcceptedVerdict(p) = "CHOOSE" /\ ChooseOther(m, p)
  BY <1>1, <1>5, <1>6, <1>7, <1>10, OtherChosen
<1>11. CASE /\ BroadcastPrepare(n, s, Restart(p, n), proposers[n],
                                view[n].quorums, net \ {m})
            /\ UNCHANGED <<chosen, maxSlot, tocommit>>
  <2>1. CanRestart(n, s, p)
    <3>1. /\ Drawn(NextBallot(p.ballot, n), n)
          /\ p.ballot < NextBallot(p.ballot, n)
          /\ NextBallot(p.ballot, n) \in Nat
      BY <1>1, <1>5, NextDrawn, NextBallotType DEF OpenOk, Ballot, Radix
    <3>2. /\ Heard(proposals, s, p.ballot, p.maxBallot, p.maxValue)
          /\ p.maxBallot \in Nat
      BY <1>5 DEF OpenOk, ProposerType, Ballot
    <3>3. Heard(proposals, s, NextBallot(p.ballot, n), p.maxBallot, p.maxValue)
      BY <1>5, <3>1, <3>2 DEF Heard
    <3>. QED  BY <1>3, <1>4, <1>6, <3>1, <3>3 DEF CanRestart
  <2>2. ClosedOnly(n, proposers[n])
    BY <1>1 DEF ClosedOnly, TypeOK
  <2>3. /\ Learns /\ net \ {m} \in SUBSET net
        /\ \A k \in Node : maxSlot[k] <= maxSlot'[k]
        /\ s <= maxSlot'[n]
    BY <1>0, <1>5, <1>11 DEF Learns, Sized
  <2>. QED  BY <1>1, <1>5, <1>11, <2>1, <2>2, <2>3, PrepareStep
<1>. QED  BY <1>1, <1>8, <1>9, <1>10, <1>11 DEF HandleAccepted, p

-----------------------------------------------------------------------------
(* The other steps *)

\* A Nack sends the same question to another node (commo.cpp:450-454).
LEMMA SentAgain ==
  ASSUME NEW m \in Messages, m.type \in Interest, NEW q,
         NEW P, NEW V, NEW A, NEW R, NEW T, MessageOk(P, V, A, R, T, m),
         Announced(m)
  PROVE  LET a == [m EXCEPT !.to = q]
         IN  MessageOk(P, V, A, R, T, a) /\ Announced(a)
<1>. DEFINE a == [m EXCEPT !.to = q]
<1>1. CASE m.type = "PREPARE"
  <2>1. /\ a.type = "PREPARE" /\ a.from = m.from /\ a.slot = m.slot
        /\ a.ballot = m.ballot
    BY <1>1 DEF Messages
  <2>. QED  BY <1>1, <2>1 DEF MessageOk, Announced
<1>2. CASE m.type = "ACCEPT"
  <2>1. /\ a.type = "ACCEPT" /\ a.from = m.from /\ a.slot = m.slot
        /\ a.ballot = m.ballot /\ a.value = m.value
        /\ a.lastSlot = m.lastSlot /\ a.lastValue = m.lastValue
    BY <1>2 DEF Messages
  <2>. HIDE DEF a
  <2>. QED  BY <1>2, <2>1 DEF MessageOk, Announced
<1>3. CASE m.type = "COMMAND"
  <2>1. a.type = "COMMAND"
    BY <1>3 DEF Messages
  <2>. QED  BY <2>1 DEF MessageOk, Announced
<1>. QED  BY <1>1, <1>2, <1>3 DEF Interest

\* A client write: proposed, queued, or forwarded (captain.cpp:108-221).
LEMMA WriteHandled ==
  ASSUME IdsFit, TypeOK, TypeOK', PaxosInv,
         NEW n \in WriteNode, NEW r \in Request, Write(n, r)
  PROVE  PaxosStep
<1>1. CASE Commit(n, r)
  BY <1>1, AdmitStep DEF Commit
<1>2. CASE CommitTakingOver(n, r)
  <2>. DEFINE msgs == net \cup {SetQuorumTo(n, First(view[n].nquorums))}
  <2>1. \A m \in msgs : m \in net \/ m.type = "COMMAND"
    BY DEF SetQuorumTo
  <2>2. /\ Receive(n, r)
        /\ Admit(n, EntryFor(n, r), TakeOver(view[n], n).quorums, msgs)
    BY <1>2 DEF CommitTakingOver
  <2>. HIDE DEF msgs
  <2>. QED  BY <2>1, <2>2, AdmitStep
<1>3. CASE CommitForwarding(n, r)
  <2>. DEFINE v == EntryFor(n, r).value
  <2>1. /\ n \in Node /\ UNCHANGED chosen
        /\ valueId' = [valueId EXCEPT ![n] = @ + Radix]
        /\ v.id = valueId[n] + Radix
        /\ UNCHANGED <<maxSlot, tocommit, net, paxosVars>>
    BY <1>3, ReceiveTypes DEF CommitForwarding, Receive, EntryFor
  <2>2. KnownIn(proposals, tocommit)' = KnownIn(proposals, tocommit)
    BY <2>1 DEF KnownIn, paxosVars
  <2>. HIDE DEF v
  <2>3. IdInv'
    BY <2>1, <2>2, NewId DEF PaxosInv
  <2>4. Learns
    BY <2>1 DEF Learns
  <2>. QED  BY <2>1, <2>3, <2>4, QuietStep DEF paxosVars
<1>. QED  BY <1>1, <1>2, <1>3 DEF Write

\* m is an Interest on its way, but for the addressee.
IsSentAgain(m) == \E k \in net, q \in Node :
  k.type \in Interest /\ m = [k EXCEPT !.to = q]

\* A step that proposes nothing, learns nothing, and sends nothing but
\* SET_QUORUM or an Interest for the second time
LEMMA NothingStep ==
  ASSUME TypeOK, PaxosInv,
         UNCHANGED <<paxosVars, maxSlot, valueId, tocommit, chosen>>,
         \A m \in net' \ net : m.type = "COMMAND" \/ IsSentAgain(m)
  PROVE  PaxosStep
<1>1. ASSUME NEW m \in net' \ net
      PROVE  /\ MessageOk(proposals, votes, acceptors, proposers, maxSlot, m)
             /\ Announced(m)
  <2>1. CASE m.type = "COMMAND"
    BY <2>1 DEF MessageOk, Announced
  <2>2. CASE IsSentAgain(m)
    <3>0. PICK k \in net, q \in Node :
            k.type \in Interest /\ m = [k EXCEPT !.to = q]
      BY <2>2 DEF IsSentAgain
    <3>1. /\ k \in Messages /\ Announced(k)
          /\ MessageOk(proposals, votes, acceptors, proposers, maxSlot, k)
      BY DEF TypeOK, PaxosInv, MessageInv, AnnounceInv
    <3>. QED  BY <3>0, <3>1, SentAgain
  <2>. QED  BY <2>1, <2>2
<1>2. IdInv'
  BY SameIds DEF PaxosInv, KnownIn, paxosVars
<1>3. Learns
  BY DEF Learns
<1>. QED  BY <1>1, <1>2, <1>3, QuietStep DEF paxosVars

\* Losing a message, stopping, joining the quorum, a Nack, and a log Interest
\* that expires
LEMMA OthersHandled ==
  ASSUME TypeOK, PaxosInv,
         \/ \E m \in net : Lose(m) \/ Nack(m) \/ HandleCommand(m)
         \/ \E n \in Mortal : Kill(n)
         \/ \E n \in Node : \E s \in logPending[n] : OnTimeoutLog(n, s)
         \/ UNCHANGED vars
  PROVE  PaxosStep
<1>1. CASE \/ \E m \in net : Lose(m) \/ HandleCommand(m)
           \/ \E n \in Mortal : Kill(n)
           \/ \E n \in Node : \E s \in logPending[n] : OnTimeoutLog(n, s)
           \/ UNCHANGED vars
  <2>1. /\ UNCHANGED <<paxosVars, maxSlot, valueId, tocommit, chosen>>
        /\ net' \subseteq net
    BY <1>1, Zenon
       DEF Lose, HandleCommand, Kill, OnTimeoutLog, vars, captainVars, nodeVars
  <2>. QED  BY <2>1, NothingStep
<1>2. ASSUME NEW m \in net, Nack(m)  PROVE PaxosStep
  <2>. DEFINE n == m.from
              q == First(view[n].nquorums)
  <2>1. /\ UNCHANGED <<paxosVars, maxSlot, valueId, tocommit, chosen>>
        /\ m.type \in Interest
    BY <1>2 DEF Nack
  <2>2. CASE net' = net \ {m}
    BY <2>1, <2>2, NothingStep
  <2>3. CASE /\ view[n].nquorums # {}
             /\ net' = (net \ {m})
                         \cup {SetQuorumTo(n, q), [m EXCEPT !.to = q]}
    <3>1. q \in Node
      <4>1. n \in Node
        BY AnswerTypes DEF TypeOK
      <4>2. view[n].nquorums \subseteq Node
        BY <4>1 DEF TypeOK, ViewType
      <4>. QED  BY <2>3, <4>2, FirstType
    <3>2. SetQuorumTo(n, q).type = "COMMAND"
      BY DEF SetQuorumTo
    <3>3. IsSentAgain([m EXCEPT !.to = q])
      BY <2>1, <3>1 DEF IsSentAgain
    <3>. HIDE DEF q, n
    <3>. QED  BY <2>1, <2>3, <3>2, <3>3, NothingStep
  <2>. QED  BY <1>2, <2>2, <2>3 DEF Nack
<1>. QED  BY <1>1, <1>2

\* A node outside the quorum copies a decision from a quorum node
\* (commo.cpp:391-411).
LEMMA LogHandled ==
  ASSUME TypeOK, PaxosInv, NEW n \in Node, NEW s \in logPending[n],
         NEW q \in LogServer, OnDataLog(n, s, q)
  PROVE  PaxosStep
<1>1. /\ s \in Slot /\ chosen[q][s] # NULL /\ q \in Node
      /\ chosen' = [chosen EXCEPT ![n] = AddChosen(@, s, chosen[q][s])]
      /\ UNCHANGED <<nodeVars, paxosVars, net>>
  BY QuorumSizes DEF OnDataLog, LogServer
<1>2. Learns
  <2>1. chosen[q][s] \in ChosenIn(s)
    BY <1>1 DEF PaxosInv, LearnedIsChosen
  <2>. QED  BY <1>1, <2>1, LearnsOne
<1>3. IdInv'
  BY <1>1, SameIds DEF PaxosInv, KnownIn, nodeVars, paxosVars
<1>. QED  BY <1>1, <1>2, <1>3, QuietStep DEF nodeVars, paxosVars

-----------------------------------------------------------------------------
(* The theorems *)

\* The invariant holds when the daemons start: no value has an id yet, and the
\* acceptors of the lease hold nothing (captain.cpp:36-53).
THEOREM InitPaxos == Init => PaxosInv
<1>. SUFFICES ASSUME Init  PROVE PaxosInv
  OBVIOUS
<1>. USE DEF Init, CaptainInit
<1>1. KnownIn(proposals, tocommit) = {}
  BY DEF KnownIn, QueueValues
<1>2. \A n \in Node : Drawn(valueId[n] + Radix, n)
  BY NextDrawn
<1>3. IdInv
  BY <1>1, <1>2 DEF IdInv
<1>4. ProposalInv /\ VoteInv /\ MessageInv /\ AnnounceInv /\ SafeInv
  BY DEF ProposalInv, VoteInv, MessageInv, AnnounceInv, SafeInv
<1>5. AcceptorInv
  <2>1. LeaseBallot \in Nat
    BY ViewAssumption DEF LeaseBallot, Radix, InitQuorum
  <2>2. \A b \in Nat, k \in Node, s \in Slot :
          AcceptorOk({}, k, s, NewAcceptor(b))
    BY DEF AcceptorOk, NewAcceptor
  <2>. QED  BY <2>1, <2>2 DEF AcceptorInv
<1>6. OpenInv
  BY DEF OpenInv, NoProposer
<1>7. LearnedIsChosen
  BY DEF LearnedIsChosen
<1>. QED  BY <1>3, <1>4, <1>5, <1>6, <1>7 DEF PaxosInv

\* Every step of the system keeps the invariant.
THEOREM NextPaxos ==
  ASSUME IdsFit
  PROVE  IInv /\ IInv' /\ PaxosInv /\ [Next]_vars => PaxosInv'
<1>. SUFFICES ASSUME IInv, IInv', PaxosInv, [Next]_vars  PROVE PaxosInv'
  OBVIOUS
<1>0. TypeOK /\ TypeOK' /\ ProposerInv
  BY DEF IInv
<1>. SUFFICES PaxosStep
  BY <1>0, StepKeeps
<1>1. ASSUME NEW n \in WriteNode, NEW r \in Request, Write(n, r)
      PROVE  PaxosStep
  BY <1>0, <1>1, WriteHandled
<1>2. ASSUME NEW m \in net, Deliver(m)
      PROVE  PaxosStep
  BY <1>0, <1>2, PrepareHandled, AcceptHandled, OthersHandled, PromiseIgnored,
     PromiseHandled, AcceptedIgnored, AcceptedHandled DEF Deliver, HandleMsg
<1>3. CASE \/ \E m \in net : Lose(m) \/ Nack(m)
           \/ \E n \in Mortal : Kill(n)
           \/ UNCHANGED vars
  BY <1>0, <1>3, OthersHandled
<1>4. ASSUME NEW n \in Node, NEW s \in logPending[n],
             \/ \E q \in LogServer : OnDataLog(n, s, q)
             \/ Lossy /\ OnTimeoutLog(n, s)
      PROVE  PaxosStep
  BY <1>0, <1>4, LogHandled, OthersHandled
<1>. QED  BY <1>1, <1>2, <1>3, <1>4 DEF Next

\* It holds in every reachable state.
LEMMA SpecPaxos ==
  ASSUME IdsFit, OneDigitNames
  PROVE  Spec => []PaxosInv
BY InitPaxos, NextPaxos, SpecIInv, PTL DEF Spec

\* However many nodes take the mastership over, and whatever is lost or late:
\* what a captain learned, as a proposer, from a piggybacked id, or from the
\* log, a majority accepted in one ballot (captain.cpp:363-384, 428-540,
\* commo.cpp:391-411).
THEOREM WhatIsLearnedWasChosen ==
  ASSUME IdsFit, OneDigitNames
  PROVE  Spec => []LearnedIsChosen
<1>1. PaxosInv => LearnedIsChosen
  BY DEF PaxosInv
<1>. QED  BY <1>1, SpecPaxos, PTL

\* Of two majorities that voted for v, or never will vote, in the same ballot
\* no other value can be chosen.
LEMMA OnlyChosen ==
  ASSUME TypeOK, PaxosInv, NEW w \in votes, NEW v,
         ChosenAt(w.slot, w.ballot, w.value),
         OnlyAt(votes, acceptors, w.slot, w.ballot, v)
  PROVE  v = w.value
<1>. DEFINE V == Voters(w.slot, w.ballot, w.value)
<1>1. PICK Q \in SUBSET Node :
        /\ Cardinality(Q) >= QSize
        /\ \A k \in Q : \/ VoteFor(k, w.slot, w.ballot, v) \in votes
                        \/ Wont(votes, acceptors, k, w.slot, w.ballot)
  BY DEF OnlyAt
<1>2. V \subseteq Node /\ Cardinality(V) >= QSize
  BY DEF Voters, ChosenAt
<1>. HIDE DEF V
<1>3. PICK k \in Q \cap V : TRUE
  <2>1. /\ IsFiniteSet(Node) /\ Cardinality(Node) = N
    BY NodeFinite, FS_Interval, ViewAssumption DEF Node
  <2>2. N \in Nat /\ QSize \in Nat /\ QSize + QSize > N
    BY ViewAssumption DEF QSize
  <2>3. /\ IsFiniteSet(Q) /\ IsFiniteSet(V)
        /\ Cardinality(Q) \in Nat /\ Cardinality(V) \in Nat
    BY <1>2, <2>1, FS_Subset, FS_CardinalityType
  <2>4. Cardinality(Q) + Cardinality(V) > Cardinality(Node)
    BY <1>1, <1>2, <2>1, <2>2, <2>3
  <2>5. Q \cap V # {}
    BY <1>2, <2>1, <2>4, FS_MajoritiesIntersect
  <2>. QED  BY <2>5
<1>4. VoteFor(k, w.slot, w.ballot, w.value) \in votes
  BY <1>3 DEF V, Voters, VoteFor
<1>5. VoteFor(k, w.slot, w.ballot, v) \in votes
  BY <1>1, <1>3, <1>4 DEF Wont, VoteFor
<1>6. /\ ProposedIn(proposals, w.slot, w.ballot, v)
      /\ ProposedIn(proposals, w.slot, w.ballot, w.value)
  BY <1>4, <1>5 DEF PaxosInv, VoteInv, VoteFor
<1>. QED  BY <1>6 DEF PaxosInv, ProposalInv, ProposedIn

\* Phase I keeps what was chosen: once a majority accepted w.value in a ballot,
\* whoever goes through Phase I above it proposes that value, or the value of
\* somebody who skipped Phase I above it (proposer.cpp:79-118,
\* acceptor.cpp:27-101).
THEOREM PhaseOneIsSafe ==
  ASSUME IdsFit, OneDigitNames
  PROVE  Spec => []PhaseOneKeepsChosen
<1>1. ASSUME TypeOK, PaxosInv
      PROVE  PhaseOneKeepsChosen
  <2>. SUFFICES ASSUME NEW x \in proposals, NEW w \in votes,
                       x.slot = w.slot, w.ballot <= x.ballot,
                       ChosenAt(w.slot, w.ballot, w.value)
       PROVE  \/ x.value = w.value
              \/ \E y \in proposals :
                   /\ y.slot = x.slot /\ y.direct /\ y.value = x.value
                   /\ w.ballot < y.ballot /\ y.ballot <= x.ballot
    BY Zenon DEF PhaseOneKeepsChosen
  <2>1. w.ballot \in Nat /\ \A y \in proposals : y.ballot \in Nat
    BY <1>1 DEF TypeOK, Vote, Proposal, Ballot
  <2>2. CASE w.ballot = x.ballot
    <3>1. ProposedIn(proposals, w.slot, w.ballot, w.value)
      BY <1>1 DEF PaxosInv, VoteInv
    <3>. QED  BY <1>1, <2>2, <3>1 DEF PaxosInv, ProposalInv, ProposedIn
  <2>3. CASE w.ballot < x.ballot /\ x.direct
    BY <2>1, <2>3
  <2>4. CASE w.ballot < x.ballot /\ ~x.direct
    <3>1. SafeAt(proposals, votes, acceptors, w.slot, x.ballot, x.value)
      BY <1>1, <2>4 DEF PaxosInv, SafeInv
    <3>2. CASE SkippedTo(proposals, w.slot, w.ballot, x.ballot, x.value)
      <4>1. PICK y \in proposals :
              /\ y.slot = w.slot /\ y.direct /\ y.value = x.value
              /\ w.ballot < y.ballot /\ y.ballot < x.ballot
        BY <3>2 DEF SkippedTo
      <4>. QED  BY <2>1, <4>1
    <3>3. CASE OnlyAt(votes, acceptors, w.slot, w.ballot, x.value)
      BY <1>1, <3>3, OnlyChosen
    <3>. QED  BY <2>1, <2>4, <3>1, <3>2, <3>3 DEF SafeAt
  <2>. QED  BY <2>1, <2>2, <2>3, <2>4
<1>2. IInv => TypeOK
  BY DEF IInv
<1>. QED  BY <1>1, <1>2, SpecPaxos, SpecIInv, PTL

\* Of two different values chosen in a slot, the one with the higher ballot
\* was proposed by somebody who skipped Phase I above the other's ballot.
SkippedADecision == \A u, w \in votes :
  /\ u.slot = w.slot /\ u.ballot <= w.ballot /\ u.value # w.value
  /\ ChosenAt(u.slot, u.ballot, u.value)
  /\ ChosenAt(w.slot, w.ballot, w.value)
  => \E y \in proposals :
       /\ y.slot = w.slot /\ y.direct /\ y.value = w.value
       /\ u.ballot < y.ballot /\ y.ballot <= w.ballot

\* Agreement is lost in no other way than that: the captain of a take-over
\* opens its slots in Phase II (captain.cpp:196-219), above what the master
\* before it decided.
THEOREM AgreementLostBySkipping ==
  ASSUME IdsFit, OneDigitNames
  PROVE  Spec => []SkippedADecision
<1>1. ASSUME PaxosInv, PhaseOneKeepsChosen
      PROVE  SkippedADecision
  <2>. SUFFICES ASSUME NEW u \in votes, NEW w \in votes,
                       u.slot = w.slot, u.ballot <= w.ballot,
                       u.value # w.value,
                       ChosenAt(u.slot, u.ballot, u.value)
       PROVE  \E y \in proposals :
                /\ y.slot = w.slot /\ y.direct /\ y.value = w.value
                /\ u.ballot < y.ballot /\ y.ballot <= w.ballot
    BY Zenon DEF SkippedADecision
  <2>1. PICK x \in proposals :
          x.slot = w.slot /\ x.ballot = w.ballot /\ x.value = w.value
    BY <1>1 DEF PaxosInv, VoteInv, ProposedIn
  <2>2. \/ x.value = u.value
        \/ \E y \in proposals :
             /\ y.slot = x.slot /\ y.direct /\ y.value = x.value
             /\ u.ballot < y.ballot /\ y.ballot <= x.ballot
    BY <1>1, <2>1 DEF PhaseOneKeepsChosen
  <2>. QED  BY <2>1, <2>2
<1>. QED  BY <1>1, SpecPaxos, PhaseOneIsSafe, PTL
=============================================================================
