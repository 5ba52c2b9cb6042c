----------------------------- MODULE LeaseProofs -----------------------------
(***************************************************************************)
(* One captain at work: either nobody takes the mastership over, or client *)
(* writes reach the master of the lease only.  For every number of nodes,  *)
(* slots and writes, whatever is lost, late, stopped or replaced by a      *)
(* spare node: Phase I is never run, and the captains implement the log.   *)
(***************************************************************************)
EXTENDS NaxosProofs

\* Only the master of the lease gets client writes, where others would take over.
SingleWriter == Recover => WriteNode \subseteq {LeaseMaster}

ProposedIn(s, v) == \E x \in proposals : x.slot = s /\ x.value = v

VoteFor(n, s, v) ==
  [node |-> n, slot |-> s, ballot |-> LeaseBallot, value |-> v]

\* The master of the lease stays the only one.
MasterInv == \A n \in Node : view[n].master = n <=> n = LeaseMaster

\* Slots are opened in order, each for one write, and each write once.
ProposalInv ==
  /\ \A x \in proposals : /\ x.slot <= maxSlot[LeaseMaster]
                          /\ x.value.data \notin unsent
  /\ \A x, y \in proposals :
       /\ x.slot = y.slot => x.value = y.value
       /\ x.value.data = y.value.data => x.slot = y.slot

\* The writes in a queue were received, not proposed yet, and are different.
Waits(queue, us) ==
  /\ \A i \in DOMAIN queue :
       /\ queue[i].client = queue[i].value.data
       /\ queue[i].client \notin us
       /\ \A x \in proposals : x.value.data # queue[i].client
  /\ \A i, j \in DOMAIN queue : queue[i].client = queue[j].client => i = j
WaitInv == Waits(tocommit[LeaseMaster], unsent)

\* Every vote is for the value proposed in its slot, under the lease's ballot.
VoteInv == \A w \in votes :
  w.ballot = LeaseBallot /\ ProposedIn(w.slot, w.value)

\* No acceptor has promised more, nor holds anything it has not voted for.
AcceptorInv == \A n \in Node, s \in Slot :
  /\ acceptors[n][s].maxProposed <= LeaseBallot
  /\ acceptors[n][s].maxValue # NULL =>
       VoteFor(n, s, acceptors[n][s].maxValue) \in votes

\* An open slot: what its proposer has, and that yes was voted
OpenOK(s, p) == p.status # "EMPTY" =>
  /\ p.status = "PHASEII" /\ p.ballot = LeaseBallot
  /\ p.value = p.init /\ p.client = p.init.data
  /\ ProposedIn(s, p.value)
  /\ \A m \in Node : p.accepteds[m] # "none" =>
       p.accepteds[m] = "yes" /\ VoteFor(m, s, p.value) \in votes
OpenInv == \A s \in Slot : OpenOK(s, proposers[LeaseMaster][s])

\* A message: an ACCEPT of what was proposed, which announces what its sender
\* knows, or a yes that was voted, or SET_QUORUM
MessageOK(m) ==
  /\ m.type \in {"ACCEPT", "ACCEPTED", "COMMAND"}
  /\ m.type = "ACCEPT" =>
       /\ m.ballot = LeaseBallot /\ ProposedIn(m.slot, m.value)
       /\ m.lastSlot # 0 =>
            /\ chosen[LeaseMaster][m.lastSlot] # NULL
            /\ chosen[LeaseMaster][m.lastSlot].id = m.lastValue
  /\ m.type = "ACCEPTED" =>
       /\ m.ballot = LeaseBallot /\ m.reply = "yes"
       /\ \E w \in votes : w.node = m.from /\ w.slot = m.slot
MessageInv == \A m \in net : MessageOK(m)

LeaseInv ==
  /\ MasterInv /\ ProposalInv /\ WaitInv /\ VoteInv /\ AcceptorInv
  /\ OpenInv /\ MessageInv /\ LearnedIsChosen

-----------------------------------------------------------------------------
(* What only grows *)

\* A step that adds votes and proposals and keeps what the master knows
Grows ==
  /\ votes \subseteq votes' /\ proposals \subseteq proposals'
  /\ \A s \in Slot : chosen[LeaseMaster][s] # NULL =>
       chosen'[LeaseMaster][s] = chosen[LeaseMaster][s]

\* Messages stay true.
LEMMA MessageStays ==
  ASSUME Grows, NEW m \in Messages, MessageOK(m)
  PROVE  MessageOK(m)'
<1>1. ASSUME m.type = "ACCEPT", m.lastSlot # 0
      PROVE  chosen'[LeaseMaster][m.lastSlot] = chosen[LeaseMaster][m.lastSlot]
  <2>1. m.lastSlot \in Slot
    BY <1>1, AnswerTypes, MessageAssumption DEF Slot
  <2>. QED  BY <1>1, <2>1 DEF Grows, MessageOK
<1>. QED  BY <1>1 DEF Grows, MessageOK, ProposedIn

\* So do open slots that are left alone.
LEMMA OpenStays ==
  ASSUME Grows, NEW s, NEW p, OpenOK(s, p)
  PROVE  OpenOK(s, p)'
BY DEF Grows, OpenOK, ProposedIn

\* A step that neither votes nor proposes nor learns keeps the invariant, if
\* no other node becomes master and no message becomes false.
LEMMA QuietKeeps ==
  ASSUME LeaseInv, MasterInv',
         UNCHANGED <<acceptors, proposers, votes, proposals, maxSlot, tocommit,
                     chosen>>,
         unsent' \subseteq unsent, \A m \in net' : MessageOK(m)
  PROVE  LeaseInv'
<1>1. ProposalInv' /\ WaitInv'
  BY DEF LeaseInv, ProposalInv, WaitInv, Waits
<1>2. VoteInv' /\ AcceptorInv' /\ OpenInv'
  BY DEF LeaseInv, VoteInv, AcceptorInv, OpenInv, OpenOK, ProposedIn
<1>3. MessageInv'
  BY DEF LeaseInv, MessageInv, MessageOK, ProposedIn
<1>4. LearnedIsChosen'
  BY ChosenSame DEF LeaseInv, LearnedIsChosen
<1>. QED  BY <1>1, <1>2, <1>3, <1>4 DEF LeaseInv

\* The lease's master is of the initial quorum.
LEMMA MasterNode == /\ LeaseMaster \in Node /\ LeaseMaster \in InitQuorum
                    /\ LeaseBallot \in Nat /\ LeaseBallot > 0
BY ViewAssumption, QuorumSizes DEF InitQuorum, LeaseBallot, Radix

\* It starts that way: nothing is proposed yet.
LEMMA LeaseInit == Init => LeaseInv
<1>. SUFFICES ASSUME Init  PROVE LeaseInv
  OBVIOUS
<1>. USE MasterNode DEF Init, CaptainInit
<1>1. MasterInv
  BY DEF MasterInv, InitView
<1>2. ProposalInv /\ WaitInv /\ VoteInv
  BY DEF ProposalInv, WaitInv, Waits, VoteInv
<1>3. AcceptorInv
  BY DEF AcceptorInv, NewAcceptor
<1>4. OpenInv
  BY DEF OpenInv, OpenOK, NoProposer
<1>5. MessageInv /\ LearnedIsChosen
  BY DEF MessageInv, LearnedIsChosen
<1>. QED  BY <1>1, <1>2, <1>3, <1>4, <1>5 DEF LeaseInv

-----------------------------------------------------------------------------
(* The queue *)

\* A received write may wait: nobody waits or was proposed for it yet.
LEMMA WaitsAppend ==
  ASSUME NEW queue \in Seq(Entry), NEW us, NEW vs \in SUBSET us,
         Waits(queue, us), NEW e \in Entry, e.client = e.value.data,
         e.client \in us, e.client \notin vs,
         \A x \in proposals : x.value.data \notin us
  PROVE  Waits(Append(queue, e), vs)
<1>1. /\ Len(queue) \in Nat /\ DOMAIN queue = 1 .. Len(queue)
      /\ DOMAIN Append(queue, e) = 1 .. Len(queue) + 1
      /\ \A i \in 1 .. Len(queue) : Append(queue, e)[i] = queue[i]
      /\ Append(queue, e)[Len(queue) + 1] = e
  BY AppendProperties, LenProperties
<1>2. \A i \in 1 .. Len(queue) : queue[i].client # e.client
  BY <1>1 DEF Waits
<1>. DEFINE a == Append(queue, e)
<1>. HIDE DEF a
<1>3. \A i \in DOMAIN a : i \in DOMAIN queue \/ i = Len(queue) + 1
  BY <1>1 DEF a
<1>4. \A i \in DOMAIN queue : a[i] = queue[i]
  BY <1>1 DEF a
<1>5. a[Len(queue) + 1] = e
  BY <1>1 DEF a
<1>6. \A i \in DOMAIN a :
        /\ a[i].client = a[i].value.data
        /\ a[i].client \notin vs
        /\ \A x \in proposals : x.value.data # a[i].client
  BY <1>3, <1>4, <1>5 DEF Waits
<1>7. \A i, j \in DOMAIN a : a[i].client = a[j].client => i = j
  BY <1>1, <1>2, <1>3, <1>4, <1>5 DEF Waits
<1>. QED  BY <1>6, <1>7 DEF Waits, a

\* The oldest write may be proposed, and the others go on waiting.
LEMMA WaitsHead ==
  ASSUME NEW queue \in Seq(Entry), queue # <<>>, NEW us, Waits(queue, us)
  PROVE  /\ Head(queue) \in Entry
         /\ Head(queue).client = Head(queue).value.data
         /\ Head(queue).client \notin us
         /\ \A x \in proposals : x.value.data # Head(queue).client
         /\ Tail(queue) \in Seq(Entry)
         /\ Waits(Tail(queue), us)
         /\ \A i \in DOMAIN Tail(queue) :
              Tail(queue)[i].client # Head(queue).client
<1>. DEFINE t == Tail(queue)
<1>1. /\ Head(queue) = queue[1] /\ 1 \in DOMAIN queue
      /\ queue[1] \in Entry /\ t \in Seq(Entry)
      /\ \A i \in DOMAIN t : t[i] = queue[i + 1]
      /\ \A i \in DOMAIN t : /\ i + 1 \in DOMAIN queue /\ i + 1 # 1
                             /\ i \in Nat
  <2>1. Len(queue) \in Nat /\ Len(queue) # 0 /\ DOMAIN queue = 1 .. Len(queue)
    BY EmptySeq, LenProperties
  <2>2. /\ Head(queue) = queue[1] /\ Head(queue) \in Entry
        /\ t \in Seq(Entry)
        /\ Len(t) = Len(queue) - 1
        /\ \A i \in 1 .. Len(t) : t[i] = queue[i + 1]
    BY HeadTailProperties
  <2>3. DOMAIN t = 1 .. Len(t)
    BY <2>2, LenProperties
  <2>. HIDE DEF t
  <2>. QED  BY <2>1, <2>2, <2>3
<1>. HIDE DEF t
<1>2. Waits(t, us) /\ \A i \in DOMAIN t : t[i].client # queue[1].client
  <2>1. \A i \in DOMAIN t : t[i].client # queue[1].client
    BY <1>1 DEF Waits
  <2>2. \A i, j \in DOMAIN t : t[i].client = t[j].client => i = j
    <3>. SUFFICES ASSUME NEW i \in DOMAIN t, NEW j \in DOMAIN t,
                         t[i].client = t[j].client
         PROVE  i = j
      OBVIOUS
    <3>1. i + 1 = j + 1
      BY <1>1 DEF Waits
    <3>. QED  BY <1>1, <3>1
  <2>3. \A i \in DOMAIN t :
          /\ t[i].client = t[i].value.data
          /\ t[i].client \notin us
          /\ \A x \in proposals : x.value.data # t[i].client
    BY <1>1 DEF Waits
  <2>. QED  BY <2>1, <2>2, <2>3 DEF Waits
<1>. QED  BY <1>1, <1>2 DEF t, Waits

-----------------------------------------------------------------------------
(* Opening a slot *)

\* The proposer that the master opens a slot with: Phase I is skipped, with
\* the first ballot, which is the lease's.
LEMMA OpeningProposer ==
  ASSUME NEW e \in Entry
  PROVE  LET p == Skip(NewProposer(e.value, e.client), LeaseMaster)
             r == AddAccepted(p, LeaseMaster, "yes")
         IN  /\ p \in ProposerType
             /\ p.ballot = LeaseBallot /\ p.value = e.value
             /\ r.status = "PHASEII" /\ r.ballot = LeaseBallot
             /\ r.value = e.value /\ r.init = e.value /\ r.client = e.client
             /\ \A m \in Node : r.accepteds[m] =
                                  IF m = LeaseMaster THEN "yes" ELSE "none"
<1>. DEFINE p0 == NewProposer(e.value, e.client)
            p  == Skip(p0, LeaseMaster)
            r  == AddAccepted(p, LeaseMaster, "yes")
<1>1. e.value \in Value /\ e.client \in Request \cup {NoRequest}
  BY DEF Entry
<1>2. /\ p0 \in ProposerType /\ p0.init = e.value /\ p0.client = e.client
      /\ p0.ballot = 0
      /\ p0.accepteds = [m \in Node |-> "none"]
  BY <1>1, NewProposerType DEF NewProposer, NoProposer
<1>. HIDE DEF p0
<1>3. /\ p \in ProposerType /\ p.ballot = LeaseBallot /\ p.value = e.value
      /\ p.status = "PHASEII" /\ p.init = e.value /\ p.client = e.client
      /\ p.accepteds = [m \in Node |-> "none"]
  <2>1. p \in ProposerType /\ p.status = "PHASEII" /\ p.value = e.value
        /\ p.init = e.value
    BY <1>2, SkipType, MasterNode
  <2>2. p.ballot = NextBallot(p0.ballot, LeaseMaster)
        /\ p.client = p0.client /\ p.accepteds = p0.accepteds
    BY <1>2 DEF Skip, ProposerType
  <2>3. NextBallot(p0.ballot, LeaseMaster) = LeaseBallot
    BY <1>2 DEF NextBallot, LeaseBallot
  <2>. QED  BY <1>2, <2>1, <2>2, <2>3
<1>. HIDE DEF p
<1>4. /\ r.status = "PHASEII" /\ r.ballot = LeaseBallot
      /\ r.value = e.value /\ r.init = e.value /\ r.client = e.client
      /\ r.accepteds = [p.accepteds EXCEPT ![LeaseMaster] = "yes"]
  BY <1>3 DEF AddAccepted, ProposerType
<1>. QED  BY <1>3, <1>4 DEF p, p0

\* What opening a slot does: one proposal, the master's own vote for it, and
\* ACCEPTs that announce nothing but what the master knows.
Opened(e, ch, others, msgs, s, r, x) ==
  /\ s = maxSlot[LeaseMaster] + 1 /\ s \in Slot
  /\ maxSlot' = [maxSlot EXCEPT ![LeaseMaster] = s]
  /\ r.status = "PHASEII" /\ r.ballot = LeaseBallot
  /\ r.value = e.value /\ r.init = e.value /\ r.client = e.client
  /\ \A m \in Node : r.accepteds[m] = IF m = LeaseMaster THEN "yes" ELSE "none"
  /\ proposers' = [proposers EXCEPT ![LeaseMaster] = [others EXCEPT ![s] = r]]
  /\ acceptors' = [acceptors EXCEPT ![LeaseMaster][s] =
       [maxProposed |-> LeaseBallot, maxAccepted |-> LeaseBallot,
        maxValue |-> e.value]]
  /\ votes' = votes \cup {VoteFor(LeaseMaster, s, e.value)}
  /\ x.slot = s /\ x.value = e.value
  /\ proposals' = proposals \cup {x}
  /\ \A m \in net' \ msgs :
       /\ m.type = "ACCEPT" /\ m.ballot = LeaseBallot
       /\ m.slot = s /\ m.value = e.value
       /\ m.lastSlot # 0 => ch[m.lastSlot] # NULL
                            /\ ch[m.lastSlot].id = m.lastValue

\* No acceptor has voted in a slot that was not opened.
LEMMA FreshSlot ==
  ASSUME IInv, LeaseInv, NEW n \in Node, NEW s \in Slot,
         s > maxSlot[LeaseMaster]
  PROVE  /\ acceptors[n][s].maxValue = NULL
         /\ \A x \in proposals : x.slot # s
         /\ \A w \in votes : w.slot # s
<1>1. \A x \in proposals : x.slot # s
  <2>1. /\ \A x \in proposals : x.slot \in Slot
        /\ maxSlot[LeaseMaster] \in Nat
    BY MasterNode, MessageAssumption DEF IInv, TypeOK, Proposal
  <2>. QED  BY <2>1 DEF LeaseInv, ProposalInv, Slot
<1>2. \A w \in votes : w.slot # s
  BY <1>1 DEF LeaseInv, VoteInv, ProposedIn
<1>3. acceptors[n][s].maxValue = NULL
  <2>1. ASSUME acceptors[n][s].maxValue # NULL  PROVE FALSE
    <3>1. VoteFor(n, s, acceptors[n][s].maxValue) \in votes
      BY <2>1 DEF LeaseInv, AcceptorInv
    <3>. QED  BY <3>1, <1>2 DEF VoteFor
  <2>. QED  BY <2>1
<1>. QED  BY <1>1, <1>2, <1>3

\* The own acceptor votes yes, in the slot nobody has voted in.
LEMMA OwnVote ==
  ASSUME IInv, LeaseInv, NEW s \in Slot, s > maxSlot[LeaseMaster],
         NEW v \in Value
  PROVE  LET a == acceptors[LeaseMaster][s]
         IN  /\ AcceptedOf(a, LeaseBallot) = "yes"
             /\ OnAccept(a, LeaseBallot, v) =
                  [maxProposed |-> LeaseBallot, maxAccepted |-> LeaseBallot,
                   maxValue |-> v]
             /\ VoteOf(LeaseMaster, s, LeaseBallot, v) =
                  {VoteFor(LeaseMaster, s, v)}
<1>. DEFINE a == acceptors[LeaseMaster][s]
<1>1. a.maxValue = NULL
  BY FreshSlot, MasterNode
<1>2. a.maxProposed <= LeaseBallot /\ a.maxProposed \in Nat
  BY MasterNode DEF LeaseInv, AcceptorInv, IInv, TypeOK, AcceptorType, Ballot
<1>3. Accepts(a, LeaseBallot)
  BY <1>2, MasterNode DEF Accepts
<1>4. NULL.id # v.id
  BY DEF NULL, Value
<1>. QED  BY <1>1, <1>3, <1>4 DEF AcceptedOf, OnAccept, VoteOf, VoteFor

\* Opening a slot has that effect (captain.cpp:196-219).
LEMMA OpenEffect ==
  ASSUME IInv, LeaseInv, NEW e \in Entry, NEW ch, NEW others, NEW q, NEW msgs,
         OpenSlot(LeaseMaster, e, ch, others, q, msgs)
  PROVE  \E s, r, x : Opened(e, ch, others, msgs, s, r, x)
<1>. DEFINE n == LeaseMaster
            s == maxSlot[n] + 1
            p == Skip(NewProposer(e.value, e.client), n)
            r == AddAccepted(p, n, "yes")
            x == [node |-> n, slot |-> s, ballot |-> p.ballot,
                  value |-> p.value, direct |-> Promised(p) = {}]
<1>1. /\ s \in Slot /\ s > maxSlot[n]
      /\ maxSlot' = [maxSlot EXCEPT ![n] = s]
      /\ e.value \in Value
  BY MasterNode, MessageAssumption DEF OpenSlot, IInv, TypeOK, Entry
<1>2. /\ p.ballot = LeaseBallot /\ p.value = e.value
      /\ r.status = "PHASEII" /\ r.ballot = LeaseBallot
      /\ r.value = e.value /\ r.init = e.value /\ r.client = e.client
      /\ \A m \in Node : r.accepteds[m] = IF m = n THEN "yes" ELSE "none"
  BY OpeningProposer
<1>3. PICK last, lastId :
        /\ BroadcastAccept(n, s, p, others, q, last, lastId, msgs)
        /\ last # 0 => ch[last] # NULL /\ ch[last].id = lastId
  <2>. HIDE DEF p, s
  <2>. QED  BY DEF OpenSlot, p, s
<1>. HIDE DEF p, r, s
<1>4. LET a == acceptors[n][s]
      IN  /\ AcceptedOf(a, LeaseBallot) = "yes"
          /\ OnAccept(a, LeaseBallot, e.value) =
               [maxProposed |-> LeaseBallot, maxAccepted |-> LeaseBallot,
                maxValue |-> e.value]
          /\ VoteOf(n, s, LeaseBallot, e.value) = {VoteFor(n, s, e.value)}
  BY <1>1, OwnVote
<1>5. /\ acceptors' = [acceptors EXCEPT ![n][s] =
            [maxProposed |-> LeaseBallot, maxAccepted |-> LeaseBallot,
             maxValue |-> e.value]]
      /\ proposers' = [proposers EXCEPT ![n] = [others EXCEPT ![s] = r]]
      /\ votes' = votes \cup {VoteFor(n, s, e.value)}
      /\ proposals' = proposals \cup {x}
  BY <1>2, <1>3, <1>4 DEF BroadcastAccept, r
<1>6. \A m \in net' \ msgs :
       /\ m.type = "ACCEPT" /\ m.ballot = LeaseBallot
       /\ m.slot = s /\ m.value = e.value
       /\ m.lastSlot # 0 => ch[m.lastSlot] # NULL
                            /\ ch[m.lastSlot].id = m.lastValue
  BY <1>2, <1>3 DEF BroadcastAccept, Accept
<1>7. x.slot = s /\ x.value = e.value
  BY <1>2
<1>8. s = maxSlot[n] + 1
  BY DEF s
<1>. HIDE DEF x
<1>9. Opened(e, ch, others, msgs, s, r, x)
  BY <1>1, <1>2, <1>5, <1>6, <1>7, <1>8, Zenon DEF Opened
<1>. QED  BY <1>9

\* The master opens a slot for the oldest write of the queue, having perhaps
\* learned a decision and closed another slot.
Opens(queue, ch, others, q, msgs) ==
  /\ queue \in Seq(Entry) /\ queue # <<>> /\ Waits(queue, unsent')
  /\ tocommit' = [tocommit EXCEPT ![LeaseMaster] = Tail(queue)]
  /\ chosen' = [chosen EXCEPT ![LeaseMaster] = ch]
  /\ \A s \in Slot :
       /\ chosen[LeaseMaster][s] # NULL => ch[s] = chosen[LeaseMaster][s]
       /\ ch[s] # NULL => ch[s] \in ChosenIn(s)
  /\ others \in [Slot -> ProposerType]
  /\ \A s \in Slot : OpenOK(s, others[s])
  /\ msgs \in SUBSET net
  /\ OpenSlot(LeaseMaster, Head(queue), ch, others, q, msgs)

\* That keeps the invariant.
LEMMA OpenKeeps ==
  ASSUME IInv, LeaseInv, IInv', MasterInv', unsent' \subseteq unsent,
         NEW queue, NEW ch, NEW others, NEW q, NEW msgs,
         Opens(queue, ch, others, q, msgs)
  PROVE  LeaseInv'
<1>. DEFINE n == LeaseMaster
            e == Head(queue)
<1>0. /\ queue \in Seq(Entry) /\ queue # <<>> /\ Waits(queue, unsent')
      /\ tocommit' = [tocommit EXCEPT ![n] = Tail(queue)]
      /\ chosen' = [chosen EXCEPT ![n] = ch]
      /\ \A s \in Slot : /\ chosen[n][s] # NULL => ch[s] = chosen[n][s]
                         /\ ch[s] # NULL => ch[s] \in ChosenIn(s)
      /\ others \in [Slot -> ProposerType]
      /\ \A s \in Slot : OpenOK(s, others[s])
      /\ msgs \in SUBSET net
      /\ OpenSlot(n, e, ch, others, q, msgs)
  BY DEF Opens
<1>. USE <1>0, MasterNode
<1>1. /\ e \in Entry /\ e.client = e.value.data /\ e.client \notin unsent'
      /\ \A x \in proposals : x.value.data # e.client
      /\ Tail(queue) \in Seq(Entry) /\ Waits(Tail(queue), unsent')
      /\ \A i \in DOMAIN Tail(queue) : Tail(queue)[i].client # e.client
  BY WaitsHead
<1>2. PICK s, r, x : Opened(e, ch, others, msgs, s, r, x)
  BY <1>1, OpenEffect
<1>. DEFINE v == e.value
            w == VoteFor(n, s, v)
<1>3. /\ s = maxSlot[n] + 1 /\ s \in Slot /\ s > maxSlot[n]
      /\ maxSlot'[n] = s /\ maxSlot[n] \in Nat
      /\ x.slot = s /\ x.value = v
      /\ proposals' = proposals \cup {x}
      /\ votes' = votes \cup {w}
  BY <1>2, MessageAssumption DEF Opened, IInv, TypeOK
<1>4. /\ chosen'[n] = ch
      /\ \A k \in Node \ {n} : chosen'[k] = chosen[k]
      /\ tocommit'[n] = Tail(queue)
  BY DEF IInv, TypeOK
<1>5. Grows
  BY <1>3, <1>4 DEF Grows
<1>6. /\ \A y \in proposals : y.slot # s
      /\ \A u \in votes : u.slot # s
  BY <1>3, FreshSlot
<1>7. acceptors' = [acceptors EXCEPT ![n][s] =
        [maxProposed |-> LeaseBallot, maxAccepted |-> LeaseBallot,
         maxValue |-> v]]
  BY <1>2 DEF Opened
<1>. HIDE DEF e, w
<1>8. ProposalInv'
  <2>1. \A y \in proposals : /\ y.slot <= maxSlot[n] /\ y.slot \in Slot
                             /\ y.value.data \notin unsent
    BY DEF LeaseInv, ProposalInv, IInv, TypeOK, Proposal
  <2>2. \A y \in proposals' : /\ y.slot <= maxSlot'[n]
                              /\ y.value.data \notin unsent'
    <3>1. \A y \in proposals : y.slot <= s
      BY <1>3, <2>1 DEF Slot
    <3>. QED  BY <1>1, <1>3, <2>1, <3>1
  <2>3. \A y, z \in proposals' :
          /\ y.slot = z.slot => y.value = z.value
          /\ y.value.data = z.value.data => y.slot = z.slot
    <3>. SUFFICES ASSUME NEW y \in proposals', NEW z \in proposals'
         PROVE  /\ y.slot = z.slot => y.value = z.value
                /\ y.value.data = z.value.data => y.slot = z.slot
      OBVIOUS
    <3>1. CASE y \in proposals /\ z \in proposals
      BY <3>1 DEF LeaseInv, ProposalInv
    <3>2. CASE y = x \/ z = x
      BY <1>1, <1>3, <1>6, <3>2
    <3>. QED  BY <1>3, <3>1, <3>2
  <2>. QED  BY <2>2, <2>3 DEF ProposalInv
<1>9. WaitInv'
  <2>. DEFINE t == Tail(queue)
  <2>1. Waits(t, unsent') /\ \A i \in DOMAIN t : t[i].client # e.client
    BY <1>1
  <2>2. tocommit'[n] = t
    BY <1>4
  <2>. HIDE DEF t
  <2>3. \A i \in DOMAIN t :
          /\ t[i].client = t[i].value.data
          /\ t[i].client \notin unsent'
          /\ \A y \in proposals' : y.value.data # t[i].client
    BY <1>1, <1>3, <2>1 DEF Waits
  <2>4. \A i, j \in DOMAIN t : t[i].client = t[j].client => i = j
    BY <2>1 DEF Waits
  <2>. QED  BY <2>2, <2>3, <2>4 DEF WaitInv, Waits
<1>10. /\ acceptors'[n][s].maxProposed = LeaseBallot
       /\ acceptors'[n][s].maxValue = v
       /\ \A k \in Node, t \in Slot :
            k # n \/ t # s => acceptors'[k][t] = acceptors[k][t]
  BY <1>3, <1>7 DEF IInv, TypeOK
<1>11. w.node = n /\ w.slot = s /\ w.ballot = LeaseBallot /\ w.value = v
  BY DEF w, VoteFor
<1>12. VoteInv'
  <2>1. w.ballot = LeaseBallot /\ ProposedIn(w.slot, w.value)'
    BY <1>3, <1>11 DEF ProposedIn
  <2>2. \A u \in votes : u.ballot = LeaseBallot /\ ProposedIn(u.slot, u.value)'
    BY <1>3 DEF LeaseInv, VoteInv, ProposedIn
  <2>. QED  BY <1>3, <2>1, <2>2 DEF VoteInv
<1>13. AcceptorInv'
  <2>. SUFFICES ASSUME NEW k \in Node, NEW t \in Slot
       PROVE  /\ acceptors'[k][t].maxProposed <= LeaseBallot
              /\ acceptors'[k][t].maxValue # NULL =>
                   VoteFor(k, t, acceptors'[k][t].maxValue) \in votes'
    BY DEF AcceptorInv
  <2>1. CASE k = n /\ t = s
    BY <1>3, <1>10, <2>1 DEF w
  <2>2. CASE k # n \/ t # s
    BY <1>3, <1>10, <2>2 DEF LeaseInv, AcceptorInv
  <2>. QED  BY <2>1, <2>2
<1>14. OpenInv'
  <2>1. /\ proposers'[n][s] = r
        /\ \A t \in Slot \ {s} : proposers'[n][t] = others[t]
    BY <1>2, <1>3 DEF Opened, IInv, TypeOK
  <2>2. OpenOK(s, r)'
    <3>1. /\ r.status = "PHASEII" /\ r.ballot = LeaseBallot
          /\ r.value = v /\ r.init = v /\ r.client = e.client
          /\ \A m \in Node : r.accepteds[m] =
               IF m = LeaseMaster THEN "yes" ELSE "none"
      BY <1>2 DEF Opened
    <3>2. ProposedIn(s, v)'
      BY <1>3 DEF ProposedIn
    <3>. QED  BY <1>1, <1>3, <3>1, <3>2 DEF OpenOK, w
  <2>3. \A t \in Slot : OpenOK(t, others[t])'
    BY <1>5, OpenStays
  <2>. QED  BY <2>1, <2>2, <2>3 DEF OpenInv
<1>15. MessageInv'
  <2>. SUFFICES ASSUME NEW m \in net'  PROVE MessageOK(m)'
    BY DEF MessageInv
  <2>1. CASE m \in msgs
    BY <1>5, <2>1, MessageStays DEF LeaseInv, MessageInv, IInv, TypeOK
  <2>2. CASE m \notin msgs
    <3>1. /\ m.type = "ACCEPT" /\ m.ballot = LeaseBallot
          /\ m.slot = s /\ m.value = v
          /\ m.lastSlot # 0 => ch[m.lastSlot] # NULL
                               /\ ch[m.lastSlot].id = m.lastValue
      BY <1>2, <2>2 DEF Opened
    <3>. QED  BY <1>3, <1>4, <3>1 DEF MessageOK, ProposedIn
  <2>. QED  BY <2>1, <2>2
<1>16. LearnedIsChosen'
  <2>. SUFFICES ASSUME NEW k \in Node, NEW t \in Slot, chosen'[k][t] # NULL
       PROVE  chosen'[k][t] \in ChosenIn(t)'
    BY DEF LearnedIsChosen
  <2>1. chosen'[k][t] \in ChosenIn(t)
    BY <1>4 DEF LeaseInv, LearnedIsChosen
  <2>. QED  BY <2>1, <1>5, ChosenGrows DEF Grows
<1>. QED  BY <1>8, <1>9, <1>12, <1>13, <1>14, <1>15, <1>16 DEF LeaseInv

-----------------------------------------------------------------------------
(* Messages *)

\* A slot has one value that may be proposed, and so be chosen.
OneProposal == \A s, v, w : ProposedIn(s, v) /\ ProposedIn(s, w) => v = w
ChosenIsProposed == \A s : \A v \in ChosenIn(s) : ProposedIn(s, v)

\* So it is: slots are proposed once, and votes are for what was proposed.
LEMMA OneValue == ProposalInv /\ VoteInv => OneProposal /\ ChosenIsProposed
<1>1. ProposalInv => OneProposal
  BY DEF ProposalInv, OneProposal, ProposedIn
<1>2. VoteInv => ChosenIsProposed
  BY DEF VoteInv, ChosenIsProposed, ChosenIn
<1>. QED  BY <1>1, <1>2

\* An acceptor says yes to an ACCEPT, and then holds what is proposed
\* (acceptor.cpp:61-101).
LEMMA Voting ==
  ASSUME IInv, LeaseInv, NEW m \in net, HandleAccept(m)
  PROVE  LET n == m.to
             s == m.slot
             w == VoteFor(n, s, m.value)
         IN  /\ n \in Node /\ s \in Slot /\ ProposedIn(s, m.value)
             /\ AcceptedOf(acceptors[n][s], m.ballot) = "yes"
             /\ votes' = votes \cup {w}
             /\ acceptors'[n][s].maxProposed = LeaseBallot
             /\ acceptors'[n][s].maxValue = m.value
             /\ \A k \in Node, t \in Slot :
                  k # n \/ t # s => acceptors'[k][t] = acceptors[k][t]
<1>. DEFINE n == m.to
            s == m.slot
            a == acceptors[n][s]
<1>1. /\ n \in Node /\ s \in Slot /\ m.type = "ACCEPT" /\ m.value \in Value
  BY AnswerTypes DEF IInv, TypeOK, HandleAccept, AcceptAtSlot, Arrives
<1>2. m.ballot = LeaseBallot /\ ProposedIn(s, m.value)
  BY <1>1 DEF LeaseInv, MessageInv, MessageOK
<1>3. a \in AcceptorType /\ a.maxProposed <= LeaseBallot
  BY <1>1 DEF LeaseInv, AcceptorInv, IInv, TypeOK
<1>4. Accepts(a, m.ballot)
  BY <1>2, <1>3, MasterNode DEF Accepts, AcceptorType, Ballot
<1>5. a.maxValue # NULL => a.maxValue = m.value
  <2>1. ASSUME a.maxValue # NULL  PROVE a.maxValue = m.value
    <3>1. VoteFor(n, s, a.maxValue) \in votes
      BY <1>1, <2>1 DEF LeaseInv, AcceptorInv
    <3>2. ProposedIn(s, a.maxValue)
      BY <3>1 DEF LeaseInv, VoteInv, VoteFor
    <3>. QED  BY <1>2, <3>2, OneValue DEF LeaseInv, OneProposal
  <2>. QED  BY <2>1
<1>6. OnAccept(a, m.ballot, m.value) =
        [maxProposed |-> LeaseBallot, maxAccepted |-> LeaseBallot,
         maxValue |-> m.value]
  <2>1. NULL.id # m.value.id
    BY <1>1 DEF NULL, Value
  <2>. QED  BY <1>2, <1>4, <1>5, <2>1 DEF OnAccept
<1>7. VoteOf(n, s, m.ballot, m.value) = {VoteFor(n, s, m.value)}
  BY <1>2, <1>4 DEF VoteOf, VoteFor
<1>8. AcceptedOf(a, m.ballot) = "yes"
  BY <1>4 DEF AcceptedOf
<1>9. /\ acceptors' = [acceptors EXCEPT ![n][s] =
                         OnAccept(a, m.ballot, m.value)]
      /\ votes' = votes \cup VoteOf(n, s, m.ballot, m.value)
  BY DEF HandleAccept, AcceptAtSlot
<1>10. acceptors' = [acceptors EXCEPT ![n][s] =
         [maxProposed |-> LeaseBallot, maxAccepted |-> LeaseBallot,
          maxValue |-> m.value]]
  BY <1>6, <1>9
<1>11. /\ acceptors'[n][s].maxProposed = LeaseBallot
       /\ acceptors'[n][s].maxValue = m.value
       /\ \A k \in Node, t \in Slot :
            k # n \/ t # s => acceptors'[k][t] = acceptors[k][t]
  BY <1>1, <1>10 DEF IInv, TypeOK
<1>. QED  BY <1>1, <1>2, <1>7, <1>8, <1>9, <1>11

\* The handler of ACCEPT: a vote for what is proposed, and perhaps the
\* decision that the ACCEPT announces.
LEMMA AcceptKeepsLease ==
  ASSUME IInv, LeaseInv, IInv', NEW m \in net, HandleAccept(m)
  PROVE  LeaseInv'
<1>. DEFINE n == m.to
            s == m.slot
            v == m.value
            w == VoteFor(n, s, v)
<1>1. /\ n \in Node /\ s \in Slot /\ ProposedIn(s, v)
      /\ votes' = votes \cup {w}
      /\ acceptors'[n][s].maxProposed = LeaseBallot
      /\ acceptors'[n][s].maxValue = v
      /\ \A k \in Node, t \in Slot :
           k # n \/ t # s => acceptors'[k][t] = acceptors[k][t]
  BY Voting
<1>2. UNCHANGED <<view, maxSlot, tocommit, proposers, proposals, unsent>>
  BY DEF HandleAccept, AcceptAtSlot, nodeVars
<1>3. w.node = n /\ w.slot = s /\ w.ballot = LeaseBallot /\ w.value = v
  BY DEF VoteFor
<1>. HIDE DEF w
<1>4. MasterInv' /\ ProposalInv' /\ WaitInv'
  BY <1>2 DEF LeaseInv, MasterInv, ProposalInv, WaitInv, Waits
<1>5. VoteInv'
  <2>1. w.ballot = LeaseBallot /\ ProposedIn(w.slot, w.value)'
    BY <1>1, <1>2, <1>3 DEF ProposedIn
  <2>2. \A u \in votes : u.ballot = LeaseBallot /\ ProposedIn(u.slot, u.value)'
    BY <1>2 DEF LeaseInv, VoteInv, ProposedIn
  <2>. QED  BY <1>1, <2>1, <2>2 DEF VoteInv
<1>6. AcceptorInv'
  <2>. SUFFICES ASSUME NEW k \in Node, NEW t \in Slot
       PROVE  /\ acceptors'[k][t].maxProposed <= LeaseBallot
              /\ acceptors'[k][t].maxValue # NULL =>
                   VoteFor(k, t, acceptors'[k][t].maxValue) \in votes'
    BY DEF AcceptorInv
  <2>1. CASE k = n /\ t = s
    BY <1>1, <2>1, MasterNode DEF w
  <2>2. CASE k # n \/ t # s
    BY <1>1, <2>2 DEF LeaseInv, AcceptorInv
  <2>. QED  BY <2>1, <2>2
<1>7. \A k \in Node, t \in Slot :
        /\ chosen[k][t] # NULL => chosen'[k][t] = chosen[k][t]
        /\ chosen'[k][t] # NULL => chosen'[k][t] \in ChosenIn(t)'
  <2>. SUFFICES ASSUME NEW k \in Node, NEW t \in Slot
       PROVE  /\ chosen[k][t] # NULL => chosen'[k][t] = chosen[k][t]
              /\ chosen'[k][t] # NULL => chosen'[k][t] \in ChosenIn(t)'
    OBVIOUS
  <2>1. \A j \in Node : chosen[j][t] # NULL => chosen[j][t] \in ChosenIn(t)'
    BY <1>1, ChosenGrows DEF LeaseInv, LearnedIsChosen
  <2>2. CASE chosen'[k][t] = chosen[k][t]
    BY <2>1, <2>2
  <2>3. CASE chosen'[k][t] # chosen[k][t]
    <3>. DEFINE l == m.lastSlot
    <3>. PICK h : h = acceptors'[n][l].maxValue
      OBVIOUS
    <3>1. /\ m.type = "ACCEPT" /\ HoldsLast(m) /\ ~KnowsLast(m)
          /\ chosen' = [chosen EXCEPT ![n] = AddChosen(@, l, h)]
      BY <2>3 DEF HandleAccept, AcceptAtSlot, Arrives
    <3>2. l \in Slot /\ h # NULL /\ l # 0 /\ chosen[n][l] = NULL
      <4>1. l \in 0 .. MaxSlot
        BY <3>1, AnswerTypes DEF IInv, TypeOK
      <4>2. h # NULL /\ l # 0 /\ chosen[n][l] = NULL
        BY <3>1 DEF HoldsLast, KnowsLast
      <4>. QED  BY <4>1, <4>2, MessageAssumption DEF Slot
    <3>3. k = n /\ t = l /\ chosen'[k][t] = h
      <4>. DEFINE c == AddChosen(chosen[n], l, h)
      <4>1. /\ chosen'[n] = c
            /\ \A j \in Node \ {n} : chosen'[j] = chosen[j]
        BY <1>1, <3>1 DEF IInv, TypeOK
      <4>2. c[l] = h /\ \A j \in Slot \ {l} : c[j] = chosen[n][j]
        BY <1>1, <3>2 DEF AddChosen, IInv, TypeOK
      <4>. HIDE DEF c
      <4>. QED  BY <2>3, <4>1, <4>2
    <3>4. ProposedIn(l, h)'
      <4>1. VoteFor(n, l, h) \in votes'
        BY <1>1, <1>6, <3>2 DEF AcceptorInv
      <4>. QED  BY <4>1, <1>5 DEF VoteInv, VoteFor
    <3>5. PICK c \in ChosenIn(l)' : TRUE
      <4>1. chosen[LeaseMaster][l] # NULL
        BY <3>1, <3>2 DEF LeaseInv, MessageInv, MessageOK
      <4>. QED  BY <2>1, <3>3, <4>1, MasterNode
    <3>6. OneProposal' /\ ChosenIsProposed'
      BY <1>4, <1>5, OneValue, PTL
    <3>7. ProposedIn(l, c)'
      BY <3>5, <3>6 DEF ChosenIsProposed
    <3>8. h = c
      BY <3>4, <3>6, <3>7 DEF OneProposal
    <3>. QED  BY <3>2, <3>3, <3>5, <3>8
  <2>. QED  BY <2>2, <2>3
<1>8. Grows
  BY <1>1, <1>2, <1>7, MasterNode DEF Grows
<1>9. OpenInv'
  <2>1. \A t \in Slot : OpenOK(t, proposers[LeaseMaster][t])'
    <3>. SUFFICES ASSUME NEW t \in Slot
         PROVE  OpenOK(t, proposers[LeaseMaster][t])'
      OBVIOUS
    <3>1. OpenOK(t, proposers[LeaseMaster][t])
      BY DEF LeaseInv, OpenInv
    <3>. QED  BY <1>2, <1>8, <3>1 DEF Grows, OpenOK, ProposedIn
  <2>. QED  BY <2>1 DEF OpenInv
<1>10. MessageInv'
  <2>. SUFFICES ASSUME NEW x \in net'  PROVE MessageOK(x)'
    BY DEF MessageInv
  <2>1. CASE x \in net
    BY <1>8, <2>1, MessageStays DEF LeaseInv, MessageInv, IInv, TypeOK
  <2>2. CASE x \notin net
    <3>1. x = AcceptedTo(m, "yes")
      BY <2>2, Voting DEF HandleAccept, ReplyAccepted
    <3>2. /\ x.type = "ACCEPTED" /\ x.ballot = LeaseBallot /\ x.reply = "yes"
          /\ x.from = n /\ x.slot = s
      <4>1. m.ballot = LeaseBallot
        BY DEF LeaseInv, MessageInv, MessageOK, HandleAccept, AcceptAtSlot,
               Arrives
      <4>. QED  BY <3>1, <4>1 DEF AcceptedTo
    <3>. QED  BY <1>1, <1>3, <3>2 DEF MessageOK
  <2>. QED  BY <2>1, <2>2
<1>11. LearnedIsChosen'
  BY <1>7 DEF LearnedIsChosen
<1>. QED  BY <1>4, <1>5, <1>6, <1>9, <1>10, <1>11 DEF LeaseInv

\* A step that neither votes nor proposes, and learns only what is chosen
\* (the log; an ACCEPTED after which no slot is opened), keeps the invariant.
LEMMA LearningKeeps ==
  ASSUME IInv, LeaseInv, net' \subseteq net,
         UNCHANGED <<view, acceptors, votes, proposals, maxSlot, tocommit,
                     unsent>>,
         \A s \in Slot : OpenOK(s, proposers'[LeaseMaster][s]),
         \A k \in Node, s \in Slot :
           /\ chosen[k][s] # NULL => chosen'[k][s] = chosen[k][s]
           /\ chosen'[k][s] # NULL => chosen'[k][s] \in ChosenIn(s)
  PROVE  LeaseInv'
<1>1. Grows
  BY MasterNode DEF Grows
<1>2. MasterInv' /\ ProposalInv' /\ WaitInv'
  BY DEF LeaseInv, MasterInv, ProposalInv, WaitInv, Waits
<1>3. VoteInv' /\ AcceptorInv'
  BY DEF LeaseInv, VoteInv, AcceptorInv, ProposedIn
<1>4. OpenInv'
  BY DEF OpenInv, OpenOK, ProposedIn
<1>5. MessageInv'
  BY <1>1, MessageStays DEF LeaseInv, MessageInv, IInv, TypeOK
<1>6. LearnedIsChosen'
  BY <1>1, ChosenGrows DEF LearnedIsChosen, Grows
<1>. QED  BY <1>2, <1>3, <1>4, <1>5, <1>6 DEF LeaseInv

\* An ACCEPTED that counts is a yes to the master, whose proposer stays true.
LEMMA Counting ==
  ASSUME IInv, LeaseInv, NEW m \in net, HandleAccepted(m)
  PROVE  LET s == m.slot
             p == AddAccepted(proposers[LeaseMaster][s], m.from, m.reply)
         IN  /\ m.to = LeaseMaster /\ s \in Slot
             /\ p \in ProposerType /\ p.status = "PHASEII"
             /\ OpenOK(s, p)
<1>. DEFINE n == m.to
            s == m.slot
            b == proposers[n][s]
            p == AddAccepted(b, m.from, m.reply)
<1>1. /\ n \in Node /\ s \in Slot /\ m.from \in Node /\ m.reply \in Answer
      /\ m.type = "ACCEPTED"
  BY AnswerTypes DEF IInv, TypeOK, HandleAccepted, Arrives, Answer
<1>2. b \in ProposerType
  BY <1>1 DEF IInv, TypeOK
<1>3. /\ p \in ProposerType /\ p.status = "PHASEII" /\ b.status = "PHASEII"
      /\ p.value = b.value /\ p.init = b.init
      /\ p.ballot = b.ballot /\ p.client = b.client
      /\ p.accepteds = [b.accepteds EXCEPT ![m.from] = m.reply]
  <2>1. p \in ProposerType /\ p.status = b.status /\ p.value = b.value
        /\ p.init = b.init
    BY <1>1, <1>2, AddTypes
  <2>2. p.status = "PHASEII"
    BY DEF HandleAccepted
  <2>. QED  BY <1>2, <2>1, <2>2 DEF AddAccepted, ProposerType
<1>4. n = LeaseMaster
  BY <1>1, <1>3 DEF IInv, ProposerInv, LeaseInv, MasterInv
<1>5. OpenOK(s, b)
  BY <1>1, <1>4 DEF LeaseInv, OpenInv
<1>6. m.reply = "yes" /\ VoteFor(m.from, s, b.value) \in votes
  <2>1. PICK w \in votes : w.node = m.from /\ w.slot = s
    BY <1>1 DEF LeaseInv, MessageInv, MessageOK
  <2>2. w.ballot = LeaseBallot /\ ProposedIn(s, w.value)
    BY <2>1 DEF LeaseInv, VoteInv
  <2>3. w.value = b.value
    BY <1>3, <1>5, <2>2, OneValue DEF LeaseInv, OneProposal, OpenOK
  <2>4. w \in Vote
    BY DEF IInv, TypeOK
  <2>5. w = VoteFor(m.from, s, b.value)
    BY <2>1, <2>2, <2>3, <2>4 DEF Vote, VoteFor
  <2>. QED  BY <1>1, <2>5 DEF LeaseInv, MessageInv, MessageOK
<1>. HIDE DEF p
<1>7. \A k \in Node : p.accepteds[k] =
        IF k = m.from THEN "yes" ELSE b.accepteds[k]
  BY <1>1, <1>2, <1>3, <1>6 DEF ProposerType
<1>8. OpenOK(s, p)
  BY <1>3, <1>5, <1>6, <1>7 DEF OpenOK
<1>. QED  BY <1>1, <1>3, <1>4, <1>8 DEF p

\* Enough answers to an open slot: they are all yes, and the value is chosen.
LEMMA Verdict ==
  ASSUME NEW s \in Slot, NEW p \in ProposerType, p.status = "PHASEII",
         OpenOK(s, p)
  PROVE  /\ AcceptedVerdict(p) # "RESTART"
         /\ AcceptedVerdict(p) = "CHOOSE" => p.value \in ChosenIn(s)
<1>1. Answered(p) = AnsweredYes(p)
  BY DEF Answered, AnsweredYes, OpenOK
<1>2. AcceptedVerdict(p) = "CHOOSE" => Cardinality(AnsweredYes(p)) >= QSize
  BY DEF AcceptedVerdict
<1>3. /\ IsFiniteSet(AnsweredYes(p)) /\ Cardinality(AnsweredYes(p)) \in Nat
      /\ AnsweredYes(p) \subseteq Node
  BY NodeFinite, FS_Subset, FS_CardinalityType DEF AnsweredYes
<1>4. AcceptedVerdict(p) # "RESTART"
  BY <1>1, <1>3, QuorumSizes DEF AcceptedVerdict
<1>5. ASSUME Cardinality(AnsweredYes(p)) >= QSize
      PROVE  p.value \in ChosenIn(s)
  <2>. DEFINE V == Voters(s, LeaseBallot, p.value)
  <2>1. V \subseteq Node /\ AnsweredYes(p) \subseteq V
    BY DEF Voters, AnsweredYes, OpenOK, VoteFor
  <2>2. IsFiniteSet(V) /\ Cardinality(V) \in Nat
        /\ Cardinality(AnsweredYes(p)) <= Cardinality(V)
    <3>. HIDE DEF V
    <3>. QED  BY <2>1, NodeFinite, FS_Subset, FS_CardinalityType
  <2>3. ChosenAt(s, LeaseBallot, p.value)
    BY <1>3, <1>5, <2>2, QuorumSizes DEF ChosenAt
  <2>4. PICK k \in AnsweredYes(p) : TRUE
    <3>1. AnsweredYes(p) # {}
      BY <1>5, QuorumSizes, FS_EmptySet
    <3>. QED  BY <3>1
  <2>5. VoteFor(k, s, p.value) \in votes
    BY <2>4 DEF AnsweredYes, OpenOK
  <2>. QED  BY <2>3, <2>5 DEF ChosenIn, VoteFor
<1>. QED  BY <1>2, <1>4, <1>5

\* The handler of ACCEPTED: the answer is counted, or the slot is closed with
\* its value chosen, and the next one opened if a write waits.
LEMMA AcceptedKeepsLease ==
  ASSUME IInv, LeaseInv, IInv', NEW m \in net, HandleAccepted(m)
  PROVE  LeaseInv'
<1>. DEFINE n  == LeaseMaster
            s  == m.slot
            p  == AddAccepted(proposers[n][s], m.from, m.reply)
            ch == AddChosen(chosen[n], s, p.value)
            others == [proposers[n] EXCEPT ![s] = NoProposer]
<1>. USE MasterNode
<1>1. /\ m.to = n /\ s \in Slot
      /\ p \in ProposerType /\ p.status = "PHASEII" /\ OpenOK(s, p)
  BY Counting
<1>2. AcceptedVerdict(p) # "RESTART"
      /\ (AcceptedVerdict(p) = "CHOOSE" => p.value \in ChosenIn(s))
  BY <1>1, Verdict
<1>3. proposers[n] \in [Slot -> ProposerType]
      /\ \A t \in Slot : OpenOK(t, proposers[n][t])
  BY DEF IInv, TypeOK, LeaseInv, OpenInv
<1>4. UNCHANGED <<view, unsent>>
  BY DEF HandleAccepted
<1>5. \A k \in Node, t \in Slot :
        chosen[k][t] # NULL => chosen[k][t] \in ChosenIn(t)
  BY DEF LeaseInv, LearnedIsChosen
<1>. HIDE DEF p
<1>6. CASE /\ AcceptedVerdict(p) = "NOT_ENOUGH"
           /\ proposers' = [proposers EXCEPT ![n][s] = p]
           /\ net' = net \ {m}
           /\ UNCHANGED <<acceptors, votes, proposals, chosen, informed,
                          maxSlot, lastSlot, tocommit>>
  <2>1. \A t \in Slot : OpenOK(t, proposers'[n][t])
    BY <1>1, <1>3, <1>6 DEF IInv, TypeOK
  <2>. QED  BY <1>4, <1>5, <1>6, <2>1, LearningKeeps
<1>7. CASE AcceptedVerdict(p) = "CHOOSE" /\ ChooseOwn(m, p)
  <2>1. /\ others \in [Slot -> ProposerType]
        /\ \A t \in Slot : OpenOK(t, others[t])
    <3>1. NoProposer \in ProposerType /\ OpenOK(s, NoProposer)
      BY NoProposerType DEF OpenOK, NoProposer
    <3>. QED  BY <1>1, <1>3, <3>1
  <2>2. /\ \A t \in Slot : chosen[n][t] # NULL => ch[t] = chosen[n][t]
        /\ \A t \in Slot : ch[t] # NULL => ch[t] \in ChosenIn(t)
    BY <1>1, <1>2, <1>5, <1>7 DEF AddChosen, IInv, TypeOK
  <2>3. chosen' = [chosen EXCEPT ![n] = ch]
    BY <1>1, <1>7 DEF ChooseOwn
  <2>4. CASE /\ tocommit[n] = <<>>
             /\ proposers' = [proposers EXCEPT ![n] = others]
             /\ net' = net \ {m}
             /\ UNCHANGED <<acceptors, votes, proposals, maxSlot, lastSlot,
                            tocommit>>
    <3>1. \A t \in Slot : OpenOK(t, proposers'[n][t])
      BY <2>1, <2>4 DEF IInv, TypeOK
    <3>2. \A k \in Node, t \in Slot :
            /\ chosen[k][t] # NULL => chosen'[k][t] = chosen[k][t]
            /\ chosen'[k][t] # NULL => chosen'[k][t] \in ChosenIn(t)
      <4>. HIDE DEF ch
      <4>1. /\ chosen'[n] = ch
            /\ \A k \in Node \ {n} : chosen'[k] = chosen[k]
        BY <2>3 DEF IInv, TypeOK
      <4>. QED  BY <1>5, <2>2, <4>1
    <3>. QED  BY <1>4, <2>4, <3>1, <3>2, LearningKeeps
  <2>5. CASE /\ tocommit[n] # <<>>
             /\ tocommit' = [tocommit EXCEPT ![n] = Tail(@)]
             /\ OpenSlot(n, Head(tocommit[n]), ch, others, view[n].quorums,
                         net \ {m})
    <3>1. tocommit[n] \in Seq(Entry) /\ Waits(tocommit[n], unsent')
      BY <1>4 DEF IInv, TypeOK, LeaseInv, WaitInv
    <3>2. tocommit' = [tocommit EXCEPT ![n] = Tail(tocommit[n])]
      BY <2>5
    <3>3. MasterInv' /\ unsent' \subseteq unsent
      BY <1>4 DEF LeaseInv, MasterInv
    <3>. HIDE DEF others, ch
    <3>4. Opens(tocommit[n], ch, others, view[n].quorums, net \ {m})
      BY <2>1, <2>2, <2>3, <2>5, <3>1, <3>2 DEF Opens
    <3>. QED  BY <3>3, <3>4, OpenKeeps
  <2>. QED  BY <1>1, <1>7, <2>4, <2>5 DEF ChooseOwn
<1>8. ~ChooseOther(m, p)
  BY <1>1 DEF ChooseOther, OpenOK
<1>. QED  BY <1>1, <1>2, <1>6, <1>7, <1>8 DEF HandleAccepted, p

-----------------------------------------------------------------------------
(* The other steps *)

\* A client write: it waits, or the oldest that waits is proposed.
LEMMA WriteKeepsLease ==
  ASSUME SingleWriter, IInv, LeaseInv, IInv',
         NEW n \in WriteNode, NEW r \in Request, Write(n, r)
  PROVE  LeaseInv'
<1>. USE MasterNode
<1>1. CASE CommitForwarding(n, r)
  <2>1. MasterInv' /\ unsent' \subseteq unsent /\ \A m \in net' : MessageOK(m)
    BY <1>1 DEF CommitForwarding, Receive, LeaseInv, MasterInv, MessageInv
  <2>. QED  BY <1>1, <2>1, QuietKeeps DEF CommitForwarding, Receive, paxosVars
<1>2. CASE CommitTakingOver(n, r)
  BY <1>2, CaptainAssumption
     DEF CommitTakingOver, SingleWriter, LeaseInv, MasterInv
<1>3. CASE Commit(n, r)
  <2>. DEFINE e == EntryFor(n, r)
              queue == Append(tocommit[n], e)
  <2>1. n = LeaseMaster
    BY <1>3, CaptainAssumption, QuorumSizes DEF Commit, LeaseInv, MasterInv
  <2>2. /\ e \in Entry /\ r \in unsent /\ unsent' = unsent \ {r}
        /\ UNCHANGED <<view, chosen>>
    BY <1>3, ReceiveTypes DEF Commit, Receive, IInv
  <2>3. e.client = r /\ e.value.data = r
    BY DEF EntryFor
  <2>4. tocommit[n] \in Seq(Entry)
    BY <2>1 DEF IInv, TypeOK
  <2>. HIDE DEF e
  <2>5. /\ queue \in Seq(Entry) /\ queue # <<>> /\ Waits(queue, unsent')
    <3>1. Waits(tocommit[n], unsent)
      BY <2>1 DEF LeaseInv, WaitInv
    <3>2. \A x \in proposals : x.value.data \notin unsent
      BY DEF LeaseInv, ProposalInv
    <3>3. unsent' \in SUBSET unsent
      BY <2>2
    <3>4. Waits(queue, unsent')
      BY <2>2, <2>3, <2>4, <3>1, <3>2, <3>3, WaitsAppend
    <3>. QED  BY <2>2, <2>4, <3>4, AppendProperties
  <2>6. MasterInv' /\ unsent' \subseteq unsent
    BY <2>2 DEF LeaseInv, MasterInv
  <2>7. Admit(n, e, view[n].quorums, net)
    BY <1>3 DEF Commit, e
  <2>8. CASE /\ tocommit' = [tocommit EXCEPT ![n] = queue]
             /\ net' = net
             /\ UNCHANGED <<paxosVars, maxSlot, lastSlot>>
    <3>. HIDE DEF queue
    <3>1. tocommit'[n] = queue
      BY <2>1, <2>8 DEF IInv, TypeOK
    <3>2. WaitInv'
      BY <2>1, <2>5, <2>8, <3>1 DEF WaitInv, Waits, paxosVars
    <3>3. ProposalInv'
      BY <2>6, <2>8 DEF LeaseInv, ProposalInv, paxosVars
    <3>4. VoteInv' /\ AcceptorInv' /\ OpenInv'
      BY <2>8 DEF LeaseInv, VoteInv, AcceptorInv, OpenInv, OpenOK, ProposedIn,
                  paxosVars
    <3>5. MessageInv'
      BY <2>2, <2>8 DEF LeaseInv, MessageInv, MessageOK, ProposedIn, paxosVars
    <3>6. LearnedIsChosen'
      <4>1. votes' = votes
        BY <2>8 DEF paxosVars
      <4>2. \A s \in Slot : ChosenIn(s)' = ChosenIn(s)
        BY <4>1, ChosenSame
      <4>. QED  BY <2>2, <4>2 DEF LeaseInv, LearnedIsChosen
    <3>. QED  BY <2>6, <3>2, <3>3, <3>4, <3>5, <3>6 DEF LeaseInv
  <2>9. CASE /\ tocommit' = [tocommit EXCEPT ![n] = Tail(queue)]
             /\ OpenSlot(n, Head(queue), chosen[n], proposers[n],
                         view[n].quorums, net)
    <3>. HIDE DEF queue
    <3>1. chosen' = [chosen EXCEPT ![n] = chosen[n]]
      BY <2>1, <2>2 DEF IInv, TypeOK
    <3>2. \A s \in Slot : chosen[n][s] # NULL => chosen[n][s] \in ChosenIn(s)
      BY <2>1 DEF LeaseInv, LearnedIsChosen
    <3>3. /\ proposers[n] \in [Slot -> ProposerType]
          /\ \A s \in Slot : OpenOK(s, proposers[n][s])
      BY <2>1 DEF IInv, TypeOK, LeaseInv, OpenInv
    <3>4. net \in SUBSET net
      OBVIOUS
    <3>5. Opens(queue, chosen[n], proposers[n], view[n].quorums, net)
      BY <2>1, <2>5, <2>9, <3>1, <3>2, <3>3, <3>4 DEF Opens
    <3>. QED  BY <2>6, <3>5, OpenKeeps
  <2>. QED  BY <2>7, <2>8, <2>9 DEF Admit
<1>. QED  BY <1>1, <1>2, <1>3 DEF Write

\* Handlers that the master's messages never reach, or that do nothing but
\* take a message: with only such messages on their way, no promise is asked.
LEMMA DeliverKeepsLease ==
  ASSUME IInv, LeaseInv, IInv', NEW m \in net, Deliver(m)
  PROVE  LeaseInv'
<1>1. m.type \in {"ACCEPT", "ACCEPTED", "COMMAND"}
  BY DEF LeaseInv, MessageInv, MessageOK
<1>2. CASE HandlePrepare(m) \/ IgnorePromise(m) \/ HandlePromise(m)
  BY <1>1, <1>2 DEF HandlePrepare, IgnorePromise, HandlePromise, Arrives
<1>3. CASE HandleCommand(m)
  <2>. DEFINE n == m.to
  <2>1. /\ n \in Node /\ m.type = "COMMAND"
        /\ view' = [view EXCEPT ![n] = JoinQuorum(view[n], n)]
        /\ net' = net \ {m}
    BY <1>3, AnswerTypes DEF IInv, TypeOK, HandleCommand, Arrives
  <2>2. n \notin InitQuorum
    BY <2>1 DEF IInv, NetInv, NetOK, Interest
  <2>3. n # 1 /\ n # LeaseMaster
    BY <2>2, QuorumSizes, MasterNode
  <2>4. /\ view'[n].master = 1
        /\ \A k \in Node \ {n} : view'[k] = view[k]
    BY <2>1 DEF JoinQuorum, IInv, TypeOK
  <2>5. MasterInv'
    BY <2>1, <2>3, <2>4, MasterNode DEF LeaseInv, MasterInv
  <2>. QED  BY <1>3, <2>1, <2>5, QuietKeeps
            DEF HandleCommand, paxosVars, LeaseInv, MessageInv
<1>4. CASE IgnoreAccepted(m)
  <2>1. MasterInv'
    BY <1>4 DEF IgnoreAccepted, nodeVars, LeaseInv, MasterInv
  <2>. QED  BY <1>4, <2>1, QuietKeeps
            DEF IgnoreAccepted, nodeVars, paxosVars, LeaseInv, MessageInv
<1>. QED  BY <1>2, <1>3, <1>4, AcceptKeepsLease, AcceptedKeepsLease
          DEF Deliver, HandleMsg

\* A Nack: the master stays master, and the message goes to another node.
LEMMA NackKeepsLease ==
  ASSUME IInv, LeaseInv, NEW m \in net, Nack(m)
  PROVE  LeaseInv'
<1>. DEFINE n == m.from
            q == First(view[n].nquorums)
            again == [m EXCEPT !.to = q]
<1>1. m \in Messages /\ m.type \in Interest /\ n \in Node /\ MessageOK(m)
  BY AnswerTypes DEF IInv, TypeOK, Nack, LeaseInv, MessageInv
<1>2. MasterInv'
  <2>1. CASE UNCHANGED view
    BY <2>1 DEF LeaseInv, MasterInv
  <2>2. CASE view' = [view EXCEPT ![n] = SwapMember(@, LastDigit(m.to))]
    <3>1. SwapMember(view[n], LastDigit(m.to)).master = view[n].master
      <4>1. view[n] \in ViewType
        BY <1>1 DEF IInv, TypeOK
      <4>. QED  BY <4>1 DEF SwapMember, ViewType
    <3>2. \A k \in Node : view'[k].master = view[k].master
      BY <1>1, <2>2, <3>1 DEF IInv, TypeOK
    <3>. QED  BY <3>2 DEF LeaseInv, MasterInv
  <2>. QED  BY <2>1, <2>2 DEF Nack
<1>3. \A x \in net' : MessageOK(x)
  <2>1. \/ net' = net \ {m}
        \/ /\ net' = (net \ {m}) \cup {SetQuorumTo(n, q), again}
           /\ view[n].nquorums # {}
    BY DEF Nack
  <2>2. MessageOK(SetQuorumTo(n, q))
    BY DEF MessageOK, SetQuorumTo
  <2>3. view[n].nquorums # {} => MessageOK(again)
    <3>1. CASE m.type = "ACCEPT"
      <4>1. m \in [type : {"ACCEPT"}, from : Node, to : Node, slot : Slot,
                   ballot : Ballot, value : Value, lastSlot : 0 .. MaxSlot,
                   lastValue : Nat]
        BY <1>1, <3>1 DEF Messages
      <4>2. /\ again.type = "ACCEPT" /\ again.ballot = m.ballot
            /\ again.slot = m.slot /\ again.value = m.value
            /\ again.lastSlot = m.lastSlot /\ again.lastValue = m.lastValue
        BY <4>1
      <4>. HIDE DEF again
      <4>. QED  BY <1>1, <3>1, <4>2 DEF MessageOK
    <3>2. CASE m.type = "COMMAND"
      <4>1. m \in [type : {"COMMAND"}, from : Node, to : Node]
        BY <1>1, <3>2 DEF Messages
      <4>2. again.type = "COMMAND"
        BY <4>1
      <4>. HIDE DEF again
      <4>. QED  BY <4>2 DEF MessageOK
    <3>. QED  BY <1>1, <3>1, <3>2 DEF MessageOK, Interest
  <2>. HIDE DEF again
  <2>. QED  BY <2>1, <2>2, <2>3 DEF LeaseInv, MessageInv
<1>. QED  BY <1>2, <1>3, QuietKeeps DEF Nack, paxosVars

\* The log teaches only what some copy holds.
LEMMA LogKeepsLease ==
  ASSUME IInv, LeaseInv, NEW n \in Node, NEW s \in logPending[n],
         NEW q \in LogServer, OnDataLog(n, s, q)
  PROVE  LeaseInv'
<1>1. /\ q \in Node /\ s \in Slot /\ chosen[q][s] # NULL
      /\ chosen' = [chosen EXCEPT ![n] = AddChosen(@, s, chosen[q][s])]
  BY QuorumSizes DEF LogServer, OnDataLog
<1>2. \A k \in Node, t \in Slot :
        chosen[k][t] # NULL => chosen[k][t] \in ChosenIn(t)
  BY DEF LeaseInv, LearnedIsChosen
<1>3. \A k \in Node, t \in Slot :
        /\ chosen[k][t] # NULL => chosen'[k][t] = chosen[k][t]
        /\ chosen'[k][t] # NULL => chosen'[k][t] \in ChosenIn(t)
  BY <1>1, <1>2 DEF AddChosen, IInv, TypeOK
<1>4. \A t \in Slot : OpenOK(t, proposers'[LeaseMaster][t])
  BY DEF OnDataLog, paxosVars, LeaseInv, OpenInv
<1>. QED  BY <1>3, <1>4, LearningKeeps DEF OnDataLog, nodeVars, paxosVars

\* Every step keeps the invariant.
LEMMA NextLease ==
  ASSUME SingleWriter, IInv, LeaseInv, IInv', [Next]_vars
  PROVE  LeaseInv'
<1>1. ASSUME NEW n \in WriteNode, NEW r \in Request, Write(n, r)
      PROVE  LeaseInv'
  BY <1>1, WriteKeepsLease
<1>2. ASSUME NEW m \in net, Deliver(m) \/ Nack(m)
      PROVE  LeaseInv'
  BY <1>2, DeliverKeepsLease, NackKeepsLease
<1>3. ASSUME NEW n \in Node, NEW s \in logPending[n], NEW q \in LogServer,
             OnDataLog(n, s, q)
      PROVE  LeaseInv'
  BY <1>3, LogKeepsLease
<1>4. CASE \/ \E m \in net : Lose(m)
           \/ \E n \in Mortal : Kill(n)
           \/ \E n \in Node : \E s \in logPending[n] : OnTimeoutLog(n, s)
           \/ UNCHANGED vars
  <2>1. /\ UNCHANGED <<view, acceptors, proposers, votes, proposals, maxSlot,
                       tocommit, chosen, unsent>>
        /\ net' \subseteq net
    BY <1>4 DEF Lose, Kill, OnTimeoutLog, vars, captainVars, nodeVars,
                paxosVars
  <2>2. MasterInv' /\ \A m \in net' : MessageOK(m)
    BY <2>1 DEF LeaseInv, MasterInv, MessageInv
  <2>. QED  BY <2>1, <2>2, QuietKeeps
<1>. QED  BY <1>1, <1>2, <1>3, <1>4 DEF Next

\* The invariant holds in every reachable state.
THEOREM LeaseInvariant ==
  ASSUME SingleWriter, OneDigitNames
  PROVE  Spec => [](IInv /\ LeaseInv)
<1>1. IInv /\ LeaseInv /\ IInv' /\ [Next]_vars => LeaseInv'
  BY NextLease
<1>. QED  BY <1>1, LeaseInit, SpecIInv, PTL DEF Spec

\* The lease works: Phase I is never run, no acceptor ever refuses, with any
\* number of nodes and slots, under loss, stops and Nacks, and beyond the
\* slots the lease covers (captain.cpp:48-53, 196-203, acceptor.cpp:84).
THEOREM LeaseNeedsNoPhaseOne ==
  ASSUME SingleWriter, OneDigitNames
  PROVE  Spec => []NoPhaseOne
<1>1. LeaseInv => NoPhaseOne
  BY DEF LeaseInv, MessageInv, MessageOK, NoPhaseOne
<1>. QED  BY <1>1, LeaseInvariant, PTL

\* What a captain learns was accepted by a majority, whether it was announced,
\* logged or counted, and in whatever order (captain.cpp:366-380, 430-455).
THEOREM LearnsWhatIsChosen ==
  ASSUME SingleWriter, OneDigitNames
  PROVE  Spec => []LearnedIsChosen
<1>1. LeaseInv => LearnedIsChosen
  BY DEF LeaseInv
<1>. QED  BY <1>1, LeaseInvariant, PTL

\* A slot is opened for one write, and a write has one slot.
LEMMA ChosenIsOnce == LeaseInv => ChosenOnce
<1>. SUFFICES ASSUME LeaseInv, NEW s \in Slot, NEW t \in Slot,
                     NEW v \in ChosenIn(s), NEW w \in ChosenIn(t),
                     v.data = w.data
     PROVE  s = t
  BY DEF ChosenOnce
<1>1. ProposedIn(s, v) /\ ProposedIn(t, w)
  BY OneValue DEF LeaseInv, ChosenIsProposed
<1>. QED  BY <1>1 DEF LeaseInv, ProposalInv, ProposedIn

\* No write is chosen in two slots (captain.cpp:196-219, 466-503).
THEOREM WritesAreChosenOnce ==
  ASSUME SingleWriter, OneDigitNames
  PROVE  Spec => []ChosenOnce
BY ChosenIsOnce, LeaseInvariant, PTL

\* A slot in which one value is proposed has one decision.
LEMMA LeaseAgrees == LeaseInv => Agreement
<1>. SUFFICES ASSUME LeaseInv, NEW s \in Slot
     PROVE  Cardinality(ChosenIn(s)) <= 1
  BY DEF Agreement
<1>1. CASE ChosenIn(s) = {}
  BY <1>1, FS_EmptySet
<1>2. ASSUME NEW v \in ChosenIn(s)  PROVE Cardinality(ChosenIn(s)) <= 1
  <2>1. ChosenIn(s) = {v}
    BY OneValue DEF LeaseInv, OneProposal, ChosenIsProposed
  <2>. QED  BY <2>1, FS_Singleton
<1>. QED  BY <1>1, <1>2

\* Agreement holds where one captain writes: recover_agreement needs two
\* (proposer.hpp:48).
THEOREM OneDecisionPerSlot ==
  ASSUME SingleWriter, OneDigitNames
  PROVE  Spec => []Agreement
BY LeaseAgrees, LeaseInvariant, PTL

-----------------------------------------------------------------------------
(* While no process is started again, an acceptor holds what it voted for. *)

HeldInv == \A w \in votes : acceptors[w.node][w.slot].maxValue = w.value

\* Node n votes for v in slot s, and does nothing else to the acceptors.
Votes(n, s, v) ==
  /\ votes' = votes \cup {VoteFor(n, s, v)}
  /\ acceptors'[n][s].maxValue = v
  /\ \A k \in Node, t \in Slot :
       k # n \/ t # s => acceptors'[k][t] = acceptors[k][t]

\* It holds that value then, and all acceptors hold what they held.
LEMMA VoteIsHeld ==
  ASSUME TypeOK, LeaseInv', HeldInv, NEW n \in Node, NEW s \in Slot, NEW v,
         Votes(n, s, v)
  PROVE  HeldInv'
<1>. DEFINE w == VoteFor(n, s, v)
<1>1. w.node = n /\ w.slot = s /\ w.value = v /\ votes' = votes \cup {w}
  BY DEF VoteFor, Votes
<1>. HIDE DEF w
<1>2. \A u \in votes' : ProposedIn(u.slot, u.value)'
  BY DEF LeaseInv, VoteInv
<1>3. OneProposal'
  BY OneValue, PTL DEF LeaseInv
<1>. SUFFICES ASSUME NEW u \in votes'
     PROVE  acceptors'[u.node][u.slot].maxValue = u.value
  BY DEF HeldInv
<1>4. CASE u.node = n /\ u.slot = s
  <2>1. u.value = w.value
    BY <1>1, <1>2, <1>3, <1>4 DEF OneProposal
  <2>. QED  BY <1>1, <1>4, <2>1 DEF Votes
<1>5. CASE u.node # n \/ u.slot # s
  <2>1. u \in votes
    BY <1>1, <1>5
  <2>2. u.node \in Node /\ u.slot \in Slot
    BY <2>1 DEF TypeOK, Vote
  <2>. QED  BY <1>5, <2>1, <2>2 DEF HeldInv, Votes
<1>. QED  BY <1>4, <1>5

\* Opening a slot is such a vote.
LEMMA OpenIsVote ==
  ASSUME IInv, LeaseInv, NEW e \in Entry, NEW ch, NEW others, NEW q, NEW msgs,
         OpenSlot(LeaseMaster, e, ch, others, q, msgs)
  PROVE  \E s \in Slot : \E v : Votes(LeaseMaster, s, v)
<1>1. PICK s, r, x : Opened(e, ch, others, msgs, s, r, x)
  BY OpenEffect
<1>2. /\ s \in Slot
      /\ votes' = votes \cup {VoteFor(LeaseMaster, s, e.value)}
      /\ acceptors' = [acceptors EXCEPT ![LeaseMaster][s] =
           [maxProposed |-> LeaseBallot, maxAccepted |-> LeaseBallot,
            maxValue |-> e.value]]
  BY <1>1 DEF Opened
<1>3. Votes(LeaseMaster, s, e.value)
  BY <1>2, MasterNode DEF Votes, IInv, TypeOK
<1>. QED  BY <1>2, <1>3

\* The oldest write of a captain's queue is of the right type.
LEMMA OldestEntry ==
  ASSUME NEW queue \in Seq(Entry), queue # <<>>
  PROVE  Head(queue) \in Entry
BY HeadTailProperties

\* A step votes once, or leaves acceptors and votes alone.
LEMMA NextVotes ==
  ASSUME SingleWriter, IInv, LeaseInv, [Next]_vars
  PROVE  \/ UNCHANGED <<acceptors, votes>>
         \/ \E n \in Node, s \in Slot : \E v : Votes(n, s, v)
<1>. DEFINE Goal == \/ UNCHANGED <<acceptors, votes>>
                    \/ \E n \in Node, s \in Slot : \E v : Votes(n, s, v)
<1>. USE MasterNode
<1>0. ASSUME NEW queue \in Seq(Entry), queue # <<>>, NEW ch, NEW others, NEW q,
             NEW msgs, OpenSlot(LeaseMaster, Head(queue), ch, others, q, msgs)
      PROVE  Goal
  BY <1>0, OldestEntry, OpenIsVote
<1>. HIDE DEF Goal
<1>1. ASSUME NEW n \in WriteNode, NEW r \in Request, Write(n, r)
      PROVE  Goal
  <2>1. CASE CommitForwarding(n, r)
    BY <2>1 DEF CommitForwarding, paxosVars, Goal
  <2>2. CASE CommitTakingOver(n, r)
    BY <2>2, CaptainAssumption
       DEF CommitTakingOver, SingleWriter, LeaseInv, MasterInv
  <2>3. CASE Commit(n, r)
    <3>. DEFINE queue == Append(tocommit[n], EntryFor(n, r))
    <3>1. n = LeaseMaster
      BY <2>3, CaptainAssumption, QuorumSizes DEF Commit, LeaseInv, MasterInv
    <3>2. queue \in Seq(Entry) /\ queue # <<>>
      <4>1. EntryFor(n, r) \in Entry
        BY <2>3, ReceiveTypes DEF Commit, IInv
      <4>2. tocommit[n] \in Seq(Entry)
        BY <3>1 DEF IInv, TypeOK
      <4>. QED  BY <4>1, <4>2, AppendProperties
    <3>3. \/ UNCHANGED paxosVars
          \/ OpenSlot(n, Head(queue), chosen[n], proposers[n],
                      view[n].quorums, net)
      BY <2>3 DEF Commit, Admit
    <3>. HIDE DEF queue
    <3>. QED  BY <1>0, <3>1, <3>2, <3>3 DEF Goal, paxosVars
  <2>. QED  BY <1>1, <2>1, <2>2, <2>3 DEF Write
<1>2. ASSUME NEW m \in net, Deliver(m)
      PROVE  Goal
  <2>1. m.type \in {"ACCEPT", "ACCEPTED", "COMMAND"}
    BY DEF LeaseInv, MessageInv, MessageOK
  <2>2. CASE HandlePrepare(m) \/ IgnorePromise(m) \/ HandlePromise(m)
    BY <2>1, <2>2 DEF HandlePrepare, IgnorePromise, HandlePromise, Arrives
  <2>3. CASE HandleCommand(m) \/ IgnoreAccepted(m)
    BY <2>3 DEF HandleCommand, IgnoreAccepted, paxosVars, Goal
  <2>4. CASE HandleAccept(m)
    BY <2>4, Voting DEF Votes, Goal
  <2>5. CASE HandleAccepted(m)
    <3>. DEFINE n == LeaseMaster
                p == AddAccepted(proposers[n][m.slot], m.from, m.reply)
    <3>1. /\ m.to = n /\ m.slot \in Slot
          /\ p \in ProposerType /\ p.status = "PHASEII" /\ OpenOK(m.slot, p)
      BY <2>5, Counting
    <3>. HIDE DEF p
    <3>2. ~ChooseOther(m, p) /\ AcceptedVerdict(p) # "RESTART"
      BY <3>1, Verdict DEF ChooseOther, OpenOK
    <3>3. UNCHANGED <<acceptors, votes>> \/ ChooseOwn(m, p)
      BY <2>5, <3>1, <3>2 DEF HandleAccepted, p
    <3>4. \/ UNCHANGED <<acceptors, votes>>
          \/ /\ tocommit[n] # <<>>
             /\ \E ch, others, q, msgs :
                  OpenSlot(n, Head(tocommit[n]), ch, others, q, msgs)
      BY <3>1, <3>3, Zenon DEF ChooseOwn
    <3>5. tocommit[n] \in Seq(Entry)
      BY DEF IInv, TypeOK
    <3>. QED  BY <1>0, <3>4, <3>5 DEF Goal
  <2>. QED  BY <1>2, <2>2, <2>3, <2>4, <2>5 DEF Deliver, HandleMsg
<1>3. CASE \/ \E m \in net : Lose(m) \/ Nack(m)
           \/ \E n \in Mortal : Kill(n)
           \/ \E n \in Node : \E s \in logPending[n] :
                \/ \E q \in LogServer : OnDataLog(n, s, q)
                \/ OnTimeoutLog(n, s)
           \/ UNCHANGED vars
  BY <1>3 DEF Lose, Nack, Kill, OnDataLog, OnTimeoutLog, vars, captainVars,
              nodeVars, paxosVars, Goal
<1>. QED  BY <1>1, <1>2, <1>3 DEF Next, Goal

\* So every acceptor holds what it voted for.
LEMMA NextHeld ==
  ASSUME SingleWriter, IInv, LeaseInv, LeaseInv', HeldInv, [Next]_vars
  PROVE  HeldInv'
<1>1. UNCHANGED <<acceptors, votes>> => HeldInv'
  BY DEF HeldInv
<1>. QED  BY <1>1, NextVotes, VoteIsHeld DEF IInv

-----------------------------------------------------------------------------
(* Announcements: without take-overs and Nacks the quorum stays as it was, *)
(* and a decision needs the votes of all of it.                            *)

QuorumInv ==
  /\ view[LeaseMaster].quorums = InitQuorum
  /\ \A m \in net : m.type = "ACCEPT" => m.to \in InitQuorum
  /\ \A w \in votes : w.node \in InitQuorum

\* Whom the master's ACCEPTs go to, and whose vote is given with them
LEMMA OpeningInQuorum ==
  ASSUME QuorumInv, NEW e, NEW ch, NEW others, NEW msgs \in SUBSET net,
         OpenSlot(LeaseMaster, e, ch, others, InitQuorum, msgs), UNCHANGED view
  PROVE  QuorumInv'
<1>1. PICK s, p, last, lastId :
        BroadcastAccept(LeaseMaster, s, p, others, InitQuorum, last, lastId,
                        msgs)
  BY Zenon DEF OpenSlot
<1>2. \A w \in VoteOf(LeaseMaster, s, p.ballot, p.value) :
        w.node = LeaseMaster
  BY DEF VoteOf
<1>3. \A m \in net' \ msgs : m.to \in InitQuorum
  BY <1>1 DEF BroadcastAccept, Accept
<1>. QED  BY <1>1, <1>2, <1>3, MasterNode DEF QuorumInv, BroadcastAccept

\* A PREPARE adds neither votes nor ACCEPTs.
LEMMA PreparingInQuorum ==
  ASSUME QuorumInv, NEW n, NEW s, NEW p, NEW others, NEW q,
         NEW msgs \in SUBSET net,
         BroadcastPrepare(n, s, p, others, q, msgs), UNCHANGED view
  PROVE  QuorumInv'
BY DEF QuorumInv, BroadcastPrepare, Prepare

\* Without take-overs and Nacks no step changes the master's quorum.
LEMMA NextQuorum ==
  ASSUME ~Recover, IInv, LeaseInv, QuorumInv, [Next]_vars
  PROVE  QuorumInv'
<1>. USE MasterNode
<1>1. ASSUME NEW n \in WriteNode, NEW r \in Request, Write(n, r)
      PROVE  QuorumInv'
  <2>1. CASE CommitForwarding(n, r)
    BY <2>1 DEF CommitForwarding, paxosVars, QuorumInv
  <2>2. CASE Commit(n, r)
    <3>1. n = LeaseMaster /\ UNCHANGED view
      BY <2>2, CaptainAssumption, QuorumSizes DEF Commit, LeaseInv, MasterInv
    <3>2. Admit(n, EntryFor(n, r), InitQuorum, net)
      BY <2>2, <3>1 DEF Commit, QuorumInv
    <3>3. CASE net' = net /\ UNCHANGED <<paxosVars, maxSlot, lastSlot>>
      BY <3>1, <3>3 DEF QuorumInv, paxosVars
    <3>4. ASSUME NEW e, OpenSlot(n, e, chosen[n], proposers[n], InitQuorum, net)
          PROVE  QuorumInv'
      BY <3>1, <3>4, OpeningInQuorum
    <3>. QED  BY <3>2, <3>3, <3>4 DEF Admit
  <2>. QED  BY <1>1, <2>1, <2>2 DEF Write, CommitTakingOver
<1>2. ASSUME NEW m \in net, Deliver(m)
      PROVE  QuorumInv'
  <2>1. /\ m \in Messages /\ m.to \in Node
        /\ m.type \in {"ACCEPT", "ACCEPTED", "COMMAND"}
    BY AnswerTypes DEF IInv, TypeOK, LeaseInv, MessageInv, MessageOK
  <2>2. CASE HandlePrepare(m) \/ IgnorePromise(m) \/ HandlePromise(m)
    BY <2>1, <2>2 DEF HandlePrepare, IgnorePromise, HandlePromise, Arrives
  <2>3. CASE HandleCommand(m)
    <3>1. m.to # LeaseMaster
      BY <2>3 DEF HandleCommand, Arrives, IInv, NetInv, NetOK, Interest
    <3>2. view'[LeaseMaster] = view[LeaseMaster]
      BY <2>1, <2>3, <3>1 DEF HandleCommand, IInv, TypeOK
    <3>. QED  BY <2>3, <3>2 DEF HandleCommand, QuorumInv, paxosVars
  <2>4. CASE IgnoreAccepted(m)
    BY <2>4 DEF IgnoreAccepted, QuorumInv, nodeVars, paxosVars
  <2>5. CASE HandleAccept(m)
    <3>1. m.to \in InitQuorum /\ UNCHANGED view
      BY <2>5 DEF HandleAccept, AcceptAtSlot, Arrives, QuorumInv, nodeVars
    <3>2. \A w \in votes' \ votes : w.node = m.to
      BY <2>5 DEF HandleAccept, AcceptAtSlot, VoteOf
    <3>3. \A x \in net' \ net : x.type = "ACCEPTED"
      BY <2>5 DEF HandleAccept, ReplyAccepted, AcceptedTo
    <3>. QED  BY <3>1, <3>2, <3>3 DEF QuorumInv
  <2>6. CASE HandleAccepted(m)
    <3>. DEFINE n == m.to
                p == AddAccepted(proposers[n][m.slot], m.from, m.reply)
    <3>1. n = LeaseMaster /\ UNCHANGED view /\ view[n].quorums = InitQuorum
      BY <2>6, Counting DEF HandleAccepted, QuorumInv
    <3>. HIDE DEF p
    <3>2. CASE net' = net \ {m} /\ UNCHANGED votes
      BY <3>1, <3>2 DEF QuorumInv
    <3>3. ASSUME NEW e, NEW ch, NEW others,
                 OpenSlot(n, e, ch, others, view[n].quorums, net \ {m})
          PROVE  QuorumInv'
      BY <3>1, <3>3, OpeningInQuorum
    <3>4. ASSUME NEW s, NEW b, NEW others, NEW q,
                 BroadcastPrepare(n, s, b, others, q, net \ {m})
          PROVE  QuorumInv'
      BY <3>1, <3>4, PreparingInQuorum
    <3>5. CASE ChooseOwn(m, p)
      BY <3>2, <3>3, <3>5 DEF ChooseOwn
    <3>6. CASE ChooseOther(m, p)
      BY <3>4, <3>6 DEF ChooseOther
    <3>. QED  BY <2>6, <3>2, <3>4, <3>5, <3>6 DEF HandleAccepted, p
  <2>. QED  BY <1>2, <2>2, <2>3, <2>4, <2>5, <2>6 DEF Deliver, HandleMsg
<1>3. CASE \/ \E m \in net : Lose(m)
           \/ \E n \in Mortal : Kill(n)
           \/ \E n \in Node : \E s \in logPending[n] :
                \/ \E q \in LogServer : OnDataLog(n, s, q)
                \/ OnTimeoutLog(n, s)
           \/ UNCHANGED vars
  BY <1>3 DEF Lose, Kill, OnDataLog, OnTimeoutLog, vars, captainVars, nodeVars,
              paxosVars, QuorumInv
<1>. QED  BY <1>1, <1>2, <1>3 DEF Next, Nack

\* An announced decision is held by the one it is announced to, so that no
\* hole is left (captain.cpp:373), unless the quorum changes.
THEOREM AnnouncementsAreResolvable ==
  ASSUME ~Recover
  PROVE  Spec => []PiggybackResolvable
<1>1. SingleWriter /\ OneDigitNames
  BY DEF SingleWriter, OneDigitNames
<1>2. Init => QuorumInv
  BY MasterNode DEF Init, CaptainInit, QuorumInv, InitView
<1>3. IInv /\ LeaseInv /\ QuorumInv /\ [Next]_vars => QuorumInv'
  BY NextQuorum
<1>4. ASSUME IInv, LeaseInv, QuorumInv, HeldInv  PROVE PiggybackResolvable
  <2>. SUFFICES ASSUME NEW m \in net, m.type = "ACCEPT", m.lastSlot # 0
       PROVE  acceptors[m.to][m.lastSlot].maxValue.id = m.lastValue
    BY DEF PiggybackResolvable
  <2>. DEFINE l == m.lastSlot
              c == chosen[LeaseMaster][l]
  <2>1. /\ m.to \in InitQuorum /\ c # NULL /\ c.id = m.lastValue
    BY <1>4 DEF LeaseInv, MessageInv, MessageOK, QuorumInv
  <2>2. l \in Slot
    <3>1. l \in 0 .. MaxSlot
      BY <1>4, AnswerTypes DEF IInv, TypeOK
    <3>. QED  BY <3>1, MessageAssumption DEF Slot
  <2>3. c \in ChosenIn(l)
    BY <1>4, <2>1, <2>2, MasterNode DEF LeaseInv, LearnedIsChosen
  <2>4. PICK b : ChosenAt(l, b, c)
    BY <2>3 DEF ChosenIn
  <2>. DEFINE V == Voters(l, b, c)
  <2>5. V \subseteq InitQuorum
    BY <1>4 DEF QuorumInv, Voters
  <2>. HIDE DEF V
  <2>6. V = InitQuorum
    <3>1. Cardinality(V) >= QSize
      BY <2>4 DEF ChosenAt, V
    <3>2. IsFiniteSet(InitQuorum)
      BY QuorumSizes, NodeFinite, FS_Subset
    <3>3. /\ Cardinality(V) \in Nat /\ Cardinality(V) <= QSize
          /\ Cardinality(V) = QSize => V = InitQuorum
      BY <2>5, <3>2, QuorumSizes, FS_Subset, FS_CardinalityType
    <3>. QED  BY <3>1, <3>3, QuorumSizes
  <2>7. [node |-> m.to, slot |-> l, ballot |-> b, value |-> c] \in votes
    BY <2>1, <2>6 DEF V, Voters
  <2>8. acceptors[m.to][l].maxValue = c
    BY <1>4, <2>7 DEF HeldInv
  <2>. QED  BY <2>1, <2>8
<1>5. Init => HeldInv
  BY DEF Init, CaptainInit, HeldInv
<1>6. IInv /\ LeaseInv /\ LeaseInv' /\ HeldInv /\ [Next]_vars => HeldInv'
  BY <1>1, NextHeld
<1>. QED  BY <1>1, <1>2, <1>3, <1>4, <1>5, <1>6, LeaseInvariant, PTL DEF Spec

-----------------------------------------------------------------------------
(* Announcements are not repeated: last_slot_ bounds what the quorum was    *)
(* told, and no quorum node learns anything in another way.                 *)

Announcing == {m \in net : m.type = "ACCEPT" /\ m.lastSlot # 0}

AnnounceInv ==
  /\ \A m \in Announcing : /\ m.lastSlot <= lastSlot[LeaseMaster]
                           /\ m.to # LeaseMaster
                           /\ chosen[m.to][m.lastSlot] = NULL
  /\ \A m, x \in Announcing : m.to = x.to /\ m.lastSlot = x.lastSlot => m = x
  /\ \A k \in InitQuorum \ {LeaseMaster}, l \in Slot :
       chosen[k][l] # NULL => l <= lastSlot[LeaseMaster]
  /\ \A k \in InitQuorum : logPending[k] = {}

\* A step that announces nothing, and tells a quorum node nothing
LEMMA NothingAnnounced ==
  ASSUME AnnounceInv, QuorumInv, Announcing' \subseteq Announcing,
         UNCHANGED lastSlot,
         \A k \in InitQuorum \ {LeaseMaster} : chosen'[k] = chosen[k],
         \A k \in InitQuorum : logPending'[k] = {}
  PROVE  AnnounceInv'
<1>1. \A m \in Announcing' : m.to \in InitQuorum
  BY DEF QuorumInv, Announcing
<1>2. \A m \in Announcing' : /\ m.lastSlot <= lastSlot'[LeaseMaster]
                             /\ m.to # LeaseMaster
                             /\ chosen'[m.to][m.lastSlot] = NULL
  BY <1>1 DEF AnnounceInv
<1>. HIDE DEF Announcing
<1>. QED  BY <1>2 DEF AnnounceInv

\* Opening a slot announces the decision of the next one, which no quorum node
\* was told of (captain.cpp:204-213, 470-479).
LEMMA OpeningAnnounces ==
  ASSUME IInv, AnnounceInv, QuorumInv, NEW e, NEW ch, NEW others,
         NEW msgs \in SUBSET net,
         OpenSlot(LeaseMaster, e, ch, others, InitQuorum, msgs),
         \A k \in InitQuorum \ {LeaseMaster} : chosen'[k] = chosen[k],
         UNCHANGED logPending
  PROVE  AnnounceInv'
<1>. USE MasterNode
<1>1. PICK s, p, last, lastId :
        /\ BroadcastAccept(LeaseMaster, s, p, others, InitQuorum, last, lastId,
                           msgs)
        /\ \/ last = 0 /\ lastSlot' = lastSlot
           \/ /\ last = lastSlot[LeaseMaster] + 1 /\ last \in Slot
              /\ lastSlot' = [lastSlot EXCEPT ![LeaseMaster] = last]
  BY Zenon DEF OpenSlot
<1>2. lastSlot \in [Node -> 0 .. MaxSlot] /\ MaxSlot \in Nat
  BY MessageAssumption DEF IInv, TypeOK
<1>3. /\ lastSlot'[LeaseMaster] >= lastSlot[LeaseMaster]
      /\ lastSlot[LeaseMaster] \in Nat /\ lastSlot'[LeaseMaster] \in Nat
      /\ last # 0 => /\ last = lastSlot[LeaseMaster] + 1
                     /\ last = lastSlot'[LeaseMaster] /\ last \in Slot
  BY <1>1, <1>2 DEF Slot
<1>4. ASSUME NEW m \in net' \ msgs
      PROVE  /\ m.to \in InitQuorum \ {LeaseMaster} /\ m.lastSlot = last
             /\ m = Accept(LeaseMaster, m.to, s, p.ballot, p.value, last,
                           lastId)
  <2>1. PICK k \in InitQuorum \ {LeaseMaster} :
          m = Accept(LeaseMaster, k, s, p.ballot, p.value, last, lastId)
    BY <1>1, <1>4 DEF BroadcastAccept
  <2>. QED  BY <2>1 DEF Accept
<1>5. \A m \in Announcing' : m \in Announcing \/ m \in net' \ msgs
  BY DEF Announcing
<1>6. \A m \in Announcing : /\ m.lastSlot \in Nat /\ m.to \in InitQuorum
                            /\ m.lastSlot <= lastSlot[LeaseMaster]
  BY AnswerTypes DEF Announcing, IInv, TypeOK, AnnounceInv, QuorumInv
<1>7. ASSUME NEW m \in Announcing'
      PROVE  /\ m.lastSlot <= lastSlot'[LeaseMaster]
             /\ m.to # LeaseMaster
             /\ chosen'[m.to][m.lastSlot] = NULL
  <2>1. CASE m \in Announcing
    BY <1>3, <1>6, <2>1 DEF AnnounceInv
  <2>2. CASE m \in net' \ msgs
    <3>1. m.lastSlot # 0
      BY <1>7 DEF Announcing
    <3>. QED  BY <1>3, <1>4, <2>2, <3>1 DEF AnnounceInv
  <2>. QED  BY <1>5, <1>7, <2>1, <2>2
<1>8. ASSUME NEW m \in Announcing', NEW x \in Announcing',
             m.to = x.to, m.lastSlot = x.lastSlot
      PROVE  m = x
  <2>1. m.lastSlot # 0
    BY <1>8 DEF Announcing
  <2>2. CASE m \in Announcing /\ x \in Announcing
    BY <1>8, <2>2 DEF AnnounceInv
  <2>3. CASE m \in net' \ msgs /\ x \in net' \ msgs
    BY <1>4, <1>8, <2>3
  <2>4. CASE \/ m \in Announcing /\ x \in net' \ msgs
             \/ x \in Announcing /\ m \in net' \ msgs
    BY <1>3, <1>4, <1>6, <1>8, <2>1, <2>4
  <2>. QED  BY <1>5, <1>8, <2>2, <2>3, <2>4
<1>9. \A k \in InitQuorum \ {LeaseMaster}, l \in Slot :
        chosen'[k][l] # NULL => l <= lastSlot'[LeaseMaster]
  BY <1>3 DEF AnnounceInv, Slot
<1>. QED  BY <1>7, <1>8, <1>9 DEF AnnounceInv

\* The handler of ACCEPT learns what it was told, which is then no longer on
\* its way.
LEMMA AcceptAnnounced ==
  ASSUME IInv, LeaseInv, AnnounceInv, QuorumInv, NEW m \in net, HandleAccept(m),
         UNCHANGED logPending
  PROVE  AnnounceInv'
<1>. DEFINE n == m.to
            l == m.lastSlot
<1>1. /\ n \in InitQuorum /\ n \in Node /\ m.type = "ACCEPT"
      /\ l \in 0 .. MaxSlot
  BY AnswerTypes DEF HandleAccept, AcceptAtSlot, Arrives, QuorumInv, IInv,
                     TypeOK
<1>2. UNCHANGED lastSlot
  BY DEF HandleAccept, AcceptAtSlot, nodeVars
<1>3. Announcing' \subseteq Announcing \ {m}
  <2>1. net' \ {AcceptedTo(m, AcceptedOf(acceptors[n][m.slot], m.ballot))}
          \subseteq net \ {m}
    BY DEF HandleAccept, ReplyAccepted
  <2>2. \A r : AcceptedTo(m, r).type = "ACCEPTED"
    BY DEF AcceptedTo
  <2>. QED  BY <2>1, <2>2 DEF Announcing
<1>4. CASE UNCHANGED chosen
  BY <1>2, <1>3, <1>4, NothingAnnounced DEF AnnounceInv
<1>5. CASE ~KnowsLast(m) /\ HoldsLast(m)
  <2>. PICK h : h = acceptors'[n][l].maxValue
    OBVIOUS
  <2>1. chosen' = [chosen EXCEPT ![n] = AddChosen(@, l, h)]
    BY <1>5 DEF HandleAccept
  <2>2. m \in Announcing /\ l \in Slot
    BY <1>1, <1>5, MessageAssumption DEF HoldsLast, Announcing, Slot
  <2>3. /\ n # LeaseMaster /\ l <= lastSlot[LeaseMaster]
        /\ \A x \in Announcing' : x.to # n \/ x.lastSlot # l
    BY <1>3, <2>2 DEF AnnounceInv
  <2>4. /\ \A k \in Node \ {n} : chosen'[k] = chosen[k]
        /\ \A t : t # l => chosen'[n][t] = chosen[n][t]
    <3>1. chosen'[n] = AddChosen(chosen[n], l, h)
          /\ \A k \in Node \ {n} : chosen'[k] = chosen[k]
      BY <1>1, <2>1 DEF IInv, TypeOK
    <3>2. DOMAIN chosen[n] = Slot
      BY <1>1 DEF IInv, TypeOK
    <3>. QED  BY <3>1, <3>2, <2>2 DEF AddChosen
  <2>5. ASSUME NEW x \in Announcing'
        PROVE  /\ x.lastSlot <= lastSlot'[LeaseMaster]
               /\ x.to # LeaseMaster
               /\ chosen'[x.to][x.lastSlot] = NULL
    <3>1. x \in Announcing /\ x.to \in InitQuorum /\ x.to \in Node
      BY <1>3, <2>5, QuorumSizes DEF Announcing, QuorumInv
    <3>2. chosen'[x.to][x.lastSlot] = chosen[x.to][x.lastSlot]
      BY <2>3, <2>4, <2>5, <3>1
    <3>. QED  BY <1>2, <3>1, <3>2 DEF AnnounceInv
  <2>6. ASSUME NEW k \in InitQuorum \ {LeaseMaster}, NEW t \in Slot,
               chosen'[k][t] # NULL
        PROVE  t <= lastSlot'[LeaseMaster]
    BY <1>2, <2>3, <2>4, <2>6, QuorumSizes DEF AnnounceInv
  <2>7. \A x, y \in Announcing' :
          x.to = y.to /\ x.lastSlot = y.lastSlot => x = y
    BY <1>3 DEF AnnounceInv
  <2>. QED  BY <2>5, <2>6, <2>7 DEF AnnounceInv
<1>. QED  BY <1>4, <1>5 DEF HandleAccept

\* Without take-overs and Nacks every step keeps that.
LEMMA NextAnnounce ==
  ASSUME ~Recover, IInv, LeaseInv, QuorumInv, AnnounceInv, [Next]_vars
  PROVE  AnnounceInv'
<1>. USE MasterNode
<1>0. \A k \in InitQuorum : logPending[k] = {}
  BY DEF AnnounceInv
<1>1. ASSUME NEW n \in WriteNode, NEW r \in Request, Write(n, r)
      PROVE  AnnounceInv'
  <2>0. UNCHANGED logPending
    BY <1>1 DEF Write, commoVars
  <2>1. CASE CommitForwarding(n, r)
    BY <1>0, <2>0, <2>1, NothingAnnounced
       DEF CommitForwarding, Receive, Announcing
  <2>2. CASE Commit(n, r)
    <3>1. n = LeaseMaster /\ UNCHANGED chosen
      BY <2>2, CaptainAssumption, QuorumSizes
         DEF Commit, Receive, LeaseInv, MasterInv
    <3>2. Admit(n, EntryFor(n, r), InitQuorum, net)
      BY <2>2, <3>1 DEF Commit, QuorumInv
    <3>3. CASE net' = net /\ UNCHANGED lastSlot
      BY <1>0, <2>0, <3>1, <3>3, NothingAnnounced DEF Announcing
    <3>4. ASSUME NEW e, OpenSlot(n, e, chosen[n], proposers[n], InitQuorum, net)
          PROVE  AnnounceInv'
      BY <2>0, <3>1, <3>4, OpeningAnnounces
    <3>. QED  BY <3>2, <3>3, <3>4 DEF Admit
  <2>. QED  BY <1>1, <2>1, <2>2 DEF Write, CommitTakingOver
<1>2. ASSUME NEW m \in net, Deliver(m)
      PROVE  AnnounceInv'
  <2>0. UNCHANGED logPending
    BY <1>2 DEF Deliver, commoVars
  <2>1. /\ m \in Messages /\ m.to \in Node
        /\ m.type \in {"ACCEPT", "ACCEPTED", "COMMAND"}
    BY AnswerTypes DEF IInv, TypeOK, LeaseInv, MessageInv, MessageOK
  <2>2. CASE HandlePrepare(m) \/ IgnorePromise(m) \/ HandlePromise(m)
    BY <2>1, <2>2 DEF HandlePrepare, IgnorePromise, HandlePromise, Arrives
  <2>3. CASE HandleCommand(m) \/ IgnoreAccepted(m)
    <3>1. net' = net \ {m} /\ UNCHANGED <<lastSlot, chosen>>
      BY <2>3 DEF HandleCommand, IgnoreAccepted, nodeVars
    <3>. QED  BY <1>0, <2>0, <3>1, NothingAnnounced DEF Announcing
  <2>4. CASE HandleAccept(m)
    BY <2>0, <2>4, AcceptAnnounced
  <2>5. CASE HandleAccepted(m)
    <3>. DEFINE n == m.to
                p == AddAccepted(proposers[n][m.slot], m.from, m.reply)
    <3>1. /\ n = LeaseMaster /\ view[n].quorums = InitQuorum
          /\ p.status = "PHASEII" /\ OpenOK(m.slot, p)
          /\ p \in ProposerType /\ m.slot \in Slot
      BY <2>5, Counting DEF QuorumInv
    <3>2. AcceptedVerdict(p) # "RESTART" /\ p.value.id = p.init.id
      <4>. HIDE DEF p
      <4>. QED  BY <3>1, Verdict DEF OpenOK
    <3>3. \A k \in Node \ {n} : chosen'[k] = chosen[k]
      <4>1. chosen' = chosen \/ \E c : chosen' = [chosen EXCEPT ![n] = c]
        <5>. HIDE DEF p
        <5>1. \/ UNCHANGED chosen
              \/ ChooseOwn(m, p) \/ ChooseOther(m, p)
          BY <2>5 DEF HandleAccepted, p
        <5>. QED  BY <5>1 DEF ChooseOwn, ChooseOther
      <4>. QED  BY <4>1 DEF IInv, TypeOK
    <3>. HIDE DEF p
    <3>4. CASE net' = net \ {m} /\ UNCHANGED lastSlot
      BY <1>0, <2>0, <3>1, <3>3, <3>4, QuorumSizes, NothingAnnounced
         DEF Announcing
    <3>5. ASSUME NEW e, NEW ch, NEW others,
                 OpenSlot(n, e, ch, others, view[n].quorums, net \ {m})
          PROVE  AnnounceInv'
      BY <2>0, <3>1, <3>3, <3>5, QuorumSizes, OpeningAnnounces
    <3>6. CASE ChooseOwn(m, p)
      BY <3>4, <3>5, <3>6 DEF ChooseOwn
    <3>7. ~ChooseOther(m, p)
      BY <3>2 DEF ChooseOther
    <3>. QED  BY <2>5, <3>2, <3>4, <3>6, <3>7 DEF HandleAccepted, p
  <2>. QED  BY <1>2, <2>2, <2>3, <2>4, <2>5 DEF Deliver, HandleMsg
<1>3. CASE \/ \E m \in net : Lose(m)
           \/ \E n \in Mortal : Kill(n)
           \/ UNCHANGED vars
  <2>1. net' \subseteq net /\ UNCHANGED <<lastSlot, chosen, logPending>>
    BY <1>3 DEF Lose, Kill, vars, captainVars, nodeVars, commoVars
  <2>. QED  BY <1>0, <2>1, NothingAnnounced DEF Announcing
<1>4. ASSUME NEW n \in Node, NEW s \in logPending[n],
             \/ \E q \in LogServer : OnDataLog(n, s, q)
             \/ OnTimeoutLog(n, s)
      PROVE  AnnounceInv'
  <2>1. n \notin InitQuorum
    BY <1>0, <1>4
  <2>2. /\ net' = net /\ UNCHANGED lastSlot
        /\ chosen' = chosen \/ \E c : chosen' = [chosen EXCEPT ![n] = c]
        /\ \E c : logPending' = [logPending EXCEPT ![n] = c]
    BY <1>4 DEF OnDataLog, OnTimeoutLog, captainVars, nodeVars
  <2>3. \A k \in InitQuorum : chosen'[k] = chosen[k] /\ logPending'[k] = {}
    BY <1>0, <2>1, <2>2, QuorumSizes DEF IInv, TypeOK
  <2>. QED  BY <2>2, <2>3, NothingAnnounced DEF Announcing
<1>. QED  BY <1>1, <1>2, <1>3, <1>4 DEF Next, Nack

\* Where the quorum cannot change, no decision is announced to a node that
\* knows it, whatever is lost or late: no ACCEPT is left unanswered by the
\* return of captain.cpp:366.
THEOREM AnnouncementsAreNews ==
  ASSUME ~Recover
  PROVE  Spec => []AnnouncedOnce
<1>1. SingleWriter /\ OneDigitNames
  BY DEF SingleWriter, OneDigitNames
<1>2. Init => QuorumInv /\ AnnounceInv
  <2>. SUFFICES ASSUME Init  PROVE QuorumInv /\ AnnounceInv
    OBVIOUS
  <2>1. QuorumInv
    BY MasterNode DEF Init, CaptainInit, QuorumInv, InitView
  <2>2. Announcing = {} /\ \A k \in Node, l \in Slot : chosen[k][l] = NULL
    BY DEF Init, CaptainInit, Announcing
  <2>3. \A k \in InitQuorum : logPending[k] = {}
    <3>. SUFFICES ASSUME NEW k \in InitQuorum  PROVE logPending[k] = {}
      OBVIOUS
    <3>1. k \in Node
      BY QuorumSizes
    <3>2. logCounter[k] = 0
      BY <3>1 DEF Init, CommoInit
    <3>3. logPending[k] = 1 .. 0
      BY <3>1, <3>2 DEF Init, CommoInit
    <3>. QED  BY <3>3
  <2>. QED  BY <2>1, <2>2, <2>3, QuorumSizes DEF AnnounceInv
<1>3. IInv /\ LeaseInv /\ QuorumInv /\ AnnounceInv /\ [Next]_vars
        => QuorumInv' /\ AnnounceInv'
  BY NextQuorum, NextAnnounce
<1>4. AnnounceInv => AnnouncedOnce
  BY DEF AnnounceInv, Announcing, AnnouncedOnce, KnowsLast
<1>. QED  BY <1>1, <1>2, <1>3, <1>4, LeaseInvariant, PTL DEF Spec

-----------------------------------------------------------------------------
(* The captains implement the log *)

LogStep == [Log!LogNext]_(Log!logVars)

\* The decision of a slot is its one chosen value.
DecidedOK ==
  /\ Decided \in [Slot -> Value \cup {NULL}]
  /\ \A s \in Slot :
       /\ ChosenIn(s) = {} => Decided[s] = NULL
       /\ \A v \in ChosenIn(s) : v = Decided[s] /\ v \in Value /\ v # NULL

\* It is, and no write is decided twice.
LEMMA DecidedIs == IInv /\ LeaseInv => DecidedOK /\ ChosenOnce
<1>. SUFFICES ASSUME IInv, LeaseInv  PROVE DecidedOK /\ ChosenOnce
  OBVIOUS
<1>1. OneProposal /\ ChosenIsProposed
  BY OneValue DEF LeaseInv
<1>2. \A s \in Slot : \A v \in ChosenIn(s) : v \in Value /\ v # NULL
  BY DEF ChosenIn, IInv, TypeOK, Vote, Value, NULL
<1>3. ASSUME NEW s \in Slot, NEW v \in ChosenIn(s)
      PROVE  Decided[s] = v
  <2>1. Decided[s] = CHOOSE x \in ChosenIn(s) : TRUE
    BY <1>3 DEF Decided
  <2>2. Decided[s] \in ChosenIn(s)
    BY <1>3, <2>1
  <2>. QED  BY <1>1, <1>3, <2>2 DEF OneProposal, ChosenIsProposed
<1>4. \A s \in Slot : ChosenIn(s) = {} => Decided[s] = NULL
  BY DEF Decided
<1>5. Decided = [s \in Slot |-> Decided[s]]
  BY DEF Decided
<1>6. Decided \in [Slot -> Value \cup {NULL}]
  BY <1>2, <1>3, <1>4, <1>5
<1>. QED  BY <1>2, <1>3, <1>4, <1>6, ChosenIsOnce DEF DecidedOK

\* No step adds more than one vote.
OneVote == votes \subseteq votes' /\ \E w : votes' \subseteq votes \cup {w}

\* A vote decides one slot at most, and for a write no other slot has.
LEMMA VoteDecides ==
  ASSUME IInv, LeaseInv, IInv', LeaseInv', OneVote
  PROVE  UNCHANGED Decided \/ \E s \in Slot : Log!Decide(s)
<1>1. DecidedOK /\ DecidedOK' /\ ChosenOnce'
  BY DecidedIs, PTL
<1>2. CASE votes' = votes
  <2>1. \A s : ChosenIn(s)' = ChosenIn(s)
    BY <1>2, ChosenSame
  <2>2. \A s \in Slot : Decided'[s] = Decided[s]
    BY <1>1, <2>1 DEF DecidedOK
  <2>. QED  BY <1>1, <2>2 DEF DecidedOK
<1>3. CASE votes' # votes
  <2>1. PICK w : votes' = votes \cup {w}
    BY <1>3 DEF OneVote
  <2>. DEFINE s == w.slot
  <2>2. w \in Vote /\ s \in Slot
    <3>1. w \in Vote
      BY <2>1 DEF IInv, TypeOK
    <3>. QED  BY <3>1 DEF Vote
  <2>3. \A t \in Slot \ {s} : ChosenIn(t)' = ChosenIn(t)
    <3>. SUFFICES ASSUME NEW t \in Slot \ {s}
         PROVE  ChosenIn(t)' = ChosenIn(t)
      OBVIOUS
    <3>1. \A b, v : Voters(t, b, v)' = Voters(t, b, v)
      BY <2>1 DEF Voters
    <3>2. \A b, v : ChosenAt(t, b, v)' = ChosenAt(t, b, v)
      BY <3>1 DEF ChosenAt
    <3>. QED  BY <2>1, <3>2 DEF ChosenIn
  <2>4. \A t \in Slot \ {s} : Decided'[t] = Decided[t]
    BY <1>1, <2>3 DEF DecidedOK
  <2>5. CASE Decided'[s] = Decided[s]
    <3>1. Decided' = Decided
      BY <1>1, <2>4, <2>5 DEF DecidedOK
    <3>. QED  BY <3>1
  <2>6. CASE Decided'[s] # Decided[s]
    <3>1. ChosenIn(s) = {} /\ Decided[s] = NULL
      BY <1>1, <2>1, <2>2, <2>6, ChosenGrows DEF DecidedOK
    <3>2. Decided'[s] \in ChosenIn(s)' /\ Decided'[s] \in Value
      BY <1>1, <2>2, <2>6, <3>1 DEF DecidedOK
    <3>3. \A t \in Slot : Decided[t] # NULL =>
            Decided[t].data # Decided'[s].data
      <4>. SUFFICES ASSUME NEW t \in Slot, Decided[t] # NULL
           PROVE  Decided[t].data # Decided'[s].data
        OBVIOUS
      <4>1. t # s /\ Decided'[t] = Decided[t]
        BY <2>4, <3>1
      <4>2. Decided'[t] \in ChosenIn(t)'
        BY <1>1, <4>1 DEF DecidedOK
      <4>. QED  BY <1>1, <2>2, <3>2, <4>1, <4>2 DEF ChosenOnce
    <3>4. Decided' = [Decided EXCEPT ![s] = Decided'[s]]
      BY <1>1, <2>2, <2>4 DEF DecidedOK
    <3>5. Log!Decide(s)
      BY <3>1, <3>2, <3>3, <3>4 DEF Log!Decide
    <3>. QED  BY <2>2, <3>5
  <2>. QED  BY <2>5, <2>6
<1>. QED  BY <1>2, <1>3

\* A captain that learns a value of a slot that has one learns the decision.
LEMMA LearnsDecided ==
  ASSUME IInv, LeaseInv, IInv', LeaseInv', OneVote,
         NEW n \in Node, NEW l \in Slot, NEW h, h # NULL,
         ChosenIn(l) # {},
         chosen' = [chosen EXCEPT ![n] = AddChosen(chosen[n], l, h)]
  PROVE  UNCHANGED chosen \/ \E k \in Node, s \in Slot : Log!Learn(k, s)
<1>1. DecidedOK /\ DecidedOK'
  BY DecidedIs, PTL
<1>2. /\ chosen \in [Node -> [Slot -> Value \cup {NULL}]]
      /\ chosen[n] \in [Slot -> Value \cup {NULL}]
  BY DEF IInv, TypeOK
<1>3. CASE chosen[n][l] # NULL
  <2>1. AddChosen(chosen[n], l, h) = chosen[n]
    BY <1>2, <1>3 DEF AddChosen
  <2>2. chosen' = chosen
    BY <1>2, <2>1
  <2>. QED  BY <2>2
<1>4. CASE chosen[n][l] = NULL
  <2>1. chosen'[n][l] = h
    BY <1>2, <1>4 DEF AddChosen
  <2>2. h \in ChosenIn(l)'
    BY <2>1 DEF LeaseInv, LearnedIsChosen
  <2>3. PICK c \in ChosenIn(l) : TRUE
    OBVIOUS
  <2>4. c \in ChosenIn(l)'
    BY <2>3, ChosenGrows DEF OneVote
  <2>5. Decided[l] = h
    BY <1>1, <2>2, <2>3, <2>4 DEF DecidedOK
  <2>6. AddChosen(chosen[n], l, h) = [chosen[n] EXCEPT ![l] = Decided[l]]
    BY <1>2, <1>4, <2>5 DEF AddChosen
  <2>7. chosen' = [chosen EXCEPT ![n][l] = Decided[l]]
    BY <2>6
  <2>8. Log!Learn(n, l)
    BY <1>4, <2>5, <2>7 DEF Log!Learn
  <2>. QED  BY <2>8
<1>. QED  BY <1>3, <1>4

\* Opening a slot adds the own vote, and a PREPARE none.
LEMMA OpenVotes ==
  ASSUME NEW n, NEW e, NEW ch, NEW others, NEW q, NEW msgs,
         OpenSlot(n, e, ch, others, q, msgs)
  PROVE  OneVote
<1>1. PICK s, p, last, lastId :
        BroadcastAccept(n, s, p, others, q, last, lastId, msgs)
  BY Zenon DEF OpenSlot
<1>. QED  BY <1>1 DEF BroadcastAccept, VoteOf, OneVote

\* The handler of ACCEPTED replies to the client of a decided write.
LEMMA AcceptedIsLogStep ==
  ASSUME IInv, LeaseInv, IInv', LeaseInv', NEW m \in net, HandleAccepted(m)
  PROVE  LogStep
<1>. DEFINE n == LeaseMaster
            s == m.slot
            p == AddAccepted(proposers[n][s], m.from, m.reply)
<1>. USE MasterNode
<1>1. /\ m.to = n /\ s \in Slot
      /\ p \in ProposerType /\ p.status = "PHASEII" /\ OpenOK(s, p)
  BY Counting
<1>2. AcceptedVerdict(p) # "RESTART"
      /\ (AcceptedVerdict(p) = "CHOOSE" => p.value \in ChosenIn(s))
  BY <1>1, Verdict
<1>. HIDE DEF p
<1>3. ~ChooseOther(m, p)
  BY <1>1 DEF ChooseOther, OpenOK
<1>4. CASE UNCHANGED <<votes, chosen, informed>>
  <2>1. OneVote
    BY <1>4 DEF OneVote
  <2>. QED  BY <1>4, <2>1, VoteDecides DEF LogStep, Log!LogNext
<1>5. CASE AcceptedVerdict(p) = "CHOOSE" /\ ChooseOwn(m, p)
  <2>1. /\ chosen' = [chosen EXCEPT ![n] = AddChosen(chosen[n], s, p.value)]
        /\ informed' = informed \cup {[client |-> p.client, slot |-> s]}
    BY <1>1, <1>5 DEF ChooseOwn
  <2>2. OneVote
    <3>1. UNCHANGED votes => OneVote
      BY DEF OneVote
    <3>. QED  BY <1>5, <3>1, OpenVotes DEF ChooseOwn
  <2>3. DecidedOK
    BY DecidedIs
  <2>4. p.value \in ChosenIn(s) /\ p.value # NULL /\ Decided[s] = p.value
    BY <1>1, <1>2, <1>5, <2>3 DEF DecidedOK
  <2>5. UNCHANGED chosen \/ \E k \in Node, t \in Slot : Log!Learn(k, t)
    BY <1>1, <2>1, <2>2, <2>4, LearnsDecided
  <2>6. p.client = p.value.data
    BY <1>1 DEF OpenOK
  <2>7. Log!Reply(s)
    BY <2>1, <2>4, <2>6 DEF Log!Reply
  <2>8. \E t \in Slot : Log!Reply(t)
    BY <1>1, <2>7
  <2>9. UNCHANGED Decided \/ \E t \in Slot : Log!Decide(t)
    BY <2>2, VoteDecides
  <2>. QED  BY <2>5, <2>8, <2>9 DEF LogStep, Log!LogNext
<1>. QED  BY <1>1, <1>2, <1>3, <1>4, <1>5 DEF HandleAccepted, p

\* An announced or logged decision is learned as it was taken.
LEMMA AcceptIsLogStep ==
  ASSUME IInv, LeaseInv, IInv', LeaseInv', NEW m \in net, HandleAccept(m)
  PROVE  LogStep
<1>. USE MasterNode
<1>1. OneVote /\ UNCHANGED informed /\ m.to \in Node
  BY Voting DEF HandleAccept, AcceptAtSlot, OneVote
<1>2. UNCHANGED chosen \/ \E k \in Node, s \in Slot : Log!Learn(k, s)
  <2>1. CASE UNCHANGED chosen
    BY <2>1
  <2>2. CASE ~UNCHANGED chosen
    <3>. DEFINE n == m.to
                l == m.lastSlot
    <3>. PICK h : h = acceptors'[n][l].maxValue
      OBVIOUS
    <3>1. /\ m.type = "ACCEPT" /\ HoldsLast(m) /\ ~KnowsLast(m)
          /\ chosen' = [chosen EXCEPT ![n] = AddChosen(chosen[n], l, h)]
      BY <2>2 DEF HandleAccept, AcceptAtSlot, Arrives
    <3>2. l \in Slot /\ h # NULL /\ l # 0
      <4>1. l \in 0 .. MaxSlot
        BY <3>1, AnswerTypes DEF IInv, TypeOK
      <4>2. h # NULL /\ l # 0
        BY <3>1 DEF HoldsLast, KnowsLast
      <4>. QED  BY <4>1, <4>2, MessageAssumption DEF Slot
    <3>3. ChosenIn(l) # {}
      <4>1. chosen[LeaseMaster][l] # NULL
        BY <3>1, <3>2 DEF LeaseInv, MessageInv, MessageOK
      <4>2. chosen[LeaseMaster][l] \in ChosenIn(l)
        BY <3>2, <4>1 DEF LeaseInv, LearnedIsChosen
      <4>. QED  BY <4>2
    <3>. QED  BY <1>1, <3>1, <3>2, <3>3, LearnsDecided
  <2>. QED  BY <2>1, <2>2
<1>3. UNCHANGED Decided \/ \E s \in Slot : Log!Decide(s)
  BY <1>1, VoteDecides
<1>. QED  BY <1>1, <1>2, <1>3 DEF LogStep, Log!LogNext

\* Every step is one of the log, or leaves it alone.
LEMMA NextIsLogStep ==
  ASSUME SingleWriter, IInv, LeaseInv, IInv', LeaseInv', [Next]_vars
  PROVE  LogStep
<1>1. ASSUME OneVote, UNCHANGED <<chosen, informed>>  PROVE LogStep
  BY <1>1, VoteDecides DEF LogStep, Log!LogNext
<1>2. UNCHANGED votes => OneVote
  BY DEF OneVote
<1>3. ASSUME NEW n \in WriteNode, NEW r \in Request, Write(n, r)
      PROVE  LogStep
  <2>1. CASE CommitForwarding(n, r)
    BY <1>1, <1>2, <2>1 DEF CommitForwarding, Receive, paxosVars
  <2>2. CASE CommitTakingOver(n, r)
    BY <2>2, CaptainAssumption, MasterNode
       DEF CommitTakingOver, SingleWriter, LeaseInv, MasterInv
  <2>3. CASE Commit(n, r)
    <3>1. UNCHANGED <<chosen, informed>>
      BY <2>3 DEF Commit, Receive
    <3>2. OneVote
      BY <1>2, <2>3, OpenVotes DEF Commit, Admit, paxosVars
    <3>. QED  BY <1>1, <3>1, <3>2
  <2>. QED  BY <1>3, <2>1, <2>2, <2>3 DEF Write
<1>4. ASSUME NEW m \in net, Deliver(m)
      PROVE  LogStep
  <2>1. m.type \in {"ACCEPT", "ACCEPTED", "COMMAND"}
    BY DEF LeaseInv, MessageInv, MessageOK
  <2>2. CASE HandlePrepare(m) \/ IgnorePromise(m) \/ HandlePromise(m)
    BY <2>1, <2>2 DEF HandlePrepare, IgnorePromise, HandlePromise, Arrives
  <2>3. CASE HandleCommand(m) \/ IgnoreAccepted(m)
    BY <1>1, <1>2, <2>3 DEF HandleCommand, IgnoreAccepted, paxosVars
  <2>. QED  BY <1>4, <2>2, <2>3, AcceptIsLogStep, AcceptedIsLogStep
            DEF Deliver, HandleMsg
<1>5. ASSUME NEW n \in Node, NEW s \in logPending[n], NEW q \in LogServer,
             OnDataLog(n, s, q)
      PROVE  LogStep
  <2>1. /\ q \in Node /\ s \in Slot /\ chosen[q][s] # NULL
        /\ chosen' = [chosen EXCEPT ![n] =
                        AddChosen(chosen[n], s, chosen[q][s])]
        /\ UNCHANGED <<votes, informed>>
    BY <1>5, QuorumSizes DEF LogServer, OnDataLog, paxosVars
  <2>2. ChosenIn(s) # {}
    BY <2>1 DEF LeaseInv, LearnedIsChosen
  <2>3. UNCHANGED chosen \/ \E k \in Node, t \in Slot : Log!Learn(k, t)
    BY <1>2, <1>5, <2>1, <2>2, LearnsDecided
  <2>. QED  BY <1>2, <2>1, <2>3, VoteDecides DEF LogStep, Log!LogNext
<1>6. CASE \/ \E m \in net : Lose(m) \/ Nack(m)
           \/ \E n \in Mortal : Kill(n)
           \/ \E n \in Node : \E s \in logPending[n] : OnTimeoutLog(n, s)
           \/ UNCHANGED vars
  BY <1>1, <1>2, <1>6 DEF Lose, Nack, Kill, OnTimeoutLog, vars, captainVars,
                          nodeVars, paxosVars
<1>. QED  BY <1>3, <1>4, <1>5, <1>6 DEF Next

\* The captains are one log to their clients: one final decision per slot, no
\* write decided twice, copies that hold decisions only, and replies that
\* follow the decision they report (captain.cpp:366-380, 425-503).
THEOREM CaptainsImplementLog ==
  ASSUME SingleWriter, OneDigitNames
  PROVE  Spec => ImplementsLog
<1>1. Init => Log!LogInit
  <2>. SUFFICES ASSUME Init  PROVE Log!LogInit
    OBVIOUS
  <2>1. \A s : ChosenIn(s) = {}
    BY DEF Init, CaptainInit, ChosenIn
  <2>2. Decided = [s \in Slot |-> NULL]
    BY <2>1 DEF Decided
  <2>. QED  BY <2>2 DEF Init, CaptainInit, Log!LogInit
<1>2. IInv /\ LeaseInv /\ IInv' /\ LeaseInv' /\ [Next]_vars => LogStep
  BY NextIsLogStep
<1>. QED  BY <1>1, <1>2, LeaseInvariant, PTL
          DEF Spec, ImplementsLog, Log!LogSpec, LogStep
=============================================================================
