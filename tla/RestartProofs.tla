---------------------------- MODULE RestartProofs ----------------------------
(***************************************************************************)
(* Followers that lose their memory: as long as the master of the lease is *)
(* not started again and is the only one that gets client writes, the      *)
(* captains are a log whose copies may be lost, however many followers are *)
(* started again, and whatever is lost or replaced by a spare node.        *)
(***************************************************************************)
EXTENDS Restart, LeaseProofs

\* The master of the lease, once stopped, stays stopped.
FollowersOnly == LeaseMaster \notin Reborn

ForgetfulStep == [Log!LogNext \/ \E n \in Node : Log!Forget(n)]_(Log!logVars)

\* A step of RestartSpec is one of Naxos, or the start of a follower.
LEMMA RestartSteps ==
  ASSUME FollowersOnly, [RestartNext]_restartVars
  PROVE  [Next]_vars \/ \E n \in Node \ {LeaseMaster} : StartAgain(n)
<1>1. Reborn \subseteq Node \ {LeaseMaster}
  BY NaxosAssumption, RestartAssumption DEF FollowersOnly
<1>. QED  BY <1>1 DEF RestartNext, restartVars

\* What a node that starts has, has the right type.
LEMMA StartTypes ==
  /\ InitView \in ViewType
  /\ NoProposer \in ProposerType
  /\ \A s \in Slot :
       NewAcceptor(IF s <= Length THEN LeaseBallot ELSE 0) \in AcceptorType
<1>1. InitView \in ViewType
  BY QuorumSizes, ViewAssumption DEF InitView, ViewType
<1>2. \A b \in Ballot : NewAcceptor(b) \in AcceptorType
  BY DEF NewAcceptor, AcceptorType, Ballot
<1>3. LeaseBallot \in Ballot /\ 0 \in Ballot
  BY MasterNode DEF Ballot
<1>. QED  BY <1>1, <1>2, <1>3, NoProposerType

\* The new process is in a state of the right type.
LEMMA StartTyped ==
  ASSUME TypeOK, NEW n \in Node, StartAgain(n)
  PROVE  TypeOK'
<1>. USE DEF StartAgain
<1>1. /\ view' \in [Node -> ViewType]
      /\ acceptors' \in [Node -> [Slot -> AcceptorType]]
      /\ proposers' \in [Node -> [Slot -> ProposerType]]
  BY StartTypes DEF TypeOK
<1>2. /\ maxSlot' \in [Node -> 0 .. MaxSlot]
      /\ lastSlot' \in [Node -> 0 .. MaxSlot]
      /\ valueId' \in [Node -> Nat]
  <2>1. 0 \in 0 .. MaxSlot /\ n \in Nat
    BY MessageAssumption, ViewAssumption DEF Node
  <2>. QED  BY <2>1 DEF TypeOK
<1>3. /\ tocommit' \in [Node -> Seq(Entry)]
      /\ chosen' \in [Node -> [Slot -> Value \cup {NULL}]]
      /\ loop' \in [Node -> {"running", "wait_commit", "wait_quorum_mut",
                             "killed"}]
  <2>1. <<>> \in Seq(Entry)
    OBVIOUS
  <2>. QED  BY <2>1 DEF TypeOK
<1>4. /\ quorumMutHeld' \in [Node -> BOOLEAN]
      /\ logCounter' \in [Node -> Nat]
      /\ logPending' \in [Node -> SUBSET Nat]
  <2>1. logCounter' \in [Node -> Nat]
    BY CommoAssumption DEF TypeOK
  <2>2. 1 .. logCounter'[n] \subseteq Nat
    BY <2>1
  <2>. QED  BY <2>1, <2>2 DEF TypeOK
<1>. QED  BY <1>1, <1>2, <1>3, <1>4 DEF TypeOK

\* A follower has no messages of a master on their way, and no open slots: its
\* start keeps the inductive invariant.
LEMMA StartKeeps ==
  ASSUME IInv, LeaseInv, NEW n \in Node \ {LeaseMaster}, StartAgain(n)
  PROVE  IInv'
<1>1. /\ view' = [view EXCEPT ![n] = InitView]
      /\ proposers' = [proposers EXCEPT ![n] = [s \in Slot |-> NoProposer]]
      /\ net' \subseteq net
  BY DEF StartAgain
<1>2. view'[n] = InitView /\ \A k \in Node \ {n} : view'[k] = view[k]
  BY <1>1 DEF IInv, TypeOK
<1>3. TypeOK'
  BY StartTyped DEF IInv
<1>4. ViewInv'
  <2>1. ViewOK(n)'
    BY <1>2, QuorumSizes, MasterNode DEF ViewOK, InitView
  <2>2. \A k \in Node \ {n} : ViewOK(k)'
    BY <1>2 DEF IInv, ViewInv, ViewOK
  <2>. QED  BY <2>1, <2>2 DEF ViewInv
<1>5. NetInv'
  <2>. SUFFICES ASSUME NEW m \in net', m.type \in Interest
       PROVE  NetOK(m)'
    BY DEF NetInv, NetOK
  <2>1. NetOK(m) /\ m.from \in Node
    BY <1>1, AnswerTypes DEF IInv, NetInv, TypeOK
  <2>2. m.from = LeaseMaster
    BY <2>1 DEF NetOK, LeaseInv, MasterInv
  <2>. QED  BY <1>2, <2>1, <2>2, MasterNode DEF NetOK
<1>6. ProposerInv'
  <2>1. /\ proposers'[n] = [s \in Slot |-> NoProposer]
        /\ \A k \in Node \ {n} : proposers'[k] = proposers[k]
    BY <1>1 DEF IInv, TypeOK
  <2>2. /\ HasInit(proposers'[n])
        /\ \A s \in Slot : proposers'[n][s].status = "EMPTY"
    BY <2>1 DEF HasInit, NoProposer
  <2>. QED  BY <1>2, <2>1, <2>2 DEF IInv, ProposerInv
<1>. QED  BY <1>3, <1>4, <1>5, <1>6 DEF IInv

\* What the start of a follower leaves alone
LEMMA StartLeaves ==
  ASSUME TypeOK, NEW n \in Node \ {LeaseMaster}, StartAgain(n)
  PROVE  /\ UNCHANGED <<unsent, informed, votes, proposals>>
         /\ net' \subseteq net
         /\ view'[n] = InitView
         /\ \A s \in Slot :
              /\ acceptors'[n][s] =
                   NewAcceptor(IF s <= Length THEN LeaseBallot ELSE 0)
              /\ chosen'[n][s] = NULL
         /\ \A k \in Node \ {n} :
              /\ view'[k] = view[k] /\ acceptors'[k] = acceptors[k]
              /\ proposers'[k] = proposers[k] /\ maxSlot'[k] = maxSlot[k]
              /\ tocommit'[k] = tocommit[k] /\ chosen'[k] = chosen[k]
BY DEF StartAgain, TypeOK

\* An acceptor that starts holds nothing, and the votes it gave stay given:
\* the start of a follower keeps the invariant of the lease.
LEMMA StartKeepsLease ==
  ASSUME IInv, LeaseInv, NEW n \in Node \ {LeaseMaster}, StartAgain(n)
  PROVE  LeaseInv'
<1>1. /\ UNCHANGED <<unsent, votes, proposals>> /\ net' \subseteq net
      /\ view'[n] = InitView
      /\ \A s \in Slot :
           /\ acceptors'[n][s] =
                NewAcceptor(IF s <= Length THEN LeaseBallot ELSE 0)
           /\ chosen'[n][s] = NULL
      /\ \A k \in Node \ {n} :
           /\ view'[k] = view[k] /\ acceptors'[k] = acceptors[k]
           /\ proposers'[k] = proposers[k] /\ maxSlot'[k] = maxSlot[k]
           /\ tocommit'[k] = tocommit[k] /\ chosen'[k] = chosen[k]
  BY StartLeaves DEF IInv
<1>. USE MasterNode
<1>2. MasterInv'
  BY <1>1 DEF LeaseInv, MasterInv, InitView
<1>3. ProposalInv' /\ WaitInv' /\ VoteInv'
  BY <1>1 DEF LeaseInv, ProposalInv, WaitInv, Waits, VoteInv, ProposedIn
<1>4. AcceptorInv'
  <2>1. \A s \in Slot : /\ acceptors'[n][s].maxProposed <= LeaseBallot
                        /\ acceptors'[n][s].maxValue = NULL
    <3>. SUFFICES ASSUME NEW s \in Slot
         PROVE  /\ acceptors'[n][s].maxProposed <= LeaseBallot
                /\ acceptors'[n][s].maxValue = NULL
      OBVIOUS
    <3>1. PICK b \in {0, LeaseBallot} : acceptors'[n][s] = NewAcceptor(b)
      BY <1>1
    <3>. QED  BY <3>1 DEF NewAcceptor
  <2>. QED  BY <1>1, <2>1 DEF LeaseInv, AcceptorInv
<1>5. OpenInv'
  BY <1>1 DEF LeaseInv, OpenInv, OpenOK, ProposedIn
<1>6. MessageInv'
  BY <1>1 DEF LeaseInv, MessageInv, MessageOK, ProposedIn
<1>7. LearnedIsChosen'
  BY <1>1, ChosenSame DEF LeaseInv, LearnedIsChosen
<1>. QED  BY <1>2, <1>3, <1>4, <1>5, <1>6, <1>7 DEF LeaseInv

\* The node's copy is lost, and nothing else of the log.
LEMMA StartForgets ==
  ASSUME NEW n \in Node, StartAgain(n)
  PROVE  Log!Forget(n)
<1>1. votes' = votes /\ informed' = informed
  BY DEF StartAgain
<1>2. Decided' = Decided
  BY <1>1 DEF Decided, ChosenIn, ChosenAt, Voters
<1>. QED  BY <1>1, <1>2 DEF StartAgain, Log!Forget

\* Both invariants survive the starts of followers.
THEOREM RestartInvariant ==
  ASSUME SingleWriter, FollowersOnly, OneDigitNames
  PROVE  RestartSpec => [](IInv /\ LeaseInv)
<1>1. RestartInit => IInv /\ LeaseInv
  BY InitIInv, LeaseInit DEF RestartInit
<1>2. ASSUME IInv, LeaseInv, [RestartNext]_restartVars  PROVE IInv'
  BY <1>2, RestartSteps, StartKeeps, NextIInv
<1>3. ASSUME IInv, LeaseInv, IInv', [RestartNext]_restartVars
      PROVE  LeaseInv'
  BY <1>3, RestartSteps, StartKeepsLease, NextLease
<1>. QED  BY <1>1, <1>2, <1>3, PTL DEF RestartSpec

\* The new process of a node holds no lock and has its spare nodes again.
LEMMA StartKeepsSpare ==
  ASSUME TypeOK, SpareInv, NEW k \in Node, StartAgain(k)
  PROVE  SpareInv' /\ StuckWithoutSpares
<1>1. /\ ~Stuck(k)'
      /\ \A n \in Node \ {k} : view'[n] = view[n] /\ (Stuck(n)' <=> Stuck(n))
  BY DEF StartAgain, Stuck, TypeOK
<1>. QED  BY <1>1 DEF SpareInv, StuckWithoutSpares

\* Also where followers start again, a captain's event loop blocks on
\* quorum_mut_ only when no node is spare (commo.cpp:433-456).
THEOREM RestartBlocksLate ==
  ASSUME SingleWriter, FollowersOnly, OneDigitNames
  PROVE  RestartSpec => BlocksOnlyWithoutSpares
<1>1. ASSUME IInv, SpareInv, [RestartNext]_restartVars
      PROVE  SpareInv' /\ StuckWithoutSpares
  BY <1>1, RestartSteps, NextSpare, StartKeepsSpare DEF IInv
<1>2. StuckWithoutSpares => \A n \in Node :
        quorumMutHeld'[n] \/ loop'[n] = "wait_quorum_mut"
          => view[n].nquorums = {}
  BY DEF StuckWithoutSpares, Stuck
<1>3. RestartInit => SpareInv
  BY InitSpare DEF RestartInit
<1>. QED  BY <1>1, <1>2, <1>3, RestartInvariant, PTL
          DEF RestartSpec, BlocksOnlyWithoutSpares

\* The lease outlives them too: a follower that has forgotten what it accepted
\* accepts the same again, is never asked for a promise and never refuses; the
\* master is in its quorum, and two decisions are never taken for a slot
\* (acceptor.cpp:84, captain.cpp:48-53, 196-203, view.cpp:98-128).
THEOREM FollowersMayRestart ==
  ASSUME SingleWriter, FollowersOnly, OneDigitNames
  PROVE  RestartSpec => [](MasterInQuorum /\ NoPhaseOne /\ Agreement)
<1>1. IInv => MasterInQuorum
  BY DEF IInv, ViewInv, ViewOK, MasterInQuorum
<1>2. LeaseInv => NoPhaseOne /\ Agreement
  BY LeaseAgrees DEF LeaseInv, MessageInv, MessageOK, NoPhaseOne
<1>. QED  BY <1>1, <1>2, RestartInvariant, PTL

\* A daemon that is started again has forgotten what it promised, accepted
\* and learned (acceptor.cpp:10, captain.cpp:37-55).  If it is not the master,
\* the captains are still one log: a decision stays the decision, no write is
\* decided twice, a client is told of decisions only, and what a node learns
\* after its start is what was decided before it.
THEOREM RestartImplementsForgetfulLog ==
  ASSUME SingleWriter, FollowersOnly, OneDigitNames
  PROVE  RestartSpec => ImplementsForgetfulLog
<1>1. RestartInit => Log!LogInit
  <2>. SUFFICES ASSUME RestartInit  PROVE Log!LogInit
    OBVIOUS
  <2>1. \A s : ChosenIn(s) = {}
    BY DEF RestartInit, Init, CaptainInit, ChosenIn
  <2>2. Decided = [s \in Slot |-> NULL]
    BY <2>1 DEF Decided
  <2>. QED  BY <2>2 DEF RestartInit, Init, CaptainInit, Log!LogInit
<1>2. ASSUME IInv, LeaseInv, IInv', LeaseInv', [RestartNext]_restartVars
      PROVE  ForgetfulStep
  <2>1. CASE [Next]_vars
    BY <1>2, <2>1, NextIsLogStep DEF LogStep, ForgetfulStep
  <2>2. ASSUME NEW n \in Node \ {LeaseMaster}, StartAgain(n)
        PROVE  ForgetfulStep
    BY <2>2, StartForgets DEF ForgetfulStep
  <2>. QED  BY <1>2, <2>1, <2>2, RestartSteps
<1>. QED  BY <1>1, <1>2, RestartInvariant, PTL
          DEF RestartSpec, ImplementsForgetfulLog, Log!ForgetfulSpec,
              ForgetfulStep
=============================================================================
