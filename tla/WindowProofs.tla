---------------------------- MODULE WindowProofs ----------------------------
(***************************************************************************)
(* The window: a captain never has more slots open than window_size_, and  *)
(* writes wait in its queue only while all of them are taken               *)
(* (captain.cpp:177, 187, 468).                                            *)
(***************************************************************************)
EXTENDS NaxosProofs

\* Captain n's window, and the reason a slot it opens is not open yet: open
\* slots are at most max_slot_.
WindowOK(n) ==
  /\ Cardinality(Active(proposers[n])) <= Window
  /\ tocommit[n] # <<>> => Cardinality(Active(proposers[n])) = Window
  /\ \A s \in Active(proposers[n]) : s <= maxSlot[n]
WindowInv == \A n \in Node : WindowOK(n)

\* The slots open at a captain are finitely many.
LEMMA ActiveFinite ==
  ASSUME NEW ps
  PROVE  /\ IsFiniteSet(Active(ps)) /\ Cardinality(Active(ps)) \in Nat
         /\ Active(ps) \subseteq Slot
<1>1. IsFiniteSet(Slot)
  BY FS_Interval, MessageAssumption DEF Slot
<1>2. Active(ps) \subseteq Slot
  BY DEF Active
<1>. QED  BY <1>1, <1>2, FS_Subset, FS_CardinalityType

\* Setting the proposer of a slot opens it; erasing it closes it.
LEMMA ActiveChanges ==
  ASSUME NEW ps \in [Slot -> ProposerType], NEW s \in Slot, NEW x
  PROVE  /\ x.status # "EMPTY" =>
              Active([ps EXCEPT ![s] = x]) = Active(ps) \cup {s}
         /\ x.status = "EMPTY" =>
              Active([ps EXCEPT ![s] = x]) = Active(ps) \ {s}
BY DEF Active

\* The status of an open slot after an answer of the sender's own acceptor.
LEMMA OpenStatus ==
  ASSUME NEW p \in ProposerType, NEW n \in Node
  PROVE  /\ \A r : AddAccepted(p, n, r).status = p.status
         /\ \A ack : AddPromise(p, n, ack).status = "PHASEI"
         /\ Skip(p, n).status = "PHASEII"
         /\ Continue(p).status = "PHASEII"
BY DEF AddAccepted, AddPromise, Skip, Continue, ProposerType

\* A broadcast leaves the slots of others open, and s.
LEMMA BroadcastActive ==
  ASSUME TypeOK, NEW n \in Node, NEW s \in Slot, NEW p \in ProposerType,
         NEW others \in [Slot -> ProposerType], NEW q, NEW msgs,
         \/ \E last, id : /\ BroadcastAccept(n, s, p, others, q, last, id, msgs)
                          /\ p.status # "EMPTY"
         \/ BroadcastPrepare(n, s, p, others, q, msgs)
  PROVE  /\ Active(proposers'[n]) = Active(others) \cup {s}
         /\ \A k \in Node \ {n} : proposers'[k] = proposers[k]
<1>1. PICK x : /\ x.status # "EMPTY"
               /\ proposers' = [proposers EXCEPT ![n] = [others EXCEPT ![s] = x]]
  <2>1. CASE BroadcastPrepare(n, s, p, others, q, msgs)
    <3>1. AddPromise(p, n, PromiseOf(acceptors[n][s], p.ballot)).status # "EMPTY"
      BY OpenStatus
    <3>. QED  BY <2>1, <3>1 DEF BroadcastPrepare
  <2>2. ASSUME NEW last, NEW id, p.status # "EMPTY",
               BroadcastAccept(n, s, p, others, q, last, id, msgs)
        PROVE  \E x : /\ x.status # "EMPTY"
                      /\ proposers' = [proposers EXCEPT
                                         ![n] = [others EXCEPT ![s] = x]]
    <3>1. AddAccepted(p, n, AcceptedOf(acceptors[n][s], p.ballot)).status
            # "EMPTY"
      BY <2>2, OpenStatus
    <3>. QED  BY <2>2, <3>1 DEF BroadcastAccept
  <2>. QED  BY <2>1, <2>2
<1>2. /\ proposers'[n] = [others EXCEPT ![s] = x]
      /\ \A k \in Node \ {n} : proposers'[k] = proposers[k]
  BY <1>1 DEF TypeOK
<1>3. Active([others EXCEPT ![s] = x]) = Active(others) \cup {s}
  BY <1>1, ActiveChanges
<1>. QED  BY <1>2, <1>3

\* Opening a slot when others has room for it
LEMMA OpenSlotActive ==
  ASSUME TypeOK, NEW n \in Node, NEW e \in Entry, NEW ch,
         NEW others \in [Slot -> ProposerType], NEW q, NEW msgs,
         \A s \in Active(others) : s <= maxSlot[n],
         OpenSlot(n, e, ch, others, q, msgs)
  PROVE  /\ Cardinality(Active(proposers'[n])) = Cardinality(Active(others)) + 1
         /\ \A s \in Active(proposers'[n]) : s <= maxSlot'[n]
         /\ \A k \in Node \ {n} : /\ proposers'[k] = proposers[k]
                                  /\ maxSlot'[k] = maxSlot[k]
<1>. DEFINE s == maxSlot[n] + 1
            p == Skip(NewProposer(e.value, e.client), n)
<1>1. s \in Slot /\ maxSlot' = [maxSlot EXCEPT ![n] = s]
  BY DEF OpenSlot
<1>2. p \in ProposerType /\ p.status # "EMPTY"
  <2>1. e.value \in Value /\ e.client \in Request \cup {NoRequest}
    BY DEF Entry
  <2>2. NewProposer(e.value, e.client) \in ProposerType
    BY <2>1, NewProposerType
  <2>. QED  BY <2>2, SkipType
<1>3. \E last, id : BroadcastAccept(n, s, p, others, q, last, id, msgs)
  BY DEF OpenSlot
<1>. HIDE DEF p
<1>4. /\ Active(proposers'[n]) = Active(others) \cup {s}
      /\ \A k \in Node \ {n} : proposers'[k] = proposers[k]
  <2>. HIDE DEF s
  <2>. QED  BY <1>1, <1>2, <1>3, BroadcastActive
<1>5. maxSlot[n] \in Nat /\ maxSlot'[n] = s
      /\ \A k \in Node \ {n} : maxSlot'[k] = maxSlot[k]
  BY <1>1, MessageAssumption DEF TypeOK
<1>6. s \notin Active(others) /\ Active(others) \subseteq Slot
  BY <1>5, ActiveFinite DEF Slot
<1>7. \A t \in Active(proposers'[n]) : t <= maxSlot'[n]
  BY <1>4, <1>5, <1>6 DEF Slot
<1>8. Cardinality(Active(proposers'[n])) = Cardinality(Active(others)) + 1
  BY <1>4, <1>6, ActiveFinite, FS_AddElement
<1>. QED  BY <1>4, <1>5, <1>7, <1>8

\* A step that leaves every captain's open slots, queue and newest slot alone
LEMMA SameWindows ==
  ASSUME WindowInv, UNCHANGED <<tocommit, maxSlot>>,
         \A n \in Node : Active(proposers'[n]) = Active(proposers[n])
  PROVE  WindowInv'
BY DEF WindowInv, WindowOK

\* A step of captain n alone
LEMMA OneWindow ==
  ASSUME WindowInv, NEW n \in Node, WindowOK(n)',
         \A k \in Node \ {n} : /\ proposers'[k] = proposers[k]
                               /\ tocommit'[k] = tocommit[k]
                               /\ maxSlot'[k] = maxSlot[k]
  PROVE  WindowInv'
BY DEF WindowInv, WindowOK

\* commit keeps the window: the queue is empty whenever there is room.
LEMMA AdmitKeepsWindow ==
  ASSUME IInv, WindowInv, NEW n \in Node, NEW e \in Entry, NEW q, NEW msgs,
         Admit(n, e, q, msgs)
  PROVE  WindowInv'
<1>. DEFINE queue == Append(tocommit[n], e)
            A == Active(proposers[n])
<1>0. /\ TypeOK /\ tocommit[n] \in Seq(Entry)
      /\ proposers[n] \in [Slot -> ProposerType]
  BY DEF IInv, TypeOK
<1>1. Cardinality(A) \in Nat /\ Window \in Nat /\ WindowOK(n)
  BY ActiveFinite, CaptainAssumption DEF WindowInv
<1>2. CASE /\ Cardinality(A) = Window
           /\ tocommit' = [tocommit EXCEPT ![n] = queue]
           /\ UNCHANGED <<paxosVars, maxSlot>>
  <2>1. WindowOK(n)'
    BY <1>1, <1>2 DEF WindowOK, paxosVars
  <2>. QED  BY <1>0, <1>2, <2>1, OneWindow DEF TypeOK, paxosVars
<1>3. CASE /\ Cardinality(A) < Window
           /\ tocommit' = [tocommit EXCEPT ![n] = Tail(queue)]
           /\ OpenSlot(n, Head(queue), chosen[n], proposers[n], q, msgs)
  <2>1. tocommit[n] = <<>>
    BY <1>1, <1>3 DEF WindowOK
  <2>2. queue = <<e>> /\ Head(queue) = e /\ Tail(queue) = <<>>
    BY <2>1
  <2>3. /\ tocommit'[n] = <<>>
        /\ \A k \in Node \ {n} : tocommit'[k] = tocommit[k]
    BY <1>3, <2>2 DEF IInv, TypeOK
  <2>4. \A s \in A : s <= maxSlot[n]
    BY <1>1 DEF WindowOK
  <2>. HIDE DEF queue
  <2>5. /\ Cardinality(Active(proposers'[n])) = Cardinality(A) + 1
        /\ \A s \in Active(proposers'[n]) : s <= maxSlot'[n]
        /\ \A k \in Node \ {n} : /\ proposers'[k] = proposers[k]
                                 /\ maxSlot'[k] = maxSlot[k]
    BY <1>0, <1>3, <2>2, <2>4, OpenSlotActive
  <2>6. WindowOK(n)'
    BY <1>1, <1>3, <2>3, <2>5 DEF WindowOK
  <2>. QED  BY <2>3, <2>5, <2>6, OneWindow
<1>. QED  BY <1>2, <1>3 DEF Admit

\* Client writes keep the window.
LEMMA WriteKeepsWindow ==
  ASSUME IInv, WindowInv, NEW n \in WriteNode, NEW r \in Request, Write(n, r)
  PROVE  WindowInv'
<1>1. CASE CommitForwarding(n, r)
  BY <1>1, SameWindows DEF CommitForwarding, paxosVars
<1>2. CASE Commit(n, r) \/ CommitTakingOver(n, r)
  <2>1. n \in Node /\ EntryFor(n, r) \in Entry
    BY <1>2, ReceiveTypes DEF Commit, CommitTakingOver, IInv
  <2>2. \E q, msgs : Admit(n, EntryFor(n, r), q, msgs)
    BY <1>2 DEF Commit, CommitTakingOver
  <2>. QED  BY <2>1, <2>2, AdmitKeepsWindow
<1>. QED  BY <1>1, <1>2 DEF Write

\* A broadcast for a slot that was open keeps the window: its status changes,
\* and it stays open.
LEMMA SameSlotKeepsWindow ==
  ASSUME IInv, WindowInv, NEW n \in Node, NEW s \in Active(proposers[n]),
         NEW p \in ProposerType, NEW q, NEW msgs,
         UNCHANGED <<tocommit, maxSlot>>,
         \/ \E last, id : /\ BroadcastAccept(n, s, p, proposers[n], q, last, id,
                                             msgs)
                          /\ p.status # "EMPTY"
         \/ BroadcastPrepare(n, s, p, proposers[n], q, msgs)
  PROVE  WindowInv'
<1>1. /\ TypeOK /\ s \in Slot /\ proposers[n] \in [Slot -> ProposerType]
  BY ActiveFinite DEF IInv, TypeOK
<1>2. /\ Active(proposers'[n]) = Active(proposers[n]) \cup {s}
      /\ \A k \in Node \ {n} : proposers'[k] = proposers[k]
  BY <1>1, BroadcastActive
<1>. QED  BY <1>2, SameWindows

\* The handler of PROMISE opens and closes no slot.
LEMMA PromiseKeepsWindow ==
  ASSUME IInv, WindowInv, NEW m \in net, HandlePromise(m)
  PROVE  WindowInv'
<1>. DEFINE n  == m.to
            s  == m.slot
            p2 == AddPromise(proposers[n][s], m.from, m.ack)
<1>1. /\ n \in Node /\ m.from \in Node /\ s \in Slot /\ m.ack \in Promise
      /\ proposers \in [Node -> [Slot -> ProposerType]]
  BY AnswerTypes DEF IInv, TypeOK, HandlePromise, Arrives
<1>2. s \in Active(proposers[n])
  BY <1>1 DEF Active, HandlePromise
<1>3. /\ proposers[n][s] \in ProposerType /\ p2 \in ProposerType
      /\ p2.init = proposers[n][s].init /\ p2.status # "EMPTY"
  BY <1>1, AddTypes
<1>4. proposers[n][s].init \in Value
  BY <1>1, <1>2 DEF IInv, ProposerInv, HasInit, Active
<1>5. /\ Adopt(p2) \in ProposerType /\ Adopt(p2).init \in Value
      /\ Continue(Adopt(p2)) \in ProposerType
      /\ Continue(Adopt(p2)).status # "EMPTY"
      /\ Restart(Adopt(p2), n) \in ProposerType
  <2>1. Adopt(p2) \in ProposerType /\ Adopt(p2).init \in Value
    BY <1>3, <1>4, AdoptType
  <2>. QED  BY <1>1, <2>1, ContinueType, RestartType
<1>6. UNCHANGED <<tocommit, maxSlot>>
  BY DEF HandlePromise, nodeVars
<1>. HIDE DEF p2
<1>7. CASE proposers' = [proposers EXCEPT ![n][s] = p2]
  <2>1. \A k \in Node : Active(proposers'[k]) = Active(proposers[k])
    BY <1>1, <1>2, <1>3, <1>7 DEF Active
  <2>. QED  BY <1>6, <2>1, SameWindows
<1>8. CASE BroadcastAccept(n, s, Continue(Adopt(p2)), proposers[n],
                           view[n].quorums, 0, 0, net \ {m})
  BY <1>1, <1>2, <1>5, <1>6, <1>8, SameSlotKeepsWindow
<1>9. CASE BroadcastPrepare(n, s, Restart(Adopt(p2), n), proposers[n],
                            view[n].quorums, net \ {m})
  BY <1>1, <1>2, <1>5, <1>6, <1>9, SameSlotKeepsWindow
<1>. QED  BY <1>7, <1>8, <1>9 DEF HandlePromise, p2

\* The handler of ACCEPTED closes a slot only to open one for the oldest write
\* that waits, or when none waits.
LEMMA AcceptedKeepsWindow ==
  ASSUME IInv, WindowInv, NEW m \in net, HandleAccepted(m)
  PROVE  WindowInv'
<1>. DEFINE n  == m.to
            s  == m.slot
            p  == AddAccepted(proposers[n][s], m.from, m.reply)
            ch == AddChosen(chosen[n], s, p.value)
            others == [proposers[n] EXCEPT ![s] = NoProposer]
            A == Active(proposers[n])
            q == view[n].quorums
<1>1. /\ n \in Node /\ m.from \in Node /\ s \in Slot /\ m.reply \in Answer
      /\ proposers \in [Node -> [Slot -> ProposerType]] /\ TypeOK
  BY AnswerTypes DEF IInv, TypeOK, HandleAccepted, Arrives, Answer
<1>2. /\ p \in ProposerType /\ p.status = proposers[n][s].status
      /\ p.init = proposers[n][s].init /\ p.status = "PHASEII"
  BY <1>1, AddTypes DEF HandleAccepted
<1>3. s \in A
  BY <1>1, <1>2 DEF Active
<1>4. p.init \in Value
  BY <1>1, <1>2, <1>3 DEF IInv, ProposerInv, HasInit, Active
<1>5. /\ others \in [Slot -> ProposerType]
      /\ Active(others) = A \ {s}
  <2>1. NoProposer \in ProposerType /\ NoProposer.status = "EMPTY"
    BY NoProposerType DEF NoProposer
  <2>2. proposers[n] \in [Slot -> ProposerType]
    BY <1>1
  <2>. HIDE DEF n, s
  <2>. QED  BY <1>1, <2>1, <2>2, ActiveChanges
<1>6. /\ IsFiniteSet(A) /\ Cardinality(A) \in Nat
      /\ Cardinality(A \ {s}) = Cardinality(A) - 1
  BY <1>3, ActiveFinite, FS_RemoveElement
<1>7. /\ WindowOK(n) /\ Window \in Nat
      /\ maxSlot[n] \in Nat /\ maxSlot \in [Node -> 0 .. MaxSlot]
      /\ \A t \in Active(others) : t <= maxSlot[n]
  <2>1. WindowOK(n) /\ Window \in Nat
    BY <1>1, CaptainAssumption DEF WindowInv
  <2>2. maxSlot[n] \in Nat /\ maxSlot \in [Node -> 0 .. MaxSlot]
    BY <1>1, MessageAssumption DEF TypeOK
  <2>3. \A t \in A : t <= maxSlot[n]
    BY <2>1 DEF WindowOK
  <2>. HIDE DEF A, others
  <2>. QED  BY <1>5, <2>1, <2>2, <2>3
<1>. HIDE DEF p
<1>8. CASE /\ proposers' = [proposers EXCEPT ![n][s] = p]
           /\ UNCHANGED <<maxSlot, tocommit>>
  <2>1. \A k \in Node : Active(proposers'[k]) = Active(proposers[k])
    BY <1>1, <1>2, <1>3, <1>8 DEF Active
  <2>. QED  BY <1>8, <2>1, SameWindows
<1>9. CASE /\ BroadcastPrepare(n, s, Restart(p, n), proposers[n], q, net \ {m})
           /\ UNCHANGED <<maxSlot, tocommit>>
  <2>1. Restart(p, n) \in ProposerType
    BY <1>1, <1>2, RestartType
  <2>. QED  BY <1>1, <1>3, <1>9, <2>1, SameSlotKeepsWindow DEF IInv
<1>. HIDE DEF others, A
<1>10. CASE /\ tocommit[n] = <<>>
            /\ proposers' = [proposers EXCEPT ![n] = others]
            /\ UNCHANGED <<maxSlot, tocommit>>
  <2>1. /\ proposers'[n] = others
        /\ \A k \in Node \ {n} : proposers'[k] = proposers[k]
    BY <1>1, <1>10
  <2>2. WindowOK(n)'
    <3>1. Cardinality(A) <= Window
      BY <1>7 DEF WindowOK, A
    <3>2. Cardinality(Active(proposers'[n])) <= Window
      <4>1. Cardinality(Active(proposers'[n])) = Cardinality(A) - 1
        BY <1>5, <1>6, <2>1
      <4>2. Window \in Nat /\ Cardinality(A) \in Nat
        BY <1>6, <1>7
      <4>. QED  BY <3>1, <4>1, <4>2
    <3>. QED  BY <1>7, <1>10, <2>1, <3>2 DEF WindowOK
  <2>. QED  BY <1>10, <2>1, <2>2, <1>1, OneWindow
<1>11. CASE /\ tocommit[n] # <<>>
            /\ tocommit' = [tocommit EXCEPT ![n] = Tail(@)]
            /\ OpenSlot(n, Head(tocommit[n]), ch, others, q, net \ {m})
  <2>1. tocommit[n] \in Seq(Entry) /\ Head(tocommit[n]) \in Entry
    BY <1>1, <1>11, HeadTailProperties DEF TypeOK
  <2>. HIDE DEF ch
  <2>2. /\ Cardinality(Active(proposers'[n])) =
             Cardinality(Active(others)) + 1
        /\ \A t \in Active(proposers'[n]) : t <= maxSlot'[n]
        /\ \A k \in Node \ {n} : /\ proposers'[k] = proposers[k]
                                 /\ maxSlot'[k] = maxSlot[k]
    BY <1>1, <1>5, <1>7, <1>11, <2>1, OpenSlotActive
  <2>3. \A k \in Node \ {n} : tocommit'[k] = tocommit[k]
    BY <1>1, <1>11 DEF TypeOK
  <2>4. Cardinality(Active(proposers'[n])) = Window
    BY <1>5, <1>6, <1>7, <1>11, <2>2 DEF WindowOK, A
  <2>5. WindowOK(n)'
    BY <1>7, <2>2, <2>4 DEF WindowOK
  <2>. QED  BY <1>1, <2>2, <2>3, <2>5, OneWindow
<1>12. CASE ChooseOther(m, p)
  <2>. DEFINE t  == maxSlot[n] + 1
              p0 == Restart(NewProposer(p.init, NoRequest), n)
  <2>1. /\ t \in Slot
        /\ maxSlot' = [maxSlot EXCEPT ![n] = t]
        /\ BroadcastPrepare(n, t, p0, others, q, net \ {m})
        /\ UNCHANGED tocommit
    BY <1>12 DEF ChooseOther, others
  <2>2. p0 \in ProposerType
    <3>1. NewProposer(p.init, NoRequest) \in ProposerType
      BY <1>4, NewProposerType
    <3>. QED  BY <1>1, <3>1, RestartType
  <2>. HIDE DEF p0
  <2>3. /\ Active(proposers'[n]) = Active(others) \cup {t}
        /\ \A k \in Node \ {n} : proposers'[k] = proposers[k]
    <3>. HIDE DEF t
    <3>. QED  BY <1>1, <1>5, <2>1, <2>2, BroadcastActive
  <2>4. /\ maxSlot'[n] = t
        /\ \A k \in Node \ {n} : maxSlot'[k] = maxSlot[k]
    BY <1>1, <1>7, <2>1
  <2>5. t \notin Active(others) /\ Active(others) \subseteq Slot
    BY <1>7, ActiveFinite DEF Slot
  <2>6. Cardinality(Active(proposers'[n])) = Cardinality(A)
    <3>1. Cardinality(Active(others) \cup {t}) = Cardinality(Active(others)) + 1
      BY <2>5, ActiveFinite, FS_AddElement
    <3>. QED  BY <1>5, <1>6, <2>3, <3>1
  <2>7. \A u \in Active(proposers'[n]) : u <= maxSlot'[n]
    BY <1>7, <2>3, <2>4, <2>5 DEF Slot
  <2>8. WindowOK(n)'
    BY <1>7, <2>1, <2>6, <2>7 DEF WindowOK, A
  <2>. QED  BY <1>1, <2>1, <2>3, <2>4, <2>8, OneWindow
<1>. QED  BY <1>8, <1>9, <1>10, <1>11, <1>12
          DEF HandleAccepted, ChooseOwn, p, others

\* A late promise changes the status of an open slot at most.
LEMMA IgnorePromiseKeepsWindow ==
  ASSUME IInv, WindowInv, NEW m \in net, IgnorePromise(m)
  PROVE  WindowInv'
<1>1. m.to \in Node /\ m.slot \in Slot
  BY AnswerTypes DEF IInv, TypeOK, IgnorePromise, Arrives
<1>. DEFINE p == proposers[m.to][m.slot]
            x == [p EXCEPT !.status = IF @ = "INIT" THEN "PHASEI" ELSE @]
<1>2. /\ p \in ProposerType
      /\ proposers' = [proposers EXCEPT ![m.to] = [@ EXCEPT ![m.slot] = x]]
  BY <1>1 DEF IInv, TypeOK, IgnorePromise
<1>3. x.status = "EMPTY" <=> p.status = "EMPTY"
  BY <1>2 DEF ProposerType
<1>. HIDE DEF x
<1>4. \A n \in Node : Active(proposers'[n]) = Active(proposers[n])
  BY <1>1, <1>2, <1>3 DEF IInv, TypeOK, Active
<1>. QED  BY <1>4, SameWindows DEF IgnorePromise, nodeVars

\* Every step keeps the window.
LEMMA NextWindow == IInv /\ WindowInv /\ [Next]_vars => WindowInv'
<1>. SUFFICES ASSUME IInv, WindowInv, [Next]_vars  PROVE WindowInv'
  OBVIOUS
<1>1. ASSUME NEW n \in WriteNode, NEW r \in Request, Write(n, r)
      PROVE  WindowInv'
  BY <1>1, WriteKeepsWindow
<1>2. ASSUME NEW m \in net, Deliver(m)
      PROVE  WindowInv'
  <2>1. CASE \/ HandlePrepare(m) \/ HandleAccept(m) \/ HandleCommand(m)
             \/ IgnoreAccepted(m)
    BY <2>1, SameWindows DEF HandlePrepare, HandleAccept, AcceptAtSlot,
                             HandleCommand, IgnoreAccepted, nodeVars, paxosVars
  <2>. QED  BY <1>2, <2>1, IgnorePromiseKeepsWindow, PromiseKeepsWindow,
               AcceptedKeepsWindow DEF Deliver, HandleMsg
<1>3. CASE \/ \E m \in net : Nack(m) \/ Lose(m)
           \/ \E n \in Mortal : Kill(n)
           \/ \E n \in Node : \E s \in logPending[n] :
                \/ \E q \in LogServer : OnDataLog(n, s, q)
                \/ OnTimeoutLog(n, s)
           \/ UNCHANGED vars
  BY <1>3, SameWindows DEF Nack, Lose, Kill, OnDataLog, OnTimeoutLog, vars,
                           captainVars, nodeVars, paxosVars
<1>. QED  BY <1>1, <1>2, <1>3 DEF Next

\* The window: in every reachable state of any configuration a captain has at
\* most window_size_ slots open, and writes wait only while it has as many.
THEOREM WindowIsRespected ==
  ASSUME OneDigitNames
  PROVE  Spec => []WindowRespected
<1>1. Init => WindowInv
  <2>1. \A n \in Node : Init => Active(proposers[n]) = {}
    BY DEF Init, CaptainInit, Active, NoProposer
  <2>2. Cardinality({}) = 0 /\ 0 <= Window
    BY FS_EmptySet, CaptainAssumption
  <2>3. Init => \A n \in Node : tocommit[n] = <<>>
    BY DEF Init, CaptainInit
  <2>. QED  BY <2>1, <2>2, <2>3 DEF WindowInv, WindowOK
<1>2. WindowInv => WindowRespected
  BY DEF WindowInv, WindowOK, WindowRespected
<1>. QED  BY <1>1, <1>2, NextWindow, SpecIInv, PTL DEF Spec
=============================================================================
