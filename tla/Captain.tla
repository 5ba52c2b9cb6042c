------------------------------- MODULE Captain -------------------------------
(***************************************************************************)
(* The captains of all nodes and the messages between them (captain.cpp).  *)
(* A node of two or more runs one thread, the NDN event loop, so a handler *)
(* is one step.  A message to oneself is handled inline, inside the        *)
(* broadcast that sends it.                                                *)
(*                                                                         *)
(* Left out, because no build reaches it: the handlers of DECIDE, LEARN,   *)
(* TEACH and COMMIT (never sent to a registered name), SET_MASTER values,  *)
(* and the return for proposers_.size() > window_size_.                    *)
(***************************************************************************)
EXTENDS Acceptor, Proposer, Sequences

CONSTANTS Writes,     \* bound: client writes each node may receive
          Recover,    \* MODE_TYPE == 1: a node takes the mastership over
          Window,     \* window_size_
          Length,     \* lease.length: slots whose acceptors exist at start
          MaxRound    \* bound: ballots per proposer

\* The nodes the network forwards client writes to
WriteNode == DOMAIN Writes

ASSUME CaptainAssumption ==
  /\ WriteNode \subseteq InitQuorum
  /\ Writes \in [WriteNode -> Nat]
  /\ Recover \in BOOLEAN
  /\ Recover => N >= 3     \* else begin() of an empty set is dereferenced
  /\ Window \in Nat \ {0}
  /\ Length \in Nat
  /\ MaxRound \in Nat \ {0}

VARIABLES
  view,       \* view_
  acceptors,  \* acceptors_
  proposers,  \* proposers_
  maxSlot,    \* max_slot_
  lastSlot,   \* last_slot_: last slot whose decision was piggybacked
  valueId,    \* value_id_
  tocommit,   \* tocommit_values_ and tocommit_clients_
  chosen,     \* chosen_values_
  loop,       \* what the event loop is doing
  net,        \* Interests and Data on their way
  unsent,     \* client writes not received by any node
  informed,   \* replies put for clients: the write's name, and a slot
  votes,      \* history: every acceptance by an acceptor
  proposals   \* history: every Phase II begun

nodeVars  == <<view, maxSlot, lastSlot, valueId, tocommit>>
paxosVars == <<acceptors, proposers, votes, proposals>>

Entry == [value : Value, client : Request]
Vote  == [node : Node, slot : Slot, ballot : Ballot, value : Value]
Proposal == [node : Node, slot : Slot, ballot : Ballot, value : Value,
             direct : BOOLEAN]

\* The lease: acceptors up to Length start as if the master of the config
\* file had prepared them.
LeaseBallot == Radix + LeaseMaster

CaptainInit ==
  /\ view = [n \in Node |-> InitView]
  /\ acceptors = [n \in Node |-> [s \in Slot |->
                    NewAcceptor(IF s <= Length THEN LeaseBallot ELSE 0)]]
  /\ proposers = [n \in Node |-> [s \in Slot |-> NoProposer]]
  /\ maxSlot = [n \in Node |-> 0]
  /\ lastSlot = [n \in Node |-> 0]
  /\ valueId = [n \in Node |-> n]
  /\ tocommit = [n \in Node |-> <<>>]
  /\ chosen = [n \in Node |-> [s \in Slot |-> NULL]]
  /\ loop = [n \in Node |-> "running"]
  /\ net = {}
  /\ unsent = Request
  /\ informed = {}
  /\ votes = {}
  /\ proposals = {}

Active(ps) == {s \in Slot : ps[s].status # "EMPTY"}

\* add_chosen_value: the first value learned for a slot stays
AddChosen(ch, s, v) == [ch EXCEPT ![s] = IF @ = NULL THEN v ELSE @]

\* The vote, if any, that an ACCEPT(b, v) for slot s draws from node n
VoteOf(n, s, b, v) ==
  {w \in {[node |-> n, slot |-> s, ballot |-> b, value |-> v]} :
     Accepts(acceptors[n][s], b)}

-----------------------------------------------------------------------------
(* Broadcasts to the quorum q.  others is proposers[n] as the caller leaves *)
(* it, msgs is net without the message being handled.  The sender is in q   *)
(* (property MasterInQuorum), so its own acceptor answers first, inline,    *)
(* and that answer alone never makes QSize of them.                         *)

\* p, in Phase II, opens or continues slot s; last is the piggybacked slot
BroadcastAccept(n, s, p, others, q, last, lastId, msgs) ==
  LET a == acceptors[n][s]
  IN  /\ acceptors' = [acceptors EXCEPT ![n][s] = OnAccept(a, p.ballot, p.value)]
      /\ proposers' = [proposers EXCEPT ![n] = [others EXCEPT ![s] =
                          AddAccepted(p, n, AcceptedOf(a, p.ballot))]]
      /\ votes' = votes \cup VoteOf(n, s, p.ballot, p.value)
      /\ proposals' = proposals \cup
           {[node |-> n, slot |-> s, ballot |-> p.ballot, value |-> p.value,
             direct |-> Promised(p) = {}]}
      /\ net' = msgs \cup {Accept(n, m, s, p.ballot, p.value, last, lastId) :
                             m \in q \ {n}}

\* p has just drawn its next ballot for slot s
BroadcastPrepare(n, s, p, others, q, msgs) ==
  LET a == acceptors[n][s]
  IN  /\ p.ballot <= MaxRound * Radix + n
      /\ acceptors' = [acceptors EXCEPT ![n][s] = OnPrepare(a, p.ballot)]
      /\ proposers' = [proposers EXCEPT ![n] = [others EXCEPT ![s] =
                          AddPromise(p, n, PromiseOf(a, p.ballot))]]
      /\ net' = msgs \cup {Prepare(n, m, s, p.ballot) : m \in q \ {n}}
      /\ UNCHANGED <<votes, proposals>>

\* Mutant: the id announced is that of the new value.
OpenSlot_WrongId(n, e, ch, others, q, msgs) ==
  LET s    == maxSlot[n] + 1
      next == lastSlot[n] + 1
      p    == Skip(NewProposer(e.value, e.client), n)
  IN  /\ s \in Slot
      /\ maxSlot' = [maxSlot EXCEPT ![n] = s]
      /\ IF next \in Slot /\ ch[next] # NULL
           THEN /\ lastSlot' = [lastSlot EXCEPT ![n] = next]
                /\ BroadcastAccept(n, s, p, others, q, next, e.value.id, msgs)
           ELSE /\ UNCHANGED lastSlot
                /\ BroadcastAccept(n, s, p, others, q, 0, 0, msgs)

\* Mutant: last_slot_ does not move, so that a decision is announced again.
OpenSlot_SameLast(n, e, ch, others, q, msgs) ==
  LET s    == maxSlot[n] + 1
      next == lastSlot[n] + 1
      p    == Skip(NewProposer(e.value, e.client), n)
  IN  /\ s \in Slot
      /\ maxSlot' = [maxSlot EXCEPT ![n] = s]
      /\ IF next \in Slot /\ ch[next] # NULL
           THEN BroadcastAccept(n, s, p, others, q, next, ch[next].id, msgs)
           ELSE BroadcastAccept(n, s, p, others, q, 0, 0, msgs)
      /\ UNCHANGED lastSlot

\* A new slot for entry e, Phase I skipped, with the decision of the next
\* slot in ch piggybacked (captain.cpp twice: commit and ACCEPTED)
OpenSlot(n, e, ch, others, q, msgs) ==
  LET s    == maxSlot[n] + 1
      next == lastSlot[n] + 1
      p    == Skip(NewProposer(e.value, e.client), n)
  IN  /\ s \in Slot
      /\ maxSlot' = [maxSlot EXCEPT ![n] = s]
      /\ IF next \in Slot /\ ch[next] # NULL
           THEN /\ lastSlot' = [lastSlot EXCEPT ![n] = next]
                /\ BroadcastAccept(n, s, p, others, q, next, ch[next].id, msgs)
           ELSE /\ UNCHANGED lastSlot
                /\ BroadcastAccept(n, s, p, others, q, 0, 0, msgs)

-----------------------------------------------------------------------------
(* commit *)

\* Mutant: one slot more than the window.
Admit_OffByOne(n, e, q, msgs) ==
  LET queue == Append(tocommit[n], e)
  IN  \/ /\ Cardinality(Active(proposers[n])) > Window
         /\ tocommit' = [tocommit EXCEPT ![n] = queue]
         /\ net' = msgs
         /\ UNCHANGED <<paxosVars, maxSlot, lastSlot>>
      \/ /\ Cardinality(Active(proposers[n])) <= Window
         /\ tocommit' = [tocommit EXCEPT ![n] = Tail(queue)]
         /\ OpenSlot(n, Head(queue), chosen[n], proposers[n], q, msgs)

\* commit(PropValue): the value waits, or it or the oldest waiting one is
\* proposed
Admit(n, e, q, msgs) ==
  LET queue == Append(tocommit[n], e)
  IN  \/ /\ Cardinality(Active(proposers[n])) = Window
         /\ tocommit' = [tocommit EXCEPT ![n] = queue]
         /\ net' = msgs
         /\ UNCHANGED <<paxosVars, maxSlot, lastSlot>>
      \/ /\ Cardinality(Active(proposers[n])) < Window
         /\ tocommit' = [tocommit EXCEPT ![n] = Tail(queue)]
         /\ OpenSlot(n, Head(queue), chosen[n], proposers[n], q, msgs)

\* commit(string): a client write reaches node n
Receive(n, r) ==
  /\ loop[n] = "running"
  /\ r \in unsent
  /\ valueId[n] < Writes[n] * Radix
  /\ unsent' = unsent \ {r}
  /\ valueId' = [valueId EXCEPT ![n] = @ + Radix]
  /\ UNCHANGED <<chosen, informed>>

EntryFor(n, r) == [value |-> [id |-> valueId[n] + Radix, data |-> r],
                   client |-> r]

Commit(n, r) ==
  /\ view[n].master = n
  /\ Receive(n, r)
  /\ Admit(n, EntryFor(n, r), view[n].quorums, net)
  /\ UNCHANGED <<view, loop>>

\* Not the master, MODE_TYPE 1: take over, tell the node that joins the
\* quorum, and commit at once.
CommitTakingOver(n, r) ==
  /\ Recover
  /\ view[n].master # n
  /\ Receive(n, r)
  /\ view' = [view EXCEPT ![n] = TakeOver(view[n], n)]
  /\ Admit(n, EntryFor(n, r), TakeOver(view[n], n).quorums,
           net \cup {SetQuorumTo(n, First(view[n].nquorums))})
  /\ UNCHANGED loop

\* Not the master, other builds: send COMMIT to the master's node name, which
\* the master does not register, and wait for the reply on the event loop.
CommitForwarding(n, r) ==
  /\ ~Recover
  /\ view[n].master # n
  /\ Receive(n, r)
  /\ loop' = [loop EXCEPT ![n] = "wait_commit"]
  /\ UNCHANGED <<view, maxSlot, lastSlot, tocommit, net, paxosVars>>

-----------------------------------------------------------------------------
(* handle_msg *)

Arrives(m, type) == /\ m \in net
                    /\ m.type = type
                    /\ loop[m.to] = "running"

HandlePrepare(m) ==
  LET n == m.to
      a == acceptors[n][m.slot]
  IN  /\ Arrives(m, "PREPARE")
      /\ acceptors' = [acceptors EXCEPT ![n][m.slot] = OnPrepare(a, m.ballot)]
      /\ net' = (net \ {m}) \cup {PromiseTo(m, PromiseOf(a, m.ballot))}
      /\ UNCHANGED <<nodeVars, proposers, votes, proposals, chosen, loop,
                     unsent, informed>>

\* The acceptor's half of ACCEPT, whatever is replied
AcceptAtSlot(m) ==
  LET n == m.to
      a == acceptors[n][m.slot]
  IN  /\ Arrives(m, "ACCEPT")
      /\ acceptors' = [acceptors EXCEPT ![n][m.slot] =
                         OnAccept(a, m.ballot, m.value)]
      /\ votes' = votes \cup VoteOf(n, m.slot, m.ballot, m.value)
      /\ UNCHANGED <<nodeVars, proposers, proposals, loop, unsent, informed>>

ReplyAccepted(m) ==
  net' = (net \ {m}) \cup
         {AcceptedTo(m, AcceptedOf(acceptors[m.to][m.slot], m.ballot))}

KnowsLast(m) == m.lastSlot # 0 /\ chosen[m.to][m.lastSlot] # NULL

\* Mutant: any accepted value counts as the one announced.
HoldsLast_AnyValue(m) ==
  /\ m.lastSlot # 0
  /\ acceptors'[m.to][m.lastSlot].maxValue # NULL

\* Does the acceptor hold the value the piggyback announces?
HoldsLast(m) ==
  /\ m.lastSlot # 0
  /\ acceptors'[m.to][m.lastSlot].maxValue # NULL
  /\ acceptors'[m.to][m.lastSlot].maxValue.id = m.lastValue

HandleAccept(m) ==
  /\ AcceptAtSlot(m)
  /\ \/ \* the decision is known already: return, without the reply
        /\ KnowsLast(m)
        /\ net' = net \ {m}
        /\ UNCHANGED chosen
     \/ \* learn the decision
        /\ ~KnowsLast(m) /\ HoldsLast(m)
        /\ chosen' = [chosen EXCEPT ![m.to] = AddChosen(@, m.lastSlot,
                        acceptors'[m.to][m.lastSlot].maxValue)]
        /\ ReplyAccepted(m)
     \/ /\ ~KnowsLast(m) /\ ~HoldsLast(m)
        /\ ReplyAccepted(m)
        /\ UNCHANGED chosen

\* A promise changes nothing but, perhaps, the status: no proposer, one in
\* Phase II, or an old ballot.
IgnorePromise(m) ==
  LET p == proposers[m.to][m.slot]
  IN  /\ Arrives(m, "PROMISE")
      /\ \/ p.status \notin {"INIT", "PHASEI"}
         \/ m.ballot < p.ballot
      /\ proposers' = [proposers EXCEPT ![m.to][m.slot].status =
                         IF @ = "INIT" THEN "PHASEI" ELSE @]
      /\ net' = net \ {m}
      /\ UNCHANGED <<nodeVars, acceptors, votes, proposals, chosen, loop,
                     unsent, informed>>

HandlePromise(m) ==
  LET n  == m.to
      s  == m.slot
      p  == proposers[n][s]
      p2 == AddPromise(p, m.from, m.ack)
  IN  /\ Arrives(m, "PROMISE")
      /\ p.status \in {"INIT", "PHASEI"}
      /\ m.ballot >= p.ballot
      /\ \/ /\ PromiseVerdict(p2) = "NOT_ENOUGH"
            /\ proposers' = [proposers EXCEPT ![n][s] = p2]
            /\ net' = net \ {m}
            /\ UNCHANGED <<acceptors, votes, proposals>>
         \/ /\ PromiseVerdict(p2) = "CONTINUE"
            /\ BroadcastAccept(n, s, Continue(Adopt(p2)), proposers[n],
                               view[n].quorums, 0, 0, net \ {m})
         \/ /\ PromiseVerdict(p2) = "RESTART"
            /\ BroadcastPrepare(n, s, Restart(Adopt(p2), n), proposers[n],
                                view[n].quorums, net \ {m})
      /\ UNCHANGED <<nodeVars, chosen, loop, unsent, informed>>

IgnoreAccepted(m) ==
  LET p == proposers[m.to][m.slot]
  IN  /\ Arrives(m, "ACCEPTED")
      /\ p.status # "PHASEII" \/ m.ballot < p.ballot
      /\ net' = net \ {m}
      /\ UNCHANGED <<nodeVars, paxosVars, chosen, loop, unsent, informed>>

\* Mutant: the queue is not looked at.
ChooseOwn_NoRefill(m, p) ==
  /\ p.value.id = p.init.id
  /\ informed' = informed \cup {[client |-> p.client, slot |-> m.slot]}
  /\ chosen' = [chosen EXCEPT ![m.to] = AddChosen(@, m.slot, p.value)]
  /\ proposers' = [proposers EXCEPT ![m.to][m.slot] = NoProposer]
  /\ net' = net \ {m}
  /\ UNCHANGED <<acceptors, votes, proposals, maxSlot, lastSlot, tocommit>>

\* Mutant: the reply names the newest slot.
ChooseOwn_WrongSlot(m, p) ==
  LET n == m.to
      s == m.slot
      ch == AddChosen(chosen[n], s, p.value)
      others == [proposers[n] EXCEPT ![s] = NoProposer]
  IN  /\ p.value.id = p.init.id
      /\ informed' = informed \cup {[client |-> p.client, slot |-> maxSlot[n]]}
      /\ chosen' = [chosen EXCEPT ![n] = ch]
      /\ \/ /\ tocommit[n] = <<>>
            /\ proposers' = [proposers EXCEPT ![n] = others]
            /\ net' = net \ {m}
            /\ UNCHANGED <<acceptors, votes, proposals, maxSlot, lastSlot,
                           tocommit>>
         \/ /\ tocommit[n] # <<>>
            /\ tocommit' = [tocommit EXCEPT ![n] = Tail(@)]
            /\ OpenSlot(n, Head(tocommit[n]), ch, others, view[n].quorums,
                        net \ {m})

\* Mutant: the finished proposer stays in the map.
ChooseOwn_NotErased(m, p) ==
  LET n == m.to
      s == m.slot
      ch == AddChosen(chosen[n], s, p.value)
  IN  /\ p.value.id = p.init.id
      /\ informed' = informed \cup {[client |-> p.client, slot |-> s]}
      /\ chosen' = [chosen EXCEPT ![n] = ch]
      /\ \/ /\ tocommit[n] = <<>>
            /\ net' = net \ {m}
            /\ UNCHANGED <<paxosVars, maxSlot, lastSlot, tocommit>>
         \/ /\ tocommit[n] # <<>>
            /\ tocommit' = [tocommit EXCEPT ![n] = Tail(@)]
            /\ OpenSlot(n, Head(tocommit[n]), ch, proposers[n],
                        view[n].quorums, net \ {m})

\* CHOOSE for one's own value: tell the client, then fill the window from
\* the queue.
ChooseOwn(m, p) ==
  LET n == m.to
      s == m.slot
      ch == AddChosen(chosen[n], s, p.value)
      others == [proposers[n] EXCEPT ![s] = NoProposer]
  IN  /\ p.value.id = p.init.id
      /\ informed' = informed \cup {[client |-> p.client, slot |-> s]}
      /\ chosen' = [chosen EXCEPT ![n] = ch]
      /\ \/ /\ tocommit[n] = <<>>
            /\ proposers' = [proposers EXCEPT ![n] = others]
            /\ net' = net \ {m}
            /\ UNCHANGED <<acceptors, votes, proposals, maxSlot, lastSlot,
                           tocommit>>
         \/ /\ tocommit[n] # <<>>
            /\ tocommit' = [tocommit EXCEPT ![n] = Tail(@)]
            /\ OpenSlot(n, Head(tocommit[n]), ch, others, view[n].quorums,
                        net \ {m})

\* Mutant: the ids are not compared.
ChooseOther_Always(m, p) ==
  LET n == m.to
      t == maxSlot[n] + 1
      others == [proposers[n] EXCEPT ![m.slot] = NoProposer]
  IN  /\ t \in Slot
      /\ chosen' = [chosen EXCEPT ![n] = AddChosen(@, m.slot, p.value)]
      /\ maxSlot' = [maxSlot EXCEPT ![n] = t]
      /\ BroadcastPrepare(n, t, Restart(NewProposer(p.init, NoRequest), n),
                          others, view[n].quorums, net \ {m})
      /\ UNCHANGED <<informed, lastSlot, tocommit>>

\* CHOOSE for a value adopted in Phase I: propose the own value again, in a
\* new slot, from Phase I.  The client's name is lost: dataName is here the
\* name of the acknowledgement.
ChooseOther(m, p) ==
  LET n == m.to
      s == m.slot
      t == maxSlot[n] + 1
      others == [proposers[n] EXCEPT ![s] = NoProposer]
  IN  /\ p.value.id # p.init.id
      /\ t \in Slot
      /\ chosen' = [chosen EXCEPT ![n] = AddChosen(@, s, p.value)]
      /\ maxSlot' = [maxSlot EXCEPT ![n] = t]
      /\ BroadcastPrepare(n, t, Restart(NewProposer(p.init, NoRequest), n),
                          others, view[n].quorums, net \ {m})
      /\ UNCHANGED <<informed, lastSlot, tocommit>>

HandleAccepted(m) ==
  LET n == m.to
      s == m.slot
      p == AddAccepted(proposers[n][s], m.from, m.reply)
  IN  /\ Arrives(m, "ACCEPTED")
      /\ p.status = "PHASEII"
      /\ m.ballot >= p.ballot
      /\ \/ /\ AcceptedVerdict(p) = "NOT_ENOUGH"
            /\ proposers' = [proposers EXCEPT ![n][s] = p]
            /\ net' = net \ {m}
            /\ UNCHANGED <<acceptors, votes, proposals, chosen, informed,
                           maxSlot, lastSlot, tocommit>>
         \/ /\ AcceptedVerdict(p) = "CHOOSE"
            /\ ChooseOwn(m, p) \/ ChooseOther(m, p)
         \/ /\ AcceptedVerdict(p) = "RESTART"
            /\ BroadcastPrepare(n, s, Restart(p, n), proposers[n],
                                view[n].quorums, net \ {m})
            /\ UNCHANGED <<chosen, informed, maxSlot, lastSlot, tocommit>>
      /\ UNCHANGED <<view, valueId, loop, unsent>>

HandleCommand(m) ==
  /\ Arrives(m, "COMMAND")
  /\ view' = [view EXCEPT ![m.to] = JoinQuorum(@, m.to)]
  /\ net' = net \ {m}
  /\ UNCHANGED <<paxosVars, maxSlot, lastSlot, valueId, tocommit, chosen,
                 loop, unsent, informed>>

HandleMsg(m) ==
  \/ HandlePrepare(m)  \/ HandleAccept(m)   \/ HandleCommand(m)
  \/ IgnorePromise(m)  \/ HandlePromise(m)
  \/ IgnoreAccepted(m) \/ HandleAccepted(m)
=============================================================================
