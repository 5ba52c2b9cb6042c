------------------------------- MODULE OneNode -------------------------------
(***************************************************************************)
(* A daemon of one node.  Its Captain is used by two threads: the one that *)
(* commits (main() of 1_node_1_win.cpp; the event loop, if the daemon      *)
(* serves clients), and the thread of the pool of one on which             *)
(* broadcast_msg has the node's own messages handled.  A step is one       *)
(* locked region with what the thread does alone before the next one.      *)
(*                                                                         *)
(* With one node every ballot is the first one, an acceptor accepts it     *)
(* whether the lease covers the slot or not, and one answer is a majority. *)
(* So ballots and acceptors are left out, and an ACCEPTED always chooses   *)
(* the proposer's own value.                                               *)
(***************************************************************************)
EXTENDS Integers, Sequences, FiniteSets

CONSTANTS Window,  \* window_size_
          Total    \* bound: total_, the values committed

ASSUME OneNodeAssumption ==
  /\ Window \in Nat \ {0}
  /\ Total \in Nat

Write == 1 .. Total
Slot  == 1 .. Total
None  == 0

VARIABLES
  proposers,    \* proposers_: status and value of each slot
  tocommit,     \* tocommit_values_
  maxSlot,      \* max_slot_
  lastSlot,     \* last_slot_
  chosen,       \* chosen_values_
  maxChosen,    \* max_chosen_
  withoutHole,  \* max_chosen_without_hole_
  app,          \* the committing thread: where it is, its value, its ACCEPT
  drawn,        \* commit_counter_, and value_id_ without the node id
  handler,      \* the pool thread: where it is, and its ACCEPT
  pending, running, past,  \* the pool's tasks, see Executor
  reported,     \* calls of callback_latency_
  applied,      \* calls of callback_
  dropped       \* values given up because of the size of proposers_

captainVars == <<proposers, tocommit, maxSlot>>
decideVars  == <<chosen, maxChosen, withoutHole, reported, applied>>
execVars    == <<pending, running, past>>
oneVars     == <<captainVars, lastSlot, decideVars, app, drawn, handler,
                 execVars, dropped>>

\* An ACCEPT; last = 0 if it carries no decision
Accept == [slot : Slot, last : 0 .. Total]
Pool   == INSTANCE Executor WITH Task <- Accept, Threads <- 1

Empty == [status |-> "EMPTY", value |-> None]
Open  == {s \in Slot : proposers[s].status # "EMPTY"}

NoAccept == [slot |-> 0, last |-> 0]

OneInit ==
  /\ proposers = [s \in Slot |-> Empty]
  /\ tocommit = <<>>
  /\ maxSlot = 0 /\ lastSlot = 0
  /\ chosen = [s \in Slot |-> None]
  /\ maxChosen = 0 /\ withoutHole = 0
  /\ app = [at |-> "out", value |-> None, msg |-> NoAccept]
  /\ drawn = 0
  /\ handler = [at |-> "free", msg |-> NoAccept]
  /\ Pool!ExecInit
  /\ reported = {} /\ applied = <<>>
  /\ dropped = {}

\* Open the next slot for v; others is what proposers_ holds besides
OpenSlot(v, others) ==
  /\ maxSlot' = maxSlot + 1
  /\ proposers' = [others EXCEPT ![maxSlot + 1] =
                     [status |-> "PHASEII", value |-> v]]

\* Under max_chosen_mutex_: the decision to send along, if the next is known
NextDecision ==
  IF maxChosen > lastSlot /\ chosen[lastSlot + 1] # None
    THEN lastSlot + 1 ELSE 0

Announce(next) == lastSlot' = IF next = 0 THEN lastSlot ELSE next

-----------------------------------------------------------------------------
(* The committing thread *)

\* commit(string): draw the value's id
Draw ==
  /\ app.at = "out"
  /\ drawn < Total
  /\ drawn' = drawn + 1
  /\ app' = [app EXCEPT !.at = "check", !.value = drawn + 1]
  /\ UNCHANGED <<captainVars, lastSlot, decideVars, handler, execVars, dropped>>

\* commit(PropValue): the size is read before proposers_mutex_ is taken
CheckSize ==
  /\ app.at = "check"
  /\ app' = [app EXCEPT !.at = IF Cardinality(Open) > Window THEN "out"
                                                            ELSE "admit"]
  /\ dropped' = dropped \cup IF Cardinality(Open) > Window THEN {app.value}
                                                          ELSE {}
  /\ UNCHANGED <<captainVars, lastSlot, decideVars, drawn, handler, execVars>>

\* Mutant: one slot more than the window.
Admit_OffByOne ==
  /\ app.at = "admit"
  /\ \/ /\ Cardinality(Open) > Window
        /\ tocommit' = Append(tocommit, app.value)
        /\ app' = [app EXCEPT !.at = "out"]
        /\ UNCHANGED <<proposers, maxSlot>>
     \/ /\ Cardinality(Open) <= Window
        /\ OpenSlot(Head(Append(tocommit, app.value)), proposers)
        /\ tocommit' = Tail(Append(tocommit, app.value))
        /\ app' = [app EXCEPT !.at = "announce", !.msg.slot = maxSlot + 1]
  /\ UNCHANGED <<lastSlot, decideVars, drawn, handler, execVars, dropped>>

\* The region of proposers_mutex_
Admit ==
  /\ app.at = "admit"
  /\ \/ /\ Cardinality(Open) = Window
        /\ tocommit' = Append(tocommit, app.value)
        /\ app' = [app EXCEPT !.at = "out"]
        /\ UNCHANGED <<proposers, maxSlot>>
     \/ /\ Cardinality(Open) # Window
        /\ OpenSlot(Head(Append(tocommit, app.value)), proposers)
        /\ tocommit' = Tail(Append(tocommit, app.value))
        /\ app' = [app EXCEPT !.at = "announce", !.msg.slot = maxSlot + 1]
  /\ UNCHANGED <<lastSlot, decideVars, drawn, handler, execVars, dropped>>

\* The region of max_chosen_mutex_
AppAnnounce ==
  /\ app.at = "announce"
  /\ Announce(NextDecision)
  /\ app' = [app EXCEPT !.at = "send", !.msg.last = NextDecision]
  /\ UNCHANGED <<captainVars, decideVars, drawn, handler, execVars, dropped>>

\* broadcast_msg: schedule handle_myself
AppSend ==
  /\ app.at = "send"
  /\ Pool!Submit(app.msg)
  /\ app' = [app EXCEPT !.at = "out"]
  /\ UNCHANGED <<captainVars, lastSlot, decideVars, drawn, handler, dropped>>

-----------------------------------------------------------------------------
(* The pool thread: handle_myself *)

FetchTask ==
  /\ handler.at = "free"
  /\ Pool!Begin
  /\ handler' = [at |-> "accepted", msg |-> Head(pending)]
  /\ UNCHANGED <<captainVars, lastSlot, decideVars, app, drawn, dropped>>

\* ACCEPT, which only this thread's acceptors see, and ACCEPTED up to CHOOSE;
\* without a proposer in Phase II it returns.
Choose ==
  LET s    == handler.msg.slot
      open == proposers[s].status = "PHASEII"
  IN  /\ handler.at = "accepted"
      /\ proposers' = [proposers EXCEPT ![s].status = IF open THEN "CHOSEN" ELSE @]
      /\ handler' = [handler EXCEPT !.at = IF open THEN "learn" ELSE "end"]
      /\ UNCHANGED <<tocommit, maxSlot, lastSlot, decideVars, app, drawn,
                     execVars, dropped>>

\* add_callback: the longest prefix of ch without a hole is applied
Prefix(ch) ==
  CHOOSE k \in 0 .. Total : /\ \A s \in 1 .. k : ch[s] # None
                            /\ k = Total \/ ch[k + 1] = None

\* callback_latency_, then add_chosen_value under max_chosen_mutex_
Learn ==
  LET s  == handler.msg.slot
      v  == proposers[s].value
      ch == IF chosen[s] = None THEN [chosen EXCEPT ![s] = v] ELSE chosen
  IN  /\ handler.at = "learn"
      /\ reported' = reported \cup {[client |-> v, slot |-> s]}
      /\ chosen' = ch
      /\ maxChosen' = IF s > maxChosen THEN s ELSE maxChosen
      /\ withoutHole' = Prefix(ch)
      /\ applied' = applied \o
           [i \in 1 .. Prefix(ch) - withoutHole |->
              [slot |-> withoutHole + i, value |-> ch[withoutHole + i]]]
      /\ handler' = [handler EXCEPT !.at = "refill"]
      /\ UNCHANGED <<captainVars, lastSlot, app, drawn, execVars, dropped>>

\* Mutant: the queue is not looked at.
Refill_NoQueue ==
  /\ handler.at = "refill"
  /\ proposers' = [proposers EXCEPT ![handler.msg.slot] = Empty]
  /\ handler' = [handler EXCEPT !.at = "end"]
  /\ UNCHANGED <<tocommit, maxSlot, lastSlot, decideVars, app, drawn, execVars,
                 dropped>>

\* Mutant: the value taken from the queue stays in it.
Refill_NotPopped ==
  LET others == [proposers EXCEPT ![handler.msg.slot] = Empty]
  IN  /\ handler.at = "refill"
      /\ \/ /\ tocommit = <<>>
            /\ proposers' = others
            /\ handler' = [handler EXCEPT !.at = "end"]
            /\ UNCHANGED maxSlot
         \/ /\ tocommit # <<>>
            /\ maxSlot < Total
            /\ OpenSlot(Head(tocommit), others)
            /\ handler' = [handler EXCEPT !.at = "announce",
                                          !.msg.slot = maxSlot + 1]
      /\ UNCHANGED <<tocommit, lastSlot, decideVars, app, drawn, execVars,
                     dropped>>

\* Mutant: the lock is released between closing the slot and the queue.
Refill_Unlocked ==
  /\ \/ /\ handler.at = "refill"
        /\ proposers' = [proposers EXCEPT ![handler.msg.slot] = Empty]
        /\ handler' = [handler EXCEPT !.at = "take"]
        /\ UNCHANGED <<tocommit, maxSlot>>
     \/ /\ handler.at = "take" /\ tocommit = <<>>
        /\ handler' = [handler EXCEPT !.at = "end"]
        /\ UNCHANGED <<proposers, tocommit, maxSlot>>
     \/ /\ handler.at = "take" /\ tocommit # <<>>
        /\ OpenSlot(Head(tocommit), proposers)
        /\ tocommit' = Tail(tocommit)
        /\ handler' = [handler EXCEPT !.at = "announce",
                                      !.msg.slot = maxSlot + 1]
  /\ UNCHANGED <<lastSlot, decideVars, app, drawn, execVars, dropped>>

\* Under proposers_mutex_: close the slot, fill the window from the queue
Refill ==
  LET others == [proposers EXCEPT ![handler.msg.slot] = Empty]
  IN  /\ handler.at = "refill"
      /\ \/ /\ tocommit = <<>>
            /\ proposers' = others
            /\ handler' = [handler EXCEPT !.at = "end"]
            /\ UNCHANGED <<tocommit, maxSlot>>
         \/ /\ tocommit # <<>>
            /\ OpenSlot(Head(tocommit), others)
            /\ tocommit' = Tail(tocommit)
            /\ handler' = [handler EXCEPT !.at = "announce",
                                          !.msg.slot = maxSlot + 1]
      /\ UNCHANGED <<lastSlot, decideVars, app, drawn, execVars, dropped>>

HandlerAnnounce ==
  /\ handler.at = "announce"
  /\ Announce(NextDecision)
  /\ handler' = [handler EXCEPT !.at = "send", !.msg.last = NextDecision]
  /\ UNCHANGED <<captainVars, decideVars, app, drawn, execVars, dropped>>

HandlerSend ==
  /\ handler.at = "send"
  /\ Pool!Submit(handler.msg)
  /\ handler' = [handler EXCEPT !.at = "end"]
  /\ UNCHANGED <<captainVars, lastSlot, decideVars, app, drawn, dropped>>

FinishTask ==
  /\ handler.at = "end"
  /\ \E m \in running : Pool!End(m)
  /\ handler' = [handler EXCEPT !.at = "free"]
  /\ UNCHANGED <<captainVars, lastSlot, decideVars, app, drawn, dropped>>

-----------------------------------------------------------------------------
AppStep == Draw \/ CheckSize \/ Admit \/ AppAnnounce \/ AppSend
HandlerStep ==
  \/ FetchTask \/ Choose \/ Learn \/ Refill
  \/ HandlerAnnounce \/ HandlerSend \/ FinishTask

OneNext == AppStep \/ HandlerStep

OneSpec == OneInit /\ [][OneNext]_oneVars

\* Both threads run; main() goes on until it has committed total_ values.
OneFairSpec == OneSpec /\ WF_oneVars(AppStep) /\ WF_oneVars(HandlerStep)

-----------------------------------------------------------------------------
(* Properties *)

\* Although the window is first looked at without the lock and both threads
\* open slots, no write is given up, the window is never exceeded, and writes
\* wait only behind a full window (captain.cpp:167, 177, 187, 466-470).
NothingStranded ==
  /\ dropped = {}
  /\ Cardinality(Open) <= Window
  /\ tocommit # <<>> => Cardinality(Open) = Window

\* Both threads open slots, and send the ACCEPTs some steps later.  Still slots
\* are decided in their order, without a hole that a decision to announce could
\* fall into, and callback_ is called for one after the other, each once, and
\* only for values whose client was told (captain.cpp:187-231, 466-503, 843-886).
DecidedInOrder ==
  /\ \A s \in Slot : chosen[s] # None => \A t \in 1 .. s : chosen[t] # None
  /\ lastSlot <= withoutHole
  /\ \A i \in DOMAIN applied :
       /\ applied[i].slot = i
       /\ [client |-> applied[i].value, slot |-> i] \in reported

\* The log of one node is the log the captains of many implement: one decision
\* per slot, no write in two slots, and a client told only what was decided
\* (captain.cpp:425-470).
DecidedIn(s) ==
  IF chosen[s] # None THEN [data |-> chosen[s]]
  ELSE IF proposers[s].status = "CHOSEN" THEN [data |-> proposers[s].value]
  ELSE [data |-> None]

Log == INSTANCE DecisionLog WITH
         Node <- {0}, Value <- [data : Write], None <- [data |-> None],
         decided <- [s \in Slot |-> DecidedIn(s)],
         copy <- [n \in {0} |-> [s \in Slot |-> [data |-> chosen[s]]]],
         replied <- reported

ImplementsLog == Log!LogSpec

\* Every value is chosen in the end, and its client told: no ACCEPT waits for
\* a step of the other thread (1_node_1_win.cpp:69-82, commo.cpp:123).
EveryWriteChosen == \A v \in Write : <>(\E s \in Slot :
  [client |-> v, slot |-> s] \in reported)
=============================================================================
