---------------------------- MODULE OneNodeProofs ----------------------------
(***************************************************************************)
(* For any window and any number of writes: the two threads of a one-node  *)
(* daemon strand no write, decide the slots in their order, and implement  *)
(* the log.                                                                *)
(***************************************************************************)
EXTENDS OneNode, FiniteSetTheorems, TLAPS

Message == [slot : 0 .. Total, last : 0 .. Total]

OneTypeOK ==
  /\ app \in [at : {"out", "check", "admit", "announce", "send"},
              value : 0 .. Total, msg : Message]
  /\ handler \in [at : {"free", "accepted", "learn", "refill", "announce",
                        "send", "end"},
                  msg : Message]
  /\ pending \in Seq(Accept)
  /\ tocommit \in Seq(Write)
  /\ drawn \in 0 .. Total /\ maxSlot \in 0 .. Total
  /\ lastSlot \in 0 .. Total /\ withoutHole \in 0 .. Total

\* How many: the pool thread decides a slot; a thread opened a slot and has
\* not sent its ACCEPT; a value is drawn and not admitted.
Deciding == IF handler.at \in {"accepted", "learn"} THEN 1 ELSE 0
Unsent   == (IF app.at \in {"announce", "send"} THEN 1 ELSE 0)
            + IF handler.at \in {"announce", "send"} THEN 1 ELSE 0
Entering == IF app.at \in {"check", "admit"} THEN 1 ELSE 0

\* The open slots are those from here to maxSlot.
FirstOpen == IF handler.at = "refill" THEN withoutHole ELSE withoutHole + 1
OpenCount == maxSlot + 1 - FirstOpen

\* Writes get the slots in the order they were drawn: write s is for slot s.
StateOf(s) ==
  IF s < FirstOpen \/ s > maxSlot THEN Empty
  ELSE [status |-> IF s = FirstOpen /\ handler.at \in {"learn", "refill"}
                     THEN "CHOSEN" ELSE "PHASEII",
        value  |-> s]

QueueInv ==
  /\ dropped = {}
  /\ \A i \in DOMAIN tocommit : tocommit[i] = maxSlot + i
  /\ drawn = maxSlot + Len(tocommit) + Entering
  /\ Entering = 1 => app.value = drawn
  /\ OpenCount <= Window
  /\ tocommit # <<>> => OpenCount = Window

SlotInv ==
  /\ proposers = [s \in Slot |-> StateOf(s)]
  /\ chosen = [s \in Slot |-> IF s <= withoutHole THEN s ELSE None]
  /\ maxChosen = withoutHole
  /\ lastSlot <= withoutHole
  /\ reported = {[client |-> s, slot |-> s] : s \in 1 .. withoutHole}
  /\ applied = [i \in 1 .. withoutHole |-> [slot |-> i, value |-> i]]

\* ACCEPTs are sent and handled in the order of their slots, since only one
\* thread at a time has a slot open whose ACCEPT it did not send.
SendInv ==
  /\ Unsent <= 1
  /\ withoutHole + Deciding + Len(pending) + Unsent = maxSlot
  /\ \A i \in DOMAIN pending : pending[i].slot = withoutHole + Deciding + i
  /\ Deciding = 1 => handler.msg.slot = withoutHole + 1
  /\ handler.at = "refill" => handler.msg.slot = withoutHole
                              /\ withoutHole > 0
  /\ handler.at \in {"announce", "send"} => /\ handler.msg.slot = maxSlot
                                            /\ OpenCount = Window
  /\ app.at \in {"announce", "send"} => /\ app.msg.slot = maxSlot
                                        /\ tocommit = <<>>

OneInv == OneTypeOK /\ QueueInv /\ SlotInv /\ SendInv

-----------------------------------------------------------------------------
(* The open slots *)

\* The window never has holes, so its size is a difference.
LEMMA OpenSlots ==
  ASSUME OneInv
  PROVE  /\ Open = FirstOpen .. maxSlot
         /\ Cardinality(Open) = OpenCount
         /\ FirstOpen \in Nat /\ FirstOpen > 0 /\ FirstOpen <= maxSlot + 1
         /\ withoutHole <= maxSlot
<1>1. /\ withoutHole \in Nat /\ maxSlot \in 0 .. Total
      /\ withoutHole <= maxSlot
      /\ handler.at = "refill" => withoutHole > 0
  <2>1. Len(pending) \in Nat /\ Deciding \in {0, 1} /\ Unsent \in 0 .. 2
    BY DEF OneInv, OneTypeOK, Deciding, Unsent
  <2>2. withoutHole \in 0 .. Total /\ maxSlot \in 0 .. Total
    BY DEF OneInv, OneTypeOK
  <2>3. /\ withoutHole + Deciding + Len(pending) + Unsent = maxSlot
        /\ handler.at = "refill" => withoutHole > 0
    BY DEF OneInv, SendInv
  <2>. QED  BY <2>1, <2>2, <2>3, OneNodeAssumption
<1>2. FirstOpen \in Nat /\ FirstOpen > 0 /\ FirstOpen <= maxSlot + 1
  BY <1>1, OneNodeAssumption DEF FirstOpen
<1>3. \A s \in Slot : proposers[s].status # "EMPTY"
                      <=> FirstOpen <= s /\ s <= maxSlot
  <2>1. \A s \in Slot : proposers[s] = StateOf(s)
    BY DEF OneInv, SlotInv
  <2>. TAKE s \in Slot
  <2>2. s \in Nat /\ proposers[s] = StateOf(s)
    BY <2>1, OneNodeAssumption DEF Slot
  <2>3. CASE s < FirstOpen \/ s > maxSlot
    <3>1. proposers[s].status = "EMPTY"
      BY <2>2, <2>3 DEF StateOf, Empty
    <3>. QED  BY <3>1, <2>2, <2>3, <1>1, <1>2
  <2>4. CASE ~(s < FirstOpen \/ s > maxSlot)
    <3>1. proposers[s].status \in {"CHOSEN", "PHASEII"}
      BY <2>2, <2>4 DEF StateOf
    <3>. QED  BY <3>1, <2>2, <2>4, <1>1, <1>2, OneNodeAssumption
  <2>. QED  BY <2>3, <2>4
<1>4. Open = FirstOpen .. maxSlot
  BY <1>1, <1>2, <1>3, OneNodeAssumption DEF Open, Slot
<1>5. Cardinality(FirstOpen .. maxSlot) = OpenCount
  <2>1. FirstOpen \in Int /\ maxSlot \in Int
    BY <1>1, <1>2, OneNodeAssumption
  <2>2. Cardinality(FirstOpen .. maxSlot) =
          IF FirstOpen > maxSlot THEN 0 ELSE maxSlot - FirstOpen + 1
    BY <2>1, FS_Interval
  <2>. QED  BY <2>1, <2>2, <1>2 DEF OpenCount
<1>. QED  BY <1>1, <1>2, <1>4, <1>5

-----------------------------------------------------------------------------
(* Every action keeps the invariant. *)

\* The value drawn is the next write.
LEMMA DrawKeeps == OneInv /\ Draw => OneInv'
<1>. SUFFICES ASSUME OneInv, Draw PROVE OneInv'
  OBVIOUS
<1>. USE OneNodeAssumption DEF OneInv, Draw, captainVars, decideVars, execVars
<1>1. OneTypeOK'
  <2>1. app' = [at |-> "check", value |-> drawn + 1, msg |-> app.msg]
    BY DEF OneTypeOK
  <2>2. app.msg \in Message /\ drawn + 1 \in 0 .. Total
    BY DEF OneTypeOK
  <2>3. app' \in [at : {"check"}, value : 0 .. Total, msg : Message]
    BY <2>1, <2>2
  <2>. QED  BY <2>3 DEF OneTypeOK
<1>2. QueueInv'
  BY DEF OneTypeOK, QueueInv, Entering, OpenCount, FirstOpen
<1>3. SlotInv'
  BY DEF SlotInv, StateOf, FirstOpen
<1>4. SendInv'
  BY DEF OneTypeOK, SendInv, Unsent, Deciding, OpenCount, FirstOpen
<1>. QED  BY <1>1, <1>2, <1>3, <1>4

\* The window is never exceeded, so no value is given up.
LEMMA CheckSizeKeeps == OneInv /\ CheckSize => OneInv'
<1>. SUFFICES ASSUME OneInv, CheckSize PROVE OneInv'
  OBVIOUS
<1>0. Cardinality(Open) <= Window /\ Window \in Nat
  BY OpenSlots, OneNodeAssumption DEF OneInv, QueueInv
<1>1. /\ app.at = "check"
      /\ app' = [app EXCEPT !.at = "admit"]
      /\ dropped' = dropped
      /\ UNCHANGED <<captainVars, lastSlot, decideVars, drawn, handler, execVars>>
  <2>1. ~(Cardinality(Open) > Window)
    <3>1. Cardinality(Open) = OpenCount /\ OpenCount \in Int
      BY OpenSlots, OneNodeAssumption DEF OpenCount, OneInv, OneTypeOK
    <3>. QED  BY <1>0, <3>1
  <2>. QED  BY <2>1 DEF CheckSize
<1>. USE OneNodeAssumption DEF OneInv, captainVars, decideVars, execVars
<1>2. OneTypeOK'
  BY <1>1 DEF OneTypeOK, Message
<1>3. QueueInv'
  BY <1>1 DEF OneTypeOK, QueueInv, Entering, OpenCount, FirstOpen
<1>4. SlotInv'
  BY <1>1 DEF SlotInv, StateOf, FirstOpen
<1>5. SendInv'
  BY <1>1 DEF OneTypeOK, SendInv, Unsent, Deciding, OpenCount, FirstOpen
<1>. QED  BY <1>2, <1>3, <1>4, <1>5

\* A decision is announced only when it is known.
LEMMA AppAnnounceKeeps == OneInv /\ AppAnnounce => OneInv'
<1>. SUFFICES ASSUME OneInv, AppAnnounce PROVE OneInv'
  OBVIOUS
<1>. USE OneNodeAssumption DEF OneInv, captainVars, decideVars, execVars
<1>1. NextDecision \in 0 .. withoutHole
  BY DEF NextDecision, OneTypeOK, SlotInv, Slot, None
<1>2. lastSlot' \in 0 .. withoutHole
  BY <1>1 DEF AppAnnounce, Announce, OneTypeOK, SlotInv
<1>3. /\ app.at = "announce"
      /\ app'.at = "send" /\ app'.value = app.value
      /\ app'.msg.slot = app.msg.slot
      /\ app' \in [at : {"send"}, value : 0 .. Total, msg : Message]
      /\ UNCHANGED <<captainVars, decideVars, drawn, handler, execVars, dropped>>
  <2>1. app' = [at |-> "send", value |-> app.value,
                msg |-> [slot |-> app.msg.slot, last |-> NextDecision]]
    BY DEF AppAnnounce, OneTypeOK, Message
  <2>2. app.value \in 0 .. Total /\ app.msg.slot \in 0 .. Total
        /\ NextDecision \in 0 .. Total
    BY <1>1 DEF OneTypeOK, Message
  <2>3. app.at = "announce"
        /\ UNCHANGED <<captainVars, decideVars, drawn, handler, execVars,
                       dropped>>
    BY DEF AppAnnounce
  <2>. QED  BY <2>1, <2>2, <2>3 DEF Message
<1>4. OneTypeOK'
  BY <1>2, <1>3 DEF OneTypeOK
<1>5. QueueInv'
  BY <1>3 DEF OneTypeOK, QueueInv, Entering, OpenCount, FirstOpen
<1>6. SlotInv'
  BY <1>2, <1>3 DEF SlotInv, StateOf, FirstOpen
<1>7. SendInv'
  BY <1>3 DEF OneTypeOK, SendInv, Unsent, Deciding, OpenCount, FirstOpen
<1>. QED  BY <1>4, <1>5, <1>6, <1>7

\* The same on the pool thread.
LEMMA HandlerAnnounceKeeps == OneInv /\ HandlerAnnounce => OneInv'
<1>. SUFFICES ASSUME OneInv, HandlerAnnounce PROVE OneInv'
  OBVIOUS
<1>. USE OneNodeAssumption DEF OneInv, captainVars, decideVars, execVars
<1>1. NextDecision \in 0 .. withoutHole
  BY DEF NextDecision, OneTypeOK, SlotInv, Slot, None
<1>2. lastSlot' \in 0 .. withoutHole
  BY <1>1 DEF HandlerAnnounce, Announce, OneTypeOK, SlotInv
<1>3. /\ handler.at = "announce"
      /\ handler'.at = "send"
      /\ handler'.msg.slot = handler.msg.slot
      /\ handler' \in [at : {"send"}, msg : Message]
      /\ UNCHANGED <<captainVars, decideVars, drawn, app, execVars, dropped>>
  <2>1. handler' = [at |-> "send",
                    msg |-> [slot |-> handler.msg.slot, last |-> NextDecision]]
    BY DEF HandlerAnnounce, OneTypeOK, Message
  <2>2. handler.msg.slot \in 0 .. Total /\ NextDecision \in 0 .. Total
    BY <1>1 DEF OneTypeOK, Message
  <2>3. handler.at = "announce"
        /\ UNCHANGED <<captainVars, decideVars, drawn, app, execVars, dropped>>
    BY DEF HandlerAnnounce
  <2>. QED  BY <2>1, <2>2, <2>3 DEF Message
<1>4. OneTypeOK'
  BY <1>2, <1>3 DEF OneTypeOK
<1>5. QueueInv'
  BY <1>3 DEF OneTypeOK, QueueInv, Entering, OpenCount, FirstOpen
<1>6. SlotInv'
  BY <1>2, <1>3 DEF SlotInv, StateOf, FirstOpen
<1>7. SendInv'
  BY <1>3 DEF OneTypeOK, SendInv, Unsent, Deciding, OpenCount, FirstOpen
<1>. QED  BY <1>4, <1>5, <1>6, <1>7

\* A queue of consecutive slots stays one when the next is appended.
LEMMA ConsecutiveAppend ==
  ASSUME NEW q \in Seq(Accept), NEW m \in Accept, NEW k \in Nat,
         \A i \in DOMAIN q : q[i].slot = k + i,
         m.slot = k + Len(q) + 1
  PROVE  /\ Append(q, m) \in Seq(Accept)
         /\ Len(Append(q, m)) = Len(q) + 1
         /\ \A i \in DOMAIN Append(q, m) : Append(q, m)[i].slot = k + i
<1>1. \A i \in 1 .. Len(q) + 1 : Append(q, m)[i] = IF i = Len(q) + 1 THEN m
                                                                  ELSE q[i]
  OBVIOUS
<1>2. DOMAIN Append(q, m) = 1 .. Len(q) + 1
  OBVIOUS
<1>. QED  BY <1>1, <1>2

\* Taking the first moves the beginning by one.
LEMMA ConsecutiveTail ==
  ASSUME NEW q \in Seq(Accept), NEW k \in Nat, q # <<>>,
         \A i \in DOMAIN q : q[i].slot = k + i
  PROVE  /\ Head(q) \in Accept /\ Head(q).slot = k + 1
         /\ Tail(q) \in Seq(Accept) /\ Len(Tail(q)) = Len(q) - 1
         /\ \A i \in DOMAIN Tail(q) : Tail(q)[i].slot = k + 1 + i
<1>1. 1 \in DOMAIN q /\ Head(q) = q[1] /\ DOMAIN Tail(q) = 1 .. Len(q) - 1
  OBVIOUS
<1>2. \A i \in 1 .. Len(q) - 1 : Tail(q)[i] = q[i + 1] /\ i + 1 \in DOMAIN q
  OBVIOUS
<1>3. \A i \in DOMAIN Tail(q) : Tail(q)[i].slot = k + (i + 1)
  BY <1>1, <1>2
<1>4. \A i \in DOMAIN Tail(q) : k + (i + 1) = k + 1 + i
  BY <1>1
<1>5. Tail(q) \in Seq(Accept) /\ Len(Tail(q)) = Len(q) - 1
  OBVIOUS
<1>. QED  BY <1>1, <1>3, <1>4, <1>5

\* The only ACCEPT that was not sent is the one of the last slot.
LEMMA AppSendKeeps == OneInv /\ AppSend => OneInv'
<1>. SUFFICES ASSUME OneInv, AppSend PROVE OneInv'
  OBVIOUS
<1>. USE OneNodeAssumption DEF OneInv, captainVars, decideVars
<1>1. /\ app.at = "send"
      /\ pending' = Append(pending, app.msg)
      /\ UNCHANGED <<captainVars, lastSlot, decideVars, drawn, handler, dropped>>
  BY DEF AppSend, Pool!Submit
<1>2. /\ app'.at = "out" /\ app'.value = app.value /\ app'.msg = app.msg
      /\ app' \in [at : {"out"}, value : 0 .. Total, msg : Message]
  <2>1. app' = [at |-> "out", value |-> app.value, msg |-> app.msg]
    BY DEF AppSend, OneTypeOK
  <2>2. app.value \in 0 .. Total /\ app.msg \in Message
    BY DEF OneTypeOK
  <2>. QED  BY <2>1, <2>2
<1>3. app.msg \in Accept /\ app.msg.slot = withoutHole + Deciding + Len(pending) + 1
  <2>1. Len(pending) \in Nat /\ withoutHole \in Nat /\ maxSlot \in 0 .. Total
        /\ Deciding \in {0, 1}
    BY DEF OneTypeOK, Deciding
  <2>2. Unsent = 1
    BY <1>1 DEF SendInv, Unsent
  <2>3. app.msg.slot = maxSlot /\ app.msg \in Message
    BY <1>1 DEF SendInv, OneTypeOK
  <2>4. maxSlot = withoutHole + Deciding + Len(pending) + 1
    BY <2>2 DEF SendInv
  <2>. QED  BY <2>1, <2>3, <2>4 DEF Message, Accept, Slot
<1>4. OneTypeOK'
  BY <1>1, <1>2, <1>3 DEF OneTypeOK
<1>5. QueueInv'
  BY <1>1, <1>2 DEF OneTypeOK, QueueInv, Entering, OpenCount, FirstOpen
<1>6. SlotInv'
  BY <1>1 DEF SlotInv, StateOf, FirstOpen
<1>7. SendInv'
  <2>1. Unsent = 1 /\ Unsent' = 0 /\ Deciding' = Deciding
    BY <1>1, <1>2 DEF SendInv, Unsent, Deciding
  <2>2. withoutHole + Deciding \in Nat /\ pending \in Seq(Accept)
        /\ \A i \in DOMAIN pending :
              pending[i].slot = withoutHole + Deciding + i
    BY DEF OneTypeOK, Deciding, SendInv
  <2>3. /\ Len(pending') = Len(pending) + 1
        /\ \A i \in DOMAIN pending' :
              pending'[i].slot = withoutHole + Deciding + i
    BY <1>1, <1>3, <2>2, ConsecutiveAppend
  <2>4. Len(pending) \in Nat
    BY DEF OneTypeOK
  <2>5. withoutHole + Deciding + Len(pending') + 0 = maxSlot
    BY <2>1, <2>2, <2>3, <2>4 DEF SendInv
  <2>. QED  BY <1>1, <1>2, <2>1, <2>3, <2>5
            DEF SendInv, Unsent, OpenCount, FirstOpen, Deciding
<1>. QED  BY <1>4, <1>5, <1>6, <1>7

\* The same on the pool thread.
LEMMA HandlerSendKeeps == OneInv /\ HandlerSend => OneInv'
<1>. SUFFICES ASSUME OneInv, HandlerSend PROVE OneInv'
  OBVIOUS
<1>. USE OneNodeAssumption DEF OneInv, captainVars, decideVars
<1>1. /\ handler.at = "send"
      /\ pending' = Append(pending, handler.msg)
      /\ UNCHANGED <<captainVars, lastSlot, decideVars, drawn, app, dropped>>
  BY DEF HandlerSend, Pool!Submit
<1>2. /\ handler'.at = "end"
      /\ handler' \in [at : {"end"}, msg : Message]
  <2>1. handler' = [at |-> "end", msg |-> handler.msg]
    BY DEF HandlerSend, OneTypeOK
  <2>2. handler.msg \in Message
    BY DEF OneTypeOK
  <2>. QED  BY <2>1, <2>2
<1>3. /\ handler.msg \in Accept
      /\ handler.msg.slot = withoutHole + Len(pending) + 1
  <2>1. Len(pending) \in Nat /\ withoutHole \in Nat /\ maxSlot \in 0 .. Total
        /\ Deciding = 0
    BY <1>1 DEF OneTypeOK, Deciding
  <2>2. Unsent = 1
    BY <1>1 DEF SendInv, Unsent
  <2>3. handler.msg.slot = maxSlot /\ handler.msg \in Message
    BY <1>1 DEF SendInv, OneTypeOK
  <2>4. maxSlot = withoutHole + Deciding + Len(pending) + 1
    BY <2>2 DEF SendInv
  <2>. QED  BY <2>1, <2>3, <2>4 DEF Message, Accept, Slot
<1>4. OneTypeOK'
  BY <1>1, <1>2, <1>3 DEF OneTypeOK
<1>5. QueueInv'
  BY <1>1, <1>2 DEF OneTypeOK, QueueInv, Entering, OpenCount, FirstOpen
<1>6. SlotInv'
  BY <1>1, <1>2 DEF SlotInv, StateOf, FirstOpen
<1>7. SendInv'
  <2>1. Unsent = 1 /\ Unsent' = 0 /\ Deciding = 0 /\ Deciding' = 0
    BY <1>1, <1>2 DEF SendInv, Unsent, Deciding
  <2>2. withoutHole \in Nat /\ pending \in Seq(Accept)
        /\ \A i \in DOMAIN pending : pending[i].slot = withoutHole + i
    BY <2>1 DEF OneTypeOK, SendInv
  <2>3. /\ Len(pending') = Len(pending) + 1
        /\ \A i \in DOMAIN pending' : pending'[i].slot = withoutHole + i
    BY <1>1, <1>3, <2>2, ConsecutiveAppend
  <2>4. Len(pending) \in Nat
    BY DEF OneTypeOK
  <2>5. withoutHole + 0 + Len(pending') + 0 = maxSlot
    BY <2>1, <2>2, <2>3, <2>4 DEF SendInv
  <2>. QED  BY <1>1, <1>2, <2>1, <2>2, <2>3, <2>5
            DEF OneTypeOK, SendInv, Unsent, OpenCount, FirstOpen, Deciding
<1>. QED  BY <1>4, <1>5, <1>6, <1>7

\* Nothing but the place of the pool thread changes.
LEMMA FinishTaskKeeps == OneInv /\ FinishTask => OneInv'
<1>. SUFFICES ASSUME OneInv, FinishTask PROVE OneInv'
  OBVIOUS
<1>. USE OneNodeAssumption DEF OneInv, captainVars, decideVars
<1>1. /\ handler.at = "end"
      /\ UNCHANGED <<captainVars, lastSlot, decideVars, drawn, app, dropped,
                     pending>>
  BY DEF FinishTask, Pool!End
<1>2. /\ handler'.at = "free"
      /\ handler' \in [at : {"free"}, msg : Message]
  <2>1. handler' = [at |-> "free", msg |-> handler.msg]
    BY DEF FinishTask, OneTypeOK
  <2>2. handler.msg \in Message
    BY DEF OneTypeOK
  <2>. QED  BY <2>1, <2>2
<1>3. OneTypeOK'
  BY <1>1, <1>2 DEF OneTypeOK
<1>4. QueueInv'
  BY <1>1, <1>2 DEF OneTypeOK, QueueInv, Entering, OpenCount, FirstOpen
<1>5. SlotInv'
  BY <1>1, <1>2 DEF SlotInv, StateOf, FirstOpen
<1>6. SendInv'
  BY <1>1, <1>2 DEF OneTypeOK, SendInv, Unsent, OpenCount, FirstOpen, Deciding
<1>. QED  BY <1>3, <1>4, <1>5, <1>6

\* The oldest ACCEPT is the one of the first open slot.
LEMMA FetchTaskKeeps == OneInv /\ FetchTask => OneInv'
<1>. SUFFICES ASSUME OneInv, FetchTask PROVE OneInv'
  OBVIOUS
<1>. USE OneNodeAssumption DEF OneInv, captainVars, decideVars
<1>1. /\ handler.at = "free"
      /\ pending # <<>> /\ pending' = Tail(pending)
      /\ handler' = [at |-> "accepted", msg |-> Head(pending)]
      /\ UNCHANGED <<captainVars, lastSlot, decideVars, drawn, app, dropped>>
  BY DEF FetchTask, Pool!Begin
<1>2. /\ Head(pending) \in Accept /\ Head(pending).slot = withoutHole + 1
      /\ pending' \in Seq(Accept) /\ Len(pending') = Len(pending) - 1
      /\ \A i \in DOMAIN pending' : pending'[i].slot = withoutHole + 1 + i
  <2>1. withoutHole \in Nat /\ pending \in Seq(Accept) /\ Deciding = 0
    BY <1>1 DEF OneTypeOK, Deciding
  <2>2. \A i \in DOMAIN pending : pending[i].slot = withoutHole + i
    BY <2>1 DEF SendInv
  <2>. QED  BY <1>1, <2>1, <2>2, ConsecutiveTail
<1>3. handler' \in [at : {"accepted"}, msg : Message]
  BY <1>1, <1>2 DEF Accept, Message, Slot
<1>4. OneTypeOK'
  BY <1>1, <1>2, <1>3 DEF OneTypeOK
<1>5. QueueInv'
  BY <1>1 DEF OneTypeOK, QueueInv, Entering, OpenCount, FirstOpen
<1>6. SlotInv'
  BY <1>1 DEF SlotInv, StateOf, FirstOpen
<1>7. SendInv'
  <2>1. Deciding = 0 /\ Deciding' = 1 /\ Unsent' = Unsent
    BY <1>1 DEF Deciding, Unsent
  <2>2. Len(pending) \in Nat /\ withoutHole \in Nat /\ maxSlot \in Nat
    BY DEF OneTypeOK
  <2>3. Unsent \in 0 .. 2
    BY DEF Unsent
  <2>4. withoutHole + 1 + Len(pending') + Unsent = maxSlot
    <3>1. withoutHole + 0 + Len(pending) + Unsent = maxSlot
      BY <2>1 DEF SendInv
    <3>2. Len(pending') = Len(pending) - 1
      BY <1>2
    <3>. HIDE DEF OneInv
    <3>. QED  BY <2>2, <2>3, <3>1, <3>2
  <2>5. /\ Unsent' <= 1
        /\ withoutHole' + Deciding' + Len(pending') + Unsent' = maxSlot'
    BY <1>1, <2>1, <2>4 DEF SendInv
  <2>6. \A i \in DOMAIN pending' :
          pending'[i].slot = withoutHole' + Deciding' + i
    BY <1>1, <1>2, <2>1
  <2>7. handler'.at = "accepted" /\ handler'.msg.slot = withoutHole' + 1
    BY <1>1, <1>2
  <2>8. app'.at \in {"announce", "send"} => /\ app'.msg.slot = maxSlot'
                                            /\ tocommit' = <<>>
    BY <1>1 DEF SendInv
  <2>. QED  BY <2>5, <2>6, <2>7, <2>8 DEF SendInv
<1>. QED  BY <1>4, <1>5, <1>6, <1>7

\* The slot the pool thread decides is the first open one.
LEMMA DecidedSlot ==
  ASSUME OneInv, Deciding = 1
  PROVE  /\ withoutHole + 1 \in Slot /\ withoutHole + 1 <= maxSlot
         /\ handler.msg.slot = withoutHole + 1
         /\ proposers[withoutHole + 1] =
              [status |-> IF handler.at = "learn" THEN "CHOSEN" ELSE "PHASEII",
               value |-> withoutHole + 1]
<1>1. /\ withoutHole \in Nat /\ maxSlot \in 0 .. Total /\ Len(pending) \in Nat
      /\ Unsent \in 0 .. 2
  BY OneNodeAssumption DEF OneInv, OneTypeOK, Unsent
<1>2. withoutHole + 1 <= maxSlot /\ handler.msg.slot = withoutHole + 1
  BY <1>1 DEF OneInv, SendInv
<1>3. withoutHole + 1 \in Slot
  BY <1>1, <1>2, OneNodeAssumption DEF Slot
<1>4. proposers[withoutHole + 1] = StateOf(withoutHole + 1)
  BY <1>3 DEF OneInv, SlotInv
<1>. QED  BY <1>1, <1>2, <1>3, <1>4 DEF StateOf, FirstOpen, Deciding

\* The write is queued behind a full window, or gets the next slot.
LEMMA AdmitKeeps == OneInv /\ Admit => OneInv'
<1>. SUFFICES ASSUME OneInv, Admit PROVE OneInv'
  OBVIOUS
<1>. USE OneNodeAssumption DEF OneInv, decideVars, execVars
<1>1. /\ app.at = "admit"
      /\ UNCHANGED <<lastSlot, decideVars, drawn, handler, execVars, dropped>>
  BY DEF Admit
<1>2. /\ Len(tocommit) \in Nat /\ maxSlot \in Nat
      /\ app.value = maxSlot + Len(tocommit) + 1 /\ app.value \in Write
  <2>1. app.value = drawn /\ drawn = maxSlot + Len(tocommit) + 1
        /\ drawn \in 0 .. Total
    BY <1>1 DEF QueueInv, Entering, OneTypeOK
  <2>2. Len(tocommit) \in Nat /\ maxSlot \in Nat
    BY DEF OneTypeOK
  <2>. QED  BY <2>1, <2>2 DEF Write
<1>3. CASE Cardinality(Open) = Window
  <2>1. /\ tocommit' = Append(tocommit, app.value)
        /\ UNCHANGED <<proposers, maxSlot>>
        /\ app' = [at |-> "out", value |-> app.value, msg |-> app.msg]
    BY <1>3 DEF Admit, OneTypeOK
  <2>2. app' \in [at : {"out"}, value : 0 .. Total, msg : Message]
    BY <2>1 DEF OneTypeOK
  <2>3. OpenCount = Window
    BY <1>3, OpenSlots
  <2>4. /\ tocommit' \in Seq(Write)
        /\ Len(tocommit') = Len(tocommit) + 1
        /\ \A i \in DOMAIN tocommit' : tocommit'[i] = maxSlot + i
    <3>1. tocommit \in Seq(Write)
          /\ \A i \in DOMAIN tocommit : tocommit[i] = maxSlot + i
      BY DEF OneTypeOK, QueueInv
    <3>2. /\ Append(tocommit, app.value) \in Seq(Write)
          /\ Len(Append(tocommit, app.value)) = Len(tocommit) + 1
          /\ DOMAIN Append(tocommit, app.value) = 1 .. Len(tocommit) + 1
      BY <1>2, <3>1
    <3>3. \A i \in 1 .. Len(tocommit) + 1 : Append(tocommit, app.value)[i] =
            IF i = Len(tocommit) + 1 THEN app.value ELSE tocommit[i]
      BY <1>2, <3>1
    <3>4. \A i \in 1 .. Len(tocommit) + 1 :
            i = Len(tocommit) + 1 \/ i \in DOMAIN tocommit
      BY <1>2, <3>1
    <3>5. \A i \in 1 .. Len(tocommit) + 1 :
            Append(tocommit, app.value)[i] = maxSlot + i
      BY <1>2, <3>1, <3>3, <3>4
    <3>. QED  BY <2>1, <3>2, <3>5
  <2>5. OneTypeOK'
    BY <1>1, <2>1, <2>2, <2>4 DEF OneTypeOK
  <2>6. QueueInv'
    <3>1. Entering = 1 /\ Entering' = 0 /\ OpenCount' = OpenCount
      BY <1>1, <2>1 DEF Entering, OpenCount, FirstOpen
    <3>2. drawn' = maxSlot' + Len(tocommit') + 0
      BY <1>1, <1>2, <2>1, <2>4, <3>1 DEF QueueInv
    <3>. QED  BY <1>1, <2>1, <2>3, <2>4, <3>1, <3>2 DEF QueueInv
  <2>7. SlotInv'
    BY <1>1, <2>1 DEF SlotInv, StateOf, FirstOpen
  <2>8. SendInv'
    BY <1>1, <2>1 DEF SendInv, Unsent, Deciding, OpenCount, FirstOpen
  <2>. QED  BY <2>5, <2>6, <2>7, <2>8
<1>4. CASE Cardinality(Open) # Window
  <2>1. OpenCount < Window /\ tocommit = <<>>
    BY <1>4, OpenSlots DEF QueueInv, OpenCount, OneTypeOK
  <2>2. Len(tocommit) = 0 /\ app.value = maxSlot + 1
    BY <1>2, <2>1
  <2>3. /\ tocommit' = <<>> /\ maxSlot' = maxSlot + 1
        /\ proposers' = [proposers EXCEPT ![maxSlot + 1] =
                           [status |-> "PHASEII", value |-> maxSlot + 1]]
    BY <1>4, <2>1, <2>2 DEF Admit, OpenSlot
  <2>4. app' = [at |-> "announce", value |-> app.value,
                msg |-> [slot |-> maxSlot + 1, last |-> app.msg.last]]
    BY <1>4 DEF Admit, OneTypeOK, Message
  <2>5. maxSlot + 1 \in Slot
    BY <1>2, <2>2 DEF Write, Slot
  <2>6. app' \in [at : {"announce"}, value : 0 .. Total, msg : Message]
    <3>1. app.value \in 0 .. Total /\ app.msg.last \in 0 .. Total
      BY DEF OneTypeOK, Message
    <3>2. maxSlot + 1 \in 0 .. Total
      BY <2>5 DEF Slot
    <3>. QED  BY <2>4, <3>1, <3>2 DEF Message
  <2>7. OneTypeOK'
    <3>1. maxSlot' \in 0 .. Total /\ tocommit' \in Seq(Write)
      BY <2>3, <2>5 DEF Slot
    <3>. QED  BY <1>1, <2>6, <3>1 DEF OneTypeOK
  <2>8. FirstOpen' = FirstOpen /\ FirstOpen \in Nat /\ FirstOpen <= maxSlot + 1
    BY <1>1, OpenSlots DEF FirstOpen
  <2>9. QueueInv'
    BY <1>1, <1>2, <2>1, <2>2, <2>3, <2>4, <2>8
       DEF QueueInv, Entering, OpenCount
  <2>10. SlotInv'
    <3>1. handler.at \in {"learn", "refill"} => FirstOpen <= maxSlot
      <4>1. handler.at = "learn" => Deciding = 1
        BY DEF Deciding
      <4>. QED  BY <4>1, OpenSlots, DecidedSlot DEF FirstOpen
    <3>2. \A s \in Slot : StateOf(s)' = IF s = maxSlot + 1
                            THEN [status |-> "PHASEII", value |-> maxSlot + 1]
                            ELSE StateOf(s)
      BY <1>1, <1>2, <2>3, <2>8, <3>1 DEF StateOf, Slot
    <3>3. proposers' = [s \in Slot |-> StateOf(s)']
      BY <2>3, <2>5, <3>2 DEF SlotInv
    <3>. QED  BY <1>1, <3>3 DEF SlotInv
  <2>11. SendInv'
    <3>1. /\ handler.at \notin {"announce", "send"}
          /\ Unsent = 0 /\ Unsent' = 1 /\ Deciding' = Deciding
      BY <1>1, <2>1, <2>4 DEF SendInv, Unsent, Deciding
    <3>2. Deciding \in {0, 1} /\ Len(pending) \in Nat /\ withoutHole \in Nat
      BY DEF Deciding, OneTypeOK
    <3>3. withoutHole + Deciding + Len(pending) + 1 = maxSlot + 1
      BY <1>2, <3>1, <3>2 DEF SendInv
    <3>. QED  BY <1>1, <2>3, <2>4, <3>1, <3>3 DEF SendInv
  <2>. QED  BY <2>7, <2>9, <2>10, <2>11
<1>. QED  BY <1>3, <1>4

\* There always is a proposer to choose for.
LEMMA ChooseOpens ==
  ASSUME OneInv, Choose
  PROVE  /\ handler.at = "accepted" /\ Deciding = 1
         /\ handler' = [at |-> "learn", msg |-> handler.msg]
         /\ proposers' = [proposers EXCEPT ![withoutHole + 1] =
                            [status |-> "CHOSEN", value |-> withoutHole + 1]]
<1>1. handler.at = "accepted" /\ Deciding = 1
  BY DEF Choose, Deciding
<1>2. /\ handler.msg.slot = withoutHole + 1 /\ withoutHole + 1 \in Slot
      /\ proposers[withoutHole + 1] =
           [status |-> "PHASEII", value |-> withoutHole + 1]
  BY <1>1, DecidedSlot
<1>3. handler' = [handler EXCEPT !.at = "learn"]
  BY <1>2 DEF Choose
<1>4. proposers' = [proposers EXCEPT ![withoutHole + 1].status = "CHOSEN"]
  BY <1>2 DEF Choose
<1>5. handler' = [at |-> "learn", msg |-> handler.msg]
  BY <1>3 DEF OneInv, OneTypeOK
<1>6. proposers' = [proposers EXCEPT ![withoutHole + 1] =
                      [status |-> "CHOSEN", value |-> withoutHole + 1]]
  <2>1. [proposers[withoutHole + 1] EXCEPT !.status = "CHOSEN"] =
          [status |-> "CHOSEN", value |-> withoutHole + 1]
    BY <1>2
  <2>2. proposers' = [proposers EXCEPT ![withoutHole + 1] =
                        [proposers[withoutHole + 1] EXCEPT !.status = "CHOSEN"]]
    BY <1>4
  <2>. QED  BY <2>1, <2>2
<1>. QED  BY <1>1, <1>5, <1>6

\* The first open slot is chosen.
LEMMA ChooseKeeps == OneInv /\ Choose => OneInv'
<1>. SUFFICES ASSUME OneInv, Choose PROVE OneInv'
  OBVIOUS
<1>. USE OneNodeAssumption DEF OneInv, decideVars, execVars
<1>1. /\ UNCHANGED <<tocommit, maxSlot, lastSlot, decideVars, app, drawn,
                     execVars, dropped>>
  BY DEF Choose
<1>2. /\ handler.at = "accepted" /\ handler'.at = "learn"
      /\ handler'.msg = handler.msg
      /\ handler' \in [at : {"learn"}, msg : Message]
  <2>1. handler.msg \in Message
    BY DEF OneTypeOK
  <2>. QED  BY <2>1, ChooseOpens
<1>3. OneTypeOK'
  BY <1>1, <1>2 DEF OneTypeOK
<1>4. QueueInv'
  BY <1>1, <1>2 DEF OneTypeOK, QueueInv, Entering, OpenCount, FirstOpen
<1>5. SlotInv'
  <2>1. Deciding = 1 /\ FirstOpen' = withoutHole + 1 /\ FirstOpen = withoutHole + 1
    BY <1>1, <1>2 DEF Deciding, FirstOpen
  <2>2. withoutHole + 1 \in Slot /\ withoutHole + 1 <= maxSlot
    BY <2>1, DecidedSlot
  <2>3. \A s \in Slot : StateOf(s)' = IF s = withoutHole + 1
                          THEN [status |-> "CHOSEN", value |-> withoutHole + 1]
                          ELSE StateOf(s)
    BY <1>1, <1>2, <2>1, <2>2 DEF StateOf, Slot, OneTypeOK
  <2>4. proposers' = [s \in Slot |-> StateOf(s)']
    BY <2>2, <2>3, ChooseOpens DEF SlotInv
  <2>. QED  BY <1>1, <2>4 DEF SlotInv
<1>6. SendInv'
  BY <1>1, <1>2 DEF OneTypeOK, SendInv, Unsent, OpenCount, FirstOpen, Deciding
<1>. QED  BY <1>3, <1>4, <1>5, <1>6

\* With the next slot learned the prefix without a hole is one longer.
LEMMA PrefixGrows ==
  ASSUME NEW k \in 0 .. Total
  PROVE  Prefix([s \in Slot |-> IF s <= k THEN s ELSE None]) = k
<1>. DEFINE ch == [s \in Slot |-> IF s <= k THEN s ELSE None]
            P(j) == /\ \A s \in 1 .. j : ch[s] # None
                    /\ j = Total \/ ch[j + 1] = None
<1>. USE OneNodeAssumption
<1>1. \A s \in Slot : ch[s] # None <=> s <= k
  BY DEF Slot, None
<1>2. P(k)
  BY <1>1 DEF Slot
<1>3. \A j \in 0 .. Total : P(j) => j = k
  <2>. SUFFICES ASSUME NEW j \in 0 .. Total, P(j) PROVE j = k
    OBVIOUS
  <2>1. j <= k
    BY <1>1 DEF Slot
  <2>2. j = Total \/ k < j + 1
    BY <1>1 DEF Slot
  <2>. QED  BY <2>1, <2>2
<1>. HIDE DEF ch
<1>4. Prefix(ch) = k
  BY <1>2, <1>3 DEF Prefix
<1>. QED  BY <1>4 DEF ch

\* What a decision does: it is the next one, of the next write.
LEMMA LearnNext ==
  ASSUME OneInv, Learn
  PROVE  /\ handler.at = "learn" /\ withoutHole + 1 \in Slot
         /\ handler' = [at |-> "refill", msg |-> handler.msg]
         /\ handler.msg.slot = withoutHole + 1
         /\ withoutHole' = withoutHole + 1 /\ maxChosen' = withoutHole + 1
         /\ chosen' = [s \in Slot |-> IF s <= withoutHole + 1 THEN s ELSE None]
         /\ reported' = reported \cup
              {[client |-> withoutHole + 1, slot |-> withoutHole + 1]}
         /\ applied' = applied \o
              [i \in 1 .. 1 |-> [slot |-> withoutHole + i,
                                 value |-> withoutHole + i]]
<1>. USE OneNodeAssumption
<1>1. handler.at = "learn" /\ Deciding = 1
  BY DEF Learn, Deciding
<1>2. /\ handler.msg.slot = withoutHole + 1 /\ withoutHole + 1 \in Slot
      /\ proposers[withoutHole + 1].value = withoutHole + 1
  BY <1>1, DecidedSlot
<1>3. withoutHole \in Nat /\ maxChosen = withoutHole
      /\ chosen = [s \in Slot |-> IF s <= withoutHole THEN s ELSE None]
  BY DEF OneInv, OneTypeOK, SlotInv
<1>4. chosen[withoutHole + 1] = None
  BY <1>2, <1>3
<1>. DEFINE ch == [chosen EXCEPT ![withoutHole + 1] = withoutHole + 1]
<1>5. ch = [s \in Slot |-> IF s <= withoutHole + 1 THEN s ELSE None]
  BY <1>2, <1>3 DEF Slot
<1>6. Prefix(ch) = withoutHole + 1
  <2>1. withoutHole + 1 \in 0 .. Total
    BY <1>2 DEF Slot
  <2>. HIDE DEF ch
  <2>. QED  BY <1>5, <2>1, PrefixGrows
<1>7. /\ handler' = [handler EXCEPT !.at = "refill"]
      /\ chosen' = ch
      /\ maxChosen' = IF withoutHole + 1 > maxChosen THEN withoutHole + 1
                                                    ELSE maxChosen
      /\ withoutHole' = Prefix(ch)
      /\ reported' = reported \cup
           {[client |-> withoutHole + 1, slot |-> withoutHole + 1]}
      /\ applied' = applied \o
           [i \in 1 .. Prefix(ch) - withoutHole |->
              [slot |-> withoutHole + i, value |-> ch[withoutHole + i]]]
  BY <1>2, <1>4 DEF Learn
<1>8. handler' = [at |-> "refill", msg |-> handler.msg]
  BY <1>7 DEF OneInv, OneTypeOK
<1>9. [i \in 1 .. Prefix(ch) - withoutHole |->
         [slot |-> withoutHole + i, value |-> ch[withoutHole + i]]]
      = [i \in 1 .. 1 |-> [slot |-> withoutHole + i, value |-> withoutHole + i]]
  <2>1. Prefix(ch) - withoutHole = 1
    BY <1>3, <1>6
  <2>2. \A i \in 1 .. 1 : ch[withoutHole + i] = withoutHole + i
    BY <1>2, <1>3
  <2>. HIDE DEF ch
  <2>. QED  BY <2>1, <2>2
<1>10. maxChosen' = withoutHole + 1
  BY <1>3, <1>7
<1>. HIDE DEF ch
<1>. QED  BY <1>1, <1>2, <1>5, <1>6, <1>7, <1>8, <1>9, <1>10

\* The log grows by the first open slot.
LEMMA LearnKeeps == OneInv /\ Learn => OneInv'
<1>. SUFFICES ASSUME OneInv, Learn PROVE OneInv'
  OBVIOUS
<1>. USE OneNodeAssumption DEF OneInv, captainVars, execVars
<1>1. UNCHANGED <<captainVars, lastSlot, app, drawn, execVars, dropped>>
  BY DEF Learn
<1>2. /\ withoutHole' = withoutHole + 1 /\ withoutHole \in Nat
      /\ withoutHole + 1 \in Slot
  BY LearnNext DEF OneTypeOK
<1>3. /\ handler.at = "learn" /\ handler'.at = "refill"
      /\ handler'.msg.slot = withoutHole + 1
      /\ handler' \in [at : {"refill"}, msg : Message]
  <2>1. handler.msg \in Message
    BY DEF OneTypeOK
  <2>. QED  BY <2>1, LearnNext
<1>4. FirstOpen' = FirstOpen /\ OpenCount' = OpenCount
  BY <1>1, <1>2, <1>3 DEF FirstOpen, OpenCount
<1>5. OneTypeOK'
  <2>1. withoutHole' \in 0 .. Total
    BY <1>2 DEF Slot
  <2>. QED  BY <1>1, <1>3, <2>1 DEF OneTypeOK
<1>6. QueueInv'
  BY <1>1, <1>4 DEF QueueInv, Entering
<1>7. SlotInv'
  <2>1. proposers' = [s \in Slot |-> StateOf(s)']
    BY <1>1, <1>3, <1>4 DEF SlotInv, StateOf
  <2>2. /\ chosen' = [s \in Slot |-> IF s <= withoutHole' THEN s ELSE None]
        /\ maxChosen' = withoutHole'
        /\ lastSlot' <= withoutHole'
    <3>1. lastSlot \in Nat /\ lastSlot <= withoutHole
      BY DEF OneTypeOK, SlotInv
    <3>. QED  BY <1>1, <1>2, <3>1, LearnNext
  <2>3. reported' = {[client |-> s, slot |-> s] : s \in 1 .. withoutHole'}
    <3>1. reported = {[client |-> s, slot |-> s] : s \in 1 .. withoutHole}
      BY DEF SlotInv
    <3>2. 1 .. withoutHole' = (1 .. withoutHole) \cup {withoutHole + 1}
      BY <1>2
    <3>. QED  BY <3>1, <3>2, LearnNext
  <2>4. applied' = [i \in 1 .. withoutHole' |-> [slot |-> i, value |-> i]]
    <3>. DEFINE next == [i \in 1 .. 1 |-> [slot |-> withoutHole + i,
                                           value |-> withoutHole + i]]
    <3>1. applied = [i \in 1 .. withoutHole |-> [slot |-> i, value |-> i]]
      BY DEF SlotInv
    <3>2. applied \o next = [i \in 1 .. withoutHole + 1 |->
                               [slot |-> i, value |-> i]]
      BY <1>2, <3>1
    <3>. QED  BY <1>2, <3>2, LearnNext
  <2>. QED  BY <2>1, <2>2, <2>3, <2>4 DEF SlotInv
<1>8. SendInv'
  <2>1. Deciding = 1 /\ Deciding' = 0 /\ Unsent' = Unsent
    BY <1>1, <1>3 DEF Deciding, Unsent
  <2>2. withoutHole' + Deciding' = withoutHole + Deciding
    BY <1>2, <2>1
  <2>3. withoutHole' > 0
    BY <1>2
  <2>. QED  BY <1>1, <1>2, <1>3, <2>1, <2>2, <2>3 DEF SendInv
<1>. QED  BY <1>5, <1>6, <1>7, <1>8

\* A slot is closed, and the next opened for the first write in the queue.
LEMMA RefillKeeps == OneInv /\ Refill => OneInv'
<1>. SUFFICES ASSUME OneInv, Refill PROVE OneInv'
  OBVIOUS
<1>. USE OneNodeAssumption DEF OneInv, decideVars, execVars
<1>1. /\ handler.at = "refill"
      /\ UNCHANGED <<lastSlot, decideVars, app, drawn, execVars, dropped>>
  BY DEF Refill
<1>2. /\ handler.msg.slot = withoutHole /\ withoutHole \in Nat
      /\ withoutHole > 0 /\ withoutHole <= maxSlot /\ maxSlot \in 0 .. Total
      /\ withoutHole \in Slot /\ FirstOpen = withoutHole
  BY <1>1, OpenSlots DEF OneTypeOK, SendInv, FirstOpen, Slot
<1>3. Deciding = 0 /\ handler.msg.last \in 0 .. Total
      /\ withoutHole \in 0 .. Total
  BY <1>1 DEF Deciding, OneTypeOK, Message
<1>4. CASE tocommit = <<>>
  <2>1. /\ proposers' = [proposers EXCEPT ![withoutHole] = Empty]
        /\ handler' = [at |-> "end", msg |-> handler.msg]
        /\ UNCHANGED <<tocommit, maxSlot>>
    <3>1. handler' = [handler EXCEPT !.at = "end"]
      BY <1>4 DEF Refill
    <3>. QED  BY <1>2, <1>4, <3>1 DEF Refill, OneTypeOK
  <2>2. /\ handler' \in [at : {"end"}, msg : Message]
        /\ handler'.at = "end"
    BY <2>1 DEF OneTypeOK
  <2>3. FirstOpen' = withoutHole + 1
    BY <1>1, <2>2 DEF FirstOpen
  <2>4. OneTypeOK'
    BY <1>1, <2>1, <2>2 DEF OneTypeOK
  <2>5. QueueInv'
    BY <1>1, <1>2, <1>4, <2>1, <2>3 DEF QueueInv, Entering, OpenCount
  <2>6. SlotInv'
    <3>1. \A s \in Slot : StateOf(s)' = IF s = withoutHole THEN Empty
                                                           ELSE StateOf(s)
      BY <1>1, <1>2, <2>1, <2>2, <2>3 DEF StateOf, Slot
    <3>2. proposers' = [s \in Slot |-> StateOf(s)']
      BY <1>2, <2>1, <3>1 DEF SlotInv
    <3>. QED  BY <1>1, <3>2 DEF SlotInv
  <2>7. SendInv'
    BY <1>1, <1>3, <2>1, <2>2 DEF SendInv, Unsent, Deciding
  <2>. QED  BY <2>4, <2>5, <2>6, <2>7
<1>5. CASE tocommit # <<>>
  <2>1. /\ Head(tocommit) = maxSlot + 1 /\ maxSlot + 1 \in Slot
        /\ Tail(tocommit) \in Seq(Write)
        /\ Len(Tail(tocommit)) = Len(tocommit) - 1
        /\ \A i \in DOMAIN Tail(tocommit) :
             Tail(tocommit)[i] = maxSlot + 1 + i
    <3>1. tocommit \in Seq(Write)
          /\ \A i \in DOMAIN tocommit : tocommit[i] = maxSlot + i
      BY DEF OneTypeOK, QueueInv
    <3>2. 1 \in DOMAIN tocommit /\ Head(tocommit) = tocommit[1]
          /\ Head(tocommit) \in Write
          /\ DOMAIN Tail(tocommit) = 1 .. Len(tocommit) - 1
      BY <1>5, <3>1
    <3>3. \A i \in 1 .. Len(tocommit) - 1 :
            /\ Tail(tocommit)[i] = tocommit[i + 1]
            /\ i + 1 \in DOMAIN tocommit
      BY <1>5, <3>1
    <3>4. \A i \in 1 .. Len(tocommit) - 1 :
            Tail(tocommit)[i] = maxSlot + (i + 1)
      BY <3>1, <3>3
    <3>5. \A i \in 1 .. Len(tocommit) - 1 :
            maxSlot + (i + 1) = maxSlot + 1 + i
      BY <1>2, <3>1
    <3>6. Tail(tocommit) \in Seq(Write)
          /\ Len(Tail(tocommit)) = Len(tocommit) - 1
      BY <1>5, <3>1
    <3>. QED  BY <3>1, <3>2, <3>4, <3>5, <3>6 DEF Write, Slot
  <2>2. /\ maxSlot' = maxSlot + 1 /\ tocommit' = Tail(tocommit)
        /\ proposers' = [[proposers EXCEPT ![withoutHole] = Empty] EXCEPT
                           ![maxSlot + 1] = [status |-> "PHASEII",
                                             value  |-> maxSlot + 1]]
    BY <1>2, <1>5, <2>1 DEF Refill, OpenSlot
  <2>3. handler' = [at |-> "announce",
                    msg |-> [slot |-> maxSlot + 1, last |-> handler.msg.last]]
    BY <1>5 DEF Refill, OneTypeOK, Message
  <2>4. handler' \in [at : {"announce"}, msg : Message]
    <3>1. maxSlot + 1 \in 0 .. Total
      BY <2>1 DEF Slot
    <3>. QED  BY <1>3, <2>3, <3>1 DEF Message
  <2>5. FirstOpen' = withoutHole + 1 /\ OpenCount' = OpenCount
        /\ OpenCount = Window
    <3>1. FirstOpen' = withoutHole + 1
      BY <1>1, <2>3 DEF FirstOpen
    <3>2. OpenCount = Window
      BY <1>5 DEF QueueInv
    <3>. QED  BY <1>2, <2>2, <3>1, <3>2 DEF OpenCount
  <2>6. OneTypeOK'
    <3>1. maxSlot' \in 0 .. Total /\ tocommit' \in Seq(Write)
      BY <2>1, <2>2 DEF Slot
    <3>. QED  BY <1>1, <2>4, <3>1 DEF OneTypeOK
  <2>7. QueueInv'
    <3>1. Len(tocommit) \in Nat /\ Entering \in {0, 1}
          /\ drawn = maxSlot + Len(tocommit) + Entering
      BY DEF OneTypeOK, Entering, QueueInv
    <3>2. drawn' = maxSlot' + Len(tocommit') + Entering /\ Entering' = Entering
      BY <1>1, <1>2, <2>1, <2>2, <3>1 DEF Entering
    <3>. QED  BY <1>1, <2>1, <2>2, <2>5, <3>2 DEF QueueInv
  <2>8. SlotInv'
    <3>1. \A s \in Slot : StateOf(s)' =
            IF s = maxSlot + 1 THEN [status |-> "PHASEII", value |-> maxSlot + 1]
            ELSE IF s = withoutHole THEN Empty ELSE StateOf(s)
      BY <1>1, <1>2, <2>2, <2>3, <2>5 DEF StateOf, Slot
    <3>2. proposers' = [s \in Slot |-> StateOf(s)']
      BY <1>2, <2>1, <2>2, <3>1 DEF SlotInv
    <3>. QED  BY <1>1, <3>2 DEF SlotInv
  <2>9. SendInv'
    <3>1. app.at \notin {"announce", "send"}
      BY <1>5 DEF SendInv
    <3>2. Unsent = 0 /\ Unsent' = 1 /\ Deciding' = 0
      BY <1>1, <2>3, <3>1 DEF Unsent, Deciding
    <3>3. Len(pending) \in Nat
      BY DEF OneTypeOK
    <3>4. withoutHole + 0 + Len(pending) + 1 = maxSlot + 1
      BY <1>2, <1>3, <3>2, <3>3 DEF SendInv
    <3>. QED  BY <1>1, <1>3, <2>2, <2>3, <2>5, <3>1, <3>2, <3>4 DEF SendInv
  <2>. QED  BY <2>6, <2>7, <2>8, <2>9
<1>. QED  BY <1>4, <1>5

-----------------------------------------------------------------------------
(* The invariant *)

\* Both threads start with nothing done.
LEMMA OneInitInv == OneInit => OneInv
<1>. SUFFICES ASSUME OneInit PROVE OneInv
  OBVIOUS
<1>. USE OneNodeAssumption DEF OneInit
<1>1. OneTypeOK
  BY DEF OneTypeOK, Message, NoAccept, None, Pool!ExecInit
<1>2. QueueInv
  BY DEF QueueInv, Entering, OpenCount, FirstOpen
<1>3. SlotInv
  <2>1. \A s \in Slot : StateOf(s) = Empty
    BY DEF StateOf, FirstOpen, Slot
  <2>2. chosen = [s \in Slot |-> IF s <= withoutHole THEN s ELSE None]
    BY DEF Slot
  <2>3. applied = [i \in 1 .. withoutHole |-> [slot |-> i, value |-> i]]
    OBVIOUS
  <2>. QED  BY <2>1, <2>2, <2>3 DEF SlotInv
<1>4. SendInv
  BY DEF SendInv, Unsent, Deciding, Pool!ExecInit
<1>. QED  BY <1>1, <1>2, <1>3, <1>4 DEF OneInv

\* Every step keeps the invariant.
LEMMA OneNextInv == OneInv /\ [OneNext]_oneVars => OneInv'
<1>. SUFFICES ASSUME OneInv, [OneNext]_oneVars PROVE OneInv'
  OBVIOUS
<1>1. CASE UNCHANGED oneVars
  <2>1. OneTypeOK' /\ QueueInv'
    BY <1>1 DEF oneVars, captainVars, decideVars, execVars, OneInv, OneTypeOK,
                QueueInv, Entering, OpenCount, FirstOpen
  <2>2. SlotInv'
    BY <1>1 DEF oneVars, captainVars, decideVars, execVars, OneInv, SlotInv,
                StateOf, FirstOpen
  <2>3. SendInv'
    BY <1>1 DEF oneVars, captainVars, decideVars, execVars, OneInv, SendInv,
                OpenCount, FirstOpen, Deciding, Unsent
  <2>. QED  BY <2>1, <2>2, <2>3 DEF OneInv
<1>2. CASE AppStep
  BY <1>2, DrawKeeps, CheckSizeKeeps, AdmitKeeps, AppAnnounceKeeps, AppSendKeeps
     DEF AppStep
<1>3. CASE HandlerStep
  BY <1>3, FetchTaskKeeps, ChooseKeeps, LearnKeeps, RefillKeeps,
     HandlerAnnounceKeeps, HandlerSendKeeps, FinishTaskKeeps DEF HandlerStep
<1>. QED  BY <1>1, <1>2, <1>3 DEF OneNext

\* The invariant holds in every reachable state of the two threads
\* (captain.cpp:162-231, 425-503).
THEOREM OneNodeInvariant == OneSpec => []OneInv
<1>. QED  BY OneInitInv, OneNextInv, PTL DEF OneSpec

\* The unlocked check gives no write up, and writes wait only behind a full
\* window, for any window and number of writes (captain.cpp:167, 177, 466-470).
THEOREM NothingIsStranded == OneSpec => []NothingStranded
<1>1. OneInv => NothingStranded
  BY OpenSlots DEF NothingStranded, OneInv, QueueInv
<1>. QED  BY <1>1, OneNodeInvariant, PTL

\* Slots are decided and applied in their order, whichever thread opened them
\* (captain.cpp:187-231, 466-503, 843-886).
THEOREM DecidesInOrder == OneSpec => []DecidedInOrder
<1>1. ASSUME OneInv PROVE DecidedInOrder
  <2>1. withoutHole \in 0 .. Total
    BY <1>1 DEF OneInv, OneTypeOK
  <2>2. \A s \in Slot : chosen[s] # None <=> s <= withoutHole
    BY <1>1, OneNodeAssumption DEF OneInv, SlotInv, Slot, None
  <2>3. \A s \in Slot : chosen[s] # None => \A t \in 1 .. s : chosen[t] # None
    BY <2>1, <2>2, OneNodeAssumption DEF Slot
  <2>4. lastSlot <= withoutHole
    BY <1>1 DEF OneInv, SlotInv
  <2>5. \A i \in DOMAIN applied :
          /\ applied[i].slot = i
          /\ [client |-> applied[i].value, slot |-> i] \in reported
    BY <1>1, <2>1 DEF OneInv, SlotInv
  <2>. QED  BY <2>3, <2>4, <2>5 DEF DecidedInOrder
<1>. QED  BY <1>1, OneNodeInvariant, PTL

-----------------------------------------------------------------------------
(* The refinement of the log *)

\* The slots decided so far
Decisions == IF handler.at = "learn" THEN withoutHole + 1 ELSE withoutHole

\* Decided are the slots up to Decisions, each with its own write.
DecidedBelow == \A s \in Slot :
  DecidedIn(s) = [data |-> IF s <= Decisions THEN s ELSE None]

\* So it is in every state the invariant allows.
LEMMA DecidedIs == OneInv => DecidedBelow
<1>. SUFFICES ASSUME OneInv, NEW s \in Slot
     PROVE  DecidedIn(s) = [data |-> IF s <= Decisions THEN s ELSE None]
  BY DEF DecidedBelow
<1>. USE OneNodeAssumption
<1>1. /\ s \in Nat /\ s > 0 /\ withoutHole \in Nat
      /\ proposers[s] = StateOf(s)
      /\ chosen[s] = IF s <= withoutHole THEN s ELSE None
  BY DEF OneInv, OneTypeOK, SlotInv, Slot
<1>2. CASE s <= withoutHole
  BY <1>1, <1>2 DEF DecidedIn, Decisions, None
<1>3. CASE s > withoutHole
  <2>1. chosen[s] = None
    BY <1>1, <1>3
  <2>2. proposers[s].status = "CHOSEN"
        <=> handler.at = "learn" /\ s = withoutHole + 1
    <3>1. CASE handler.at = "learn" /\ s = withoutHole + 1
      <4>1. Deciding = 1
        BY <3>1 DEF Deciding
      <4>. QED  BY <3>1, <4>1, DecidedSlot
    <3>2. CASE ~(handler.at = "learn" /\ s = withoutHole + 1)
      BY <1>1, <1>3, <3>2 DEF StateOf, FirstOpen, Empty
    <3>. QED  BY <3>1, <3>2
  <2>3. proposers[s].status = "CHOSEN" => proposers[s].value = s
    BY <1>1 DEF StateOf, Empty
  <2>. QED  BY <1>1, <1>3, <2>1, <2>2, <2>3 DEF DecidedIn, Decisions
<1>. QED  BY <1>1, <1>2, <1>3

LogStep == [Log!LogNext]_(Log!logVars)

\* Only the choice of a value and the learning of it are steps of the log.
LEMMA NoDecision ==
  ASSUME OneInv, OneInv', UNCHANGED <<chosen, reported, withoutHole>>,
         handler'.at = "learn" <=> handler.at = "learn"
  PROVE  LogStep
<1>1. Decisions' = Decisions
  BY DEF Decisions
<1>2. \A s \in Slot : DecidedIn(s)' = DecidedIn(s)
  <2>1. DecidedBelow /\ DecidedBelow'
    BY DecidedIs, PTL
  <2>. QED  BY <1>1, <2>1 DEF DecidedBelow
<1>. QED  BY <1>2 DEF LogStep, Log!logVars

\* Choosing is a decision of the log.
LEMMA ChooseDecides == ASSUME OneInv, OneInv', Choose PROVE LogStep
<1>. USE OneNodeAssumption
<1>. DEFINE k == withoutHole + 1
<1>1. handler.at = "accepted" /\ handler'.at = "learn" /\ Deciding = 1
      /\ UNCHANGED <<chosen, reported, withoutHole>>
  BY ChooseOpens DEF Choose, decideVars
<1>2. k \in Slot /\ withoutHole \in Nat
  BY <1>1, DecidedSlot DEF OneInv, OneTypeOK
<1>3. Decisions = withoutHole /\ Decisions' = k
  BY <1>1 DEF Decisions
<1>4. \A s \in Slot :
        /\ DecidedIn(s) = [data |-> IF s <= withoutHole THEN s ELSE None]
        /\ DecidedIn(s)' = [data |-> IF s <= k THEN s ELSE None]
  <2>1. DecidedBelow /\ DecidedBelow'
    BY DecidedIs, PTL
  <2>. QED  BY <1>3, <2>1 DEF DecidedBelow
<1>. DEFINE before == [s \in Slot |-> DecidedIn(s)]
            after  == [s \in Slot |-> DecidedIn(s)']
<1>5. before[k] = [data |-> None] /\ after[k] = [data |-> k]
  BY <1>2, <1>4
<1>6. \A s \in Slot : before[s] # [data |-> None] => before[s].data # k
  BY <1>2, <1>4
<1>7. after = [before EXCEPT ![k] = after[k]]
  <2>1. \A s \in Slot : s # k => after[s] = before[s]
    BY <1>2, <1>4 DEF Slot
  <2>. HIDE DEF k
  <2>. QED  BY <2>1
<1>8. after[k] \in [data : Write] /\ after[k].data = k
  BY <1>2, <1>5 DEF Slot, Write
<1>9. Log!Decide(k)
  BY <1>5, <1>6, <1>7, <1>8 DEF Log!Decide
<1>. QED  BY <1>1, <1>2, <1>9 DEF LogStep, Log!LogNext

\* Learning fills the copy and replies.
LEMMA LearnLearns == ASSUME OneInv, OneInv', Learn PROVE LogStep
<1>. USE OneNodeAssumption
<1>. DEFINE k == withoutHole + 1
<1>1. /\ handler.at = "learn" /\ handler'.at = "refill" /\ withoutHole' = k
      /\ k \in Slot /\ withoutHole \in Nat
      /\ reported' = reported \cup {[client |-> k, slot |-> k]}
  BY LearnNext DEF OneInv, OneTypeOK
<1>2. Decisions = k /\ Decisions' = k
  BY <1>1 DEF Decisions
<1>3. \A s \in Slot :
        /\ DecidedIn(s) = [data |-> IF s <= k THEN s ELSE None]
        /\ DecidedIn(s)' = [data |-> IF s <= k THEN s ELSE None]
  <2>1. DecidedBelow /\ DecidedBelow'
    BY DecidedIs, PTL
  <2>. QED  BY <1>2, <2>1 DEF DecidedBelow
<1>. DEFINE decided == [s \in Slot |-> DecidedIn(s)]
            copy    == [n \in {0} |-> [s \in Slot |-> [data |-> chosen[s]]]]
<1>4. UNCHANGED decided
  BY <1>3
<1>5. decided[k] = [data |-> k] /\ decided[k] # [data |-> None]
  BY <1>1, <1>3 DEF None, Slot
<1>6. /\ chosen = [s \in Slot |-> IF s <= withoutHole THEN s ELSE None]
      /\ chosen' = [s \in Slot |-> IF s <= k THEN s ELSE None]
  BY LearnNext DEF OneInv, SlotInv
<1>7. copy[0][k] = [data |-> None]
  BY <1>1, <1>6
<1>8. copy' = [copy EXCEPT ![0][k] = decided[k]]
  <2>1. \A s \in Slot : chosen'[s] = IF s = k THEN k ELSE chosen[s]
    <3>1. \A s \in Slot : /\ chosen[s] = IF s <= withoutHole THEN s ELSE None
                          /\ chosen'[s] = IF s <= k THEN s ELSE None
      BY <1>6
    <3>2. \A s \in Slot : s = k \/ (s <= k <=> s <= withoutHole)
      BY <1>1 DEF Slot
    <3>3. k <= k
      BY <1>1
    <3>. QED  BY <3>1, <3>2, <3>3
  <2>2. [copy[0] EXCEPT ![k] = decided[k]] =
          [s \in Slot |-> [data |-> chosen'[s]]]
    BY <1>1, <1>5, <2>1
  <2>3. copy' = [n \in {0} |-> [s \in Slot |-> [data |-> chosen'[s]]]]
    OBVIOUS
  <2>4. [copy EXCEPT ![0] = [copy[0] EXCEPT ![k] = decided[k]]] = copy'
    BY <2>2, <2>3
  <2>. QED  BY <2>4
<1>9. \E n \in {0}, s \in Slot : Log!Learn(n, s)
  BY <1>1, <1>5, <1>7, <1>8 DEF Log!Learn
<1>10. Log!Reply(k)
  BY <1>1, <1>5 DEF Log!Reply
<1>11. \E s \in Slot : Log!Reply(s)
  BY <1>1, <1>10
<1>. QED  BY <1>4, <1>9, <1>11 DEF LogStep, Log!LogNext

\* Every step is one of the log or leaves it alone.
LEMMA OneNextLog ==
  ASSUME OneInv, OneInv', [OneNext]_oneVars PROVE LogStep
<1>. USE DEF decideVars
<1>1. CASE UNCHANGED oneVars
  BY <1>1, NoDecision DEF oneVars
<1>2. CASE AppStep
  BY <1>2, NoDecision
     DEF AppStep, Draw, CheckSize, Admit, AppAnnounce, AppSend
<1>3. CASE FetchTask \/ Refill \/ HandlerAnnounce \/ HandlerSend \/ FinishTask
  <2>1. UNCHANGED <<chosen, reported, withoutHole>>
    BY <1>3 DEF FetchTask, Refill, HandlerAnnounce, HandlerSend, FinishTask
  <2>2. handler.at # "learn"
    BY <1>3 DEF FetchTask, Refill, HandlerAnnounce, HandlerSend, FinishTask
  <2>3. handler'.at # "learn"
    <3>1. handler = [at |-> handler.at, msg |-> handler.msg]
      BY DEF OneInv, OneTypeOK
    <3>2. \A p : [handler EXCEPT !.at = p].at = p
      BY <3>1
    <3>3. \A p, m : [handler EXCEPT !.at = p, !.msg.slot = m].at = p
                    /\ [handler EXCEPT !.at = p, !.msg.last = m].at = p
      BY <3>1
    <3>4. CASE FetchTask
      BY <3>4 DEF FetchTask
    <3>5. CASE Refill
      <4>. DEFINE e == [handler EXCEPT !.at = "end"]
                  o == [handler EXCEPT !.at = "announce",
                                       !.msg.slot = maxSlot + 1]
      <4>1. handler' = e \/ handler' = o
        BY <3>5 DEF Refill
      <4>2. e.at = "end"
        BY <3>2
      <4>3. o.at = "announce"
        BY <3>3
      <4>. HIDE DEF e, o
      <4>. QED  BY <4>1, <4>2, <4>3
    <3>6. CASE HandlerAnnounce
      BY <3>6, <3>3 DEF HandlerAnnounce
    <3>7. CASE HandlerSend \/ FinishTask
      BY <3>7, <3>2 DEF HandlerSend, FinishTask
    <3>. QED  BY <1>3, <3>4, <3>5, <3>6, <3>7
  <2>. QED  BY <2>1, <2>2, <2>3, NoDecision
<1>4. CASE Choose
  BY <1>4, ChooseDecides
<1>5. CASE Learn
  BY <1>5, LearnLearns
<1>. QED  BY <1>1, <1>2, <1>3, <1>4, <1>5 DEF OneNext, HandlerStep

\* The two threads together implement the log: one final decision per slot, no
\* write in two slots, and replies for decided writes only (captain.cpp:425-470).
THEOREM OneNodeImplementsLog == OneSpec => ImplementsLog
<1>1. OneInit => Log!LogInit
  <2>. SUFFICES ASSUME OneInit PROVE Log!LogInit
    OBVIOUS
  <2>1. \A s \in Slot : DecidedIn(s) = [data |-> None]
    BY DEF OneInit, DecidedIn, Empty
  <2>. QED  BY <2>1 DEF OneInit, Log!LogInit
<1>2. OneInv /\ OneInv' /\ [OneNext]_oneVars => LogStep
  BY OneNextLog
<1>. QED  BY <1>1, <1>2, OneNodeInvariant, PTL
          DEF OneSpec, ImplementsLog, Log!LogSpec, LogStep
=============================================================================
