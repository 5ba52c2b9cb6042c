---------------------------- MODULE ClientProofs ----------------------------
(***************************************************************************)
(* The client's window, its mix of reads and writes, and what it counts,   *)
(* for every window, block, ratio and number of operations.                *)
(***************************************************************************)
EXTENDS Client, FiniteSetTheorems, TLAPS

Name == [type : 0 .. 1, counter : Nat]

MainType == [at : {"issue", "sample", "before", "after", "stop", "stopped"},
             i : Nat, before : Nat]

ClientTypes ==
  /\ mode \in 0 .. 2 /\ ratio \in 0 .. 100
  /\ counter \in Nat /\ randCounter \in Nat
  /\ recording \in BOOLEAN /\ done \in BOOLEAN
  /\ thr \in Nat /\ reported \in Nat /\ throughputs \in Seq(Nat)
  /\ main \in MainType
  /\ loop \in {"idle", "check", "next"}
  /\ sent \in SUBSET Name /\ IsFiniteSet(sent)
  /\ inFlight \in SUBSET sent
  /\ lost \in Nat /\ late \in Nat

Handled == IF loop = "idle" THEN 0 ELSE 1

\* Until done_ is set, each Interest of the main thread is out, lost, or its
\* Data is being handled.
WindowInv == ~done => Cardinality(inFlight) + lost + Handled = main.i

\* done_ is set from the beginning in MODE_TYPE 1, otherwise once; whoever read
\* it before has one Interest to send.
DoneInv ==
  /\ mode = 1 => /\ done /\ loop # "next" /\ late = 0
                 /\ main.at \in {"issue", "sample", "stopped"}
  /\ ~done => late = 0
  /\ late = 0 \/ (late = 1 /\ loop # "next")

\* The numbers below commit_counter_ are used, once each.
NumberInv ==
  /\ \A n \in sent : n.counter < counter
  /\ \A m, n \in sent : m.counter = n.counter => m = n
  /\ \A c \in 0 .. counter - 1 : \E n \in sent : n.counter = c

\* Of the operations of block b the one numbered o is the odd one.
OddIs(S, b, o) == \A n \in S :
  n.counter \div Block = b => (n.type # WriteOrRead <=> n.counter = o)

\* In the block under way rand_counter_ is the odd one; each full block has
\* one.
OddInv == ratio \in 1 .. 99 =>
  /\ counter % Block # 0 =>
       /\ randCounter \div Block = counter \div Block
       /\ OddIs(sent, counter \div Block, randCounter)
  /\ \A b \in 0 .. counter : b * Block + Block <= counter =>
       \E o \in b * Block .. b * Block + Block - 1 : OddIs(sent, b, o)

\* A reply is recorded once, and a second counts what it saw arrive.
CountInv ==
  /\ thr + Cardinality(inFlight) + lost <= Cardinality(sent)
  /\ reported <= thr
  /\ main.at = "after" => reported <= main.before /\ main.before <= thr
  /\ mode = 1 => /\ \A i \in DOMAIN throughputs : throughputs[i] <= thr
                 /\ \A i, j \in DOMAIN throughputs :
                      i <= j => throughputs[i] <= throughputs[j]

ClientInv ==
  ClientTypes /\ WindowInv /\ DoneInv /\ NumberInv /\ OddInv /\ CountInv

-----------------------------------------------------------------------------
(* Blocks *)

LEMMA Division ==
  ASSUME NEW c \in Nat
  PROVE  /\ c \div Block \in Nat /\ c % Block \in 0 .. Block - 1
         /\ c % Block = c - (c \div Block) * Block
<1>1. Block \in Nat /\ Block > 0
  BY ClientAssumption
<1>2. c \div Block \in Nat
  BY <1>1
<1>3. c % Block \in 0 .. Block - 1
  BY <1>1
<1>4. c % Block = c - (c \div Block) * Block
  BY <1>1
<1>. QED  BY <1>2, <1>3, <1>4

\* Number c is in block b if it is one of the numbers from b * Block.
LEMMA InBlock ==
  ASSUME NEW c \in Nat, NEW b \in Nat
  PROVE  /\ b * Block \in Nat
         /\ c \div Block = b <=> b * Block <= c /\ c < b * Block + Block
<1>1. Block \in Nat /\ Block > 0 /\ b * Block \in Nat
  BY ClientAssumption
<1>2. ASSUME c \div Block = b  PROVE b * Block <= c /\ c < b * Block + Block
  BY <1>1, <1>2, Division
<1>3. ASSUME b * Block <= c, c < b * Block + Block  PROVE c \div Block = b
  BY <1>1, <1>3
<1>. QED  BY <1>1, <1>2, <1>3

\* A new Interest takes the next number, and its type is the odd one of the
\* block or the other.
LEMMA TypeIs ==
  ASSUME ratio \in 0 .. 100, NEW c \in Nat, NEW o \in Nat
  PROVE  /\ TypeOf(c, o) \in 0 .. 1
         /\ ratio \in 1 .. 99 => (TypeOf(c, o) # WriteOrRead <=> c = o)
  BY DEF TypeOf, WriteOrRead

\* What the locked region of counter_mut_ does to the numbers
\* (client.cpp:116-149)
LEMMA IssueNumbers ==
  ASSUME ClientTypes, NumberInv, NextInterest, UNCHANGED ratio
  PROVE  /\ counter' \in Nat /\ randCounter' \in Nat
         /\ sent' \in SUBSET Name /\ IsFiniteSet(sent')
         /\ inFlight' \in SUBSET sent'
         /\ Cardinality(sent') = Cardinality(sent) + 1
         /\ Cardinality(inFlight') = Cardinality(inFlight) + 1
         /\ NumberInv'
<1>. DEFINE name == [type    |-> TypeOf(counter, randCounter'),
                     counter |-> counter]
<1>1. /\ counter' = counter + 1
      /\ inFlight' = inFlight \cup {name} /\ sent' = sent \cup {name}
  BY DEF NextInterest
<1>2. counter \in Nat /\ counter' \in Nat /\ randCounter' \in Nat
  BY <1>1, ClientAssumption DEF NextInterest, DrawOdd, ClientTypes
<1>3. name \in Name /\ name.counter = counter
  BY <1>2, TypeIs DEF ClientTypes, Name
<1>. HIDE DEF name
<1>4. name \notin sent /\ name \notin inFlight
  BY <1>2, <1>3 DEF NumberInv, ClientTypes, Name
<1>5. /\ sent' \in SUBSET Name /\ inFlight' \in SUBSET sent'
  BY <1>1, <1>3 DEF ClientTypes
<1>6. /\ IsFiniteSet(sent') /\ Cardinality(sent') = Cardinality(sent) + 1
      /\ Cardinality(inFlight') = Cardinality(inFlight) + 1
  <2>1. IsFiniteSet(inFlight)
    BY FS_Subset DEF ClientTypes
  <2>. QED  BY <1>1, <1>4, <2>1, FS_AddElement DEF ClientTypes
<1>7. NumberInv'
  <2>1. \A n \in sent : n.counter \in Nat /\ n.counter < counter
    BY DEF NumberInv, ClientTypes, Name
  <2>2. \A n \in sent' : n.counter < counter'
    BY <1>1, <1>2, <1>3, <2>1
  <2>3. \A m, n \in sent' : m.counter = n.counter => m = n
    BY <1>1, <1>2, <1>3, <2>1 DEF NumberInv
  <2>4. ASSUME NEW c \in 0 .. counter' - 1
        PROVE  \E n \in sent' : n.counter = c
    <3>1. CASE c = counter
      BY <1>1, <1>3, <3>1
    <3>2. CASE c # counter
      BY <1>1, <1>2, <3>2 DEF NumberInv
    <3>. QED  BY <3>1, <3>2
  <2>. QED  BY <2>2, <2>3, <2>4 DEF NumberInv
<1>. QED  BY <1>2, <1>5, <1>6, <1>7

\* ... and to the mix (client.cpp:125-147, 299-326)
LEMMA IssueMixes ==
  ASSUME ClientTypes, NumberInv, OddInv, NextInterest, UNCHANGED ratio
  PROVE  OddInv'
<1>. SUFFICES ASSUME ratio \in 1 .. 99  PROVE OddInv'
  BY DEF OddInv
<1>. DEFINE name == [type    |-> TypeOf(counter, randCounter'),
                     counter |-> counter]
            q    == counter \div Block
<1>0. WriteOrRead' = WriteOrRead
  BY DEF WriteOrRead
<1>1. counter' = counter + 1 /\ sent' = sent \cup {name}
  BY DEF NextInterest
<1>2. counter \in Nat /\ Block \in Nat /\ Block > 0
  BY ClientAssumption DEF ClientTypes
<1>3. randCounter' \in Nat /\ randCounter \in Nat
  BY ClientAssumption DEF NextInterest, DrawOdd, ClientTypes
<1>4. /\ name.counter = counter
      /\ name.type # WriteOrRead <=> counter = randCounter'
  BY <1>2, <1>3, TypeIs DEF ClientTypes
<1>. HIDE DEF name
<1>5. /\ q \in Nat /\ q * Block \in Nat
      /\ q * Block <= counter /\ counter < q * Block + Block
      /\ counter % Block = counter - q * Block
  BY <1>2, Division, InBlock
<1>6. \A n \in sent : n.counter \in Nat /\ n.counter < counter
  BY DEF NumberInv, ClientTypes, Name
<1>7. randCounter' \div Block = q /\ OddIs(sent', q, randCounter')
  <2>1. CASE counter % Block = 0
    <3>1. PICK r \in 0 .. Block - 1 : randCounter' = counter + r
      BY <2>1 DEF NextInterest, DrawOdd
    <3>2. counter = q * Block
      <4>. HIDE DEF q
      <4>. QED  BY <1>2, <1>5, <2>1
    <3>3. randCounter' \div Block = q
      BY <1>2, <1>3, <1>5, <3>1, <3>2, InBlock
    <3>4. \A n \in sent : n.counter \div Block # q
      BY <1>5, <1>6, <3>2, InBlock
    <3>. QED  BY <1>0, <1>1, <1>4, <3>3, <3>4 DEF OddIs
  <2>2. CASE counter % Block # 0
    <3>1. randCounter' = randCounter
      BY <2>2 DEF NextInterest, DrawOdd
    <3>2. randCounter \div Block = q /\ OddIs(sent, q, randCounter)
      BY <2>2 DEF OddInv
    <3>. QED  BY <1>0, <1>1, <1>4, <3>1, <3>2 DEF OddIs
  <2>. QED  BY <2>1, <2>2
<1>. HIDE DEF q
<1>8. ASSUME counter' % Block # 0  PROVE counter' \div Block = q
  <2>1. counter' # q * Block + Block
    <3>1. ASSUME counter' = q * Block + Block  PROVE counter' % Block = 0
      <4>1. (q + 1) * Block = q * Block + Block
        BY <1>2, <1>5
      <4>. QED  BY <1>2, <1>5, <3>1, <4>1
    <3>. QED  BY <1>8, <3>1
  <2>. QED  BY <1>1, <1>2, <1>5, <2>1, InBlock
<1>9. ASSUME NEW b \in 0 .. counter', b * Block + Block <= counter'
      PROVE  \E o \in b * Block .. b * Block + Block - 1 : OddIs(sent', b, o)
  <2>1. b \in Nat /\ b * Block \in Nat
    BY <1>1, <1>2, InBlock
  <2>2. CASE b * Block + Block <= counter
    <3>1. b \in 0 .. counter
      <4>1. b <= b * Block
        BY <1>2, <2>1
      <4>. QED  BY <1>2, <2>1, <2>2, <4>1
    <3>2. PICK o \in b * Block .. b * Block + Block - 1 : OddIs(sent, b, o)
      BY <2>2, <3>1 DEF OddInv
    <3>3. counter \div Block # b
      BY <1>2, <2>1, <2>2, InBlock
    <3>4. OddIs(sent', b, o)
      BY <1>1, <1>4, <3>2, <3>3 DEF OddIs
    <3>. QED  BY <3>4
  <2>3. CASE b * Block + Block = counter + 1
    <3>1. counter \div Block = b
      BY <1>2, <2>1, <2>3, InBlock
    <3>2. b = q
      BY <3>1 DEF q
    <3>3. randCounter' \in b * Block .. b * Block + Block - 1
      <4>1. /\ b * Block <= randCounter'
            /\ randCounter' < b * Block + Block
        BY <1>3, <1>7, <2>1, <3>2, InBlock
      <4>. QED  BY <1>2, <1>3, <2>1, <4>1
    <3>. QED  BY <1>7, <3>2, <3>3
  <2>. QED  BY <1>1, <1>2, <1>9, <2>1, <2>2, <2>3
<1>10. counter' % Block # 0 =>
         /\ randCounter' \div Block = counter' \div Block
         /\ OddIs(sent', counter' \div Block, randCounter')
  BY <1>7, <1>8
<1>. QED  BY <1>0, <1>9, <1>10 DEF OddInv, OddIs

-----------------------------------------------------------------------------
(* The actions *)

LEMMA InitClient == ClientInit => ClientInv
<1>. SUFFICES ASSUME ClientInit  PROVE ClientInv
  OBVIOUS
<1>1. ClientTypes
  BY FS_EmptySet, ClientAssumption DEF ClientInit, ClientTypes, MainType
<1>2. WindowInv /\ CountInv
  BY FS_EmptySet DEF ClientInit, WindowInv, CountInv, Handled
<1>3. DoneInv /\ NumberInv
  <2>1. counter = 0 /\ 0 .. counter - 1 = {} /\ sent = {}
    BY DEF ClientInit
  <2>2. NumberInv
    BY <2>1 DEF NumberInv
  <2>. QED  BY <2>2 DEF ClientInit, DoneInv
<1>4. OddInv
  <2>1. ASSUME NEW b \in 0 .. counter, b * Block + Block <= counter
        PROVE  FALSE
    <3>1. b * Block \in Nat /\ Block > 0 /\ Block \in Nat
      BY <1>1, InBlock, ClientAssumption DEF ClientTypes
    <3>. QED  BY <2>1, <3>1 DEF ClientInit
  <2>2. counter % Block = 0
    <3>1. Block \in Nat /\ Block > 0
      BY ClientAssumption
    <3>. QED  BY <3>1 DEF ClientInit
  <2>. QED  BY <2>1, <2>2 DEF OddInv
<1>. QED  BY <1>1, <1>2, <1>3, <1>4 DEF ClientInv

\* The numbers depend on what the locked region changes, and on nothing else.
LEMMA SameNumbers ==
  ASSUME NumberInv, OddInv, UNCHANGED <<ratio, counter, randCounter, sent>>
  PROVE  NumberInv' /\ OddInv'
<1>1. NumberInv'
  BY DEF NumberInv
<1>2. \A b, o : OddIs(sent, b, o) <=> OddIs(sent, b, o)'
  BY DEF OddIs, WriteOrRead
<1>3. OddInv'
  BY <1>2 DEF OddInv
<1>. QED  BY <1>1, <1>3

LEMMA MainMoves ==
  ASSUME main \in MainType, NEW at \in {"issue", "sample"}, NEW i \in Nat,
         main' = [main EXCEPT !.at = at, !.i = i]
  PROVE  /\ main' \in MainType /\ main'.i = i /\ main'.at = at
         /\ main'.before = main.before
  BY DEF MainType

LEMMA IssueKeeps ==
  ASSUME ClientInv, Issue
  PROVE  ClientInv'
<1>. USE DEF ClientInv
<1>1. /\ counter' \in Nat /\ randCounter' \in Nat
      /\ sent' \in SUBSET Name /\ IsFiniteSet(sent')
      /\ inFlight' \in SUBSET sent'
      /\ Cardinality(sent') = Cardinality(sent) + 1
      /\ Cardinality(inFlight') = Cardinality(inFlight) + 1
      /\ NumberInv' /\ OddInv'
  BY IssueNumbers, IssueMixes DEF Issue
<1>2. /\ Cardinality(sent) \in Nat /\ Cardinality(inFlight) \in Nat
  BY FS_Subset, FS_CardinalityType DEF ClientTypes
<1>3. /\ main'.i = main.i + 1 /\ main'.at \in {"issue", "sample"}
      /\ main'.before = main.before
      /\ main' \in MainType
  <2>. DEFINE at == IF mode = 1 THEN "sample" ELSE main.at
  <2>1. main' = [main EXCEPT !.at = at, !.i = main.i + 1]
    BY DEF Issue
  <2>2. at \in {"issue", "sample"} /\ main.i + 1 \in Nat
    BY DEF Issue, ClientTypes, MainType
  <2>. HIDE DEF at
  <2>3. main \in MainType
    BY DEF ClientTypes
  <2>4. /\ main' \in MainType /\ main'.i = main.i + 1 /\ main'.at = at
        /\ main'.before = main.before
    BY <2>1, <2>2, <2>3, MainMoves
  <2>. QED  BY <2>2, <2>4
<1>4. UNCHANGED <<mode, ratio, recording, done, thr, throughputs, reported,
                  loop, lost, late>>
  BY DEF Issue, measureVars
<1>5. ClientTypes'
  BY <1>1, <1>3, <1>4 DEF ClientTypes
<1>6. WindowInv'
  BY <1>1, <1>2, <1>3, <1>4 DEF WindowInv, Handled, ClientTypes
<1>7. DoneInv'
  BY <1>3, <1>4 DEF DoneInv
<1>8. CountInv'
  BY <1>1, <1>2, <1>3, <1>4 DEF CountInv, ClientTypes
<1>. QED  BY <1>1, <1>5, <1>6, <1>7, <1>8

LEMMA SendNextKeeps ==
  ASSUME ClientInv, SendNext
  PROVE  ClientInv'
<1>. USE DEF ClientInv
<1>1. /\ counter' \in Nat /\ randCounter' \in Nat
      /\ sent' \in SUBSET Name /\ IsFiniteSet(sent')
      /\ inFlight' \in SUBSET sent'
      /\ Cardinality(sent') = Cardinality(sent) + 1
      /\ Cardinality(inFlight') = Cardinality(inFlight) + 1
      /\ NumberInv' /\ OddInv'
  BY IssueNumbers, IssueMixes DEF SendNext
<1>2. /\ Cardinality(sent) \in Nat /\ Cardinality(inFlight) \in Nat
  BY FS_Subset, FS_CardinalityType DEF ClientTypes
<1>3. UNCHANGED <<mode, ratio, recording, done, thr, throughputs, reported,
                  main, lost>>
  BY DEF SendNext, measureVars
<1>4. /\ loop = "next" /\ loop' = "idle"
      /\ late' = IF done THEN late + 1 ELSE late
  BY DEF SendNext
<1>5. ClientTypes'
  BY <1>1, <1>3, <1>4 DEF ClientTypes
<1>6. WindowInv'
  BY <1>1, <1>2, <1>3, <1>4 DEF WindowInv, Handled, ClientTypes
<1>7. DoneInv'
  BY <1>3, <1>4 DEF DoneInv
<1>8. CountInv'
  BY <1>1, <1>2, <1>3, <1>4 DEF CountInv, ClientTypes
<1>. QED  BY <1>1, <1>5, <1>6, <1>7, <1>8

\* An entry appended to a sequence
LEMMA Appended ==
  ASSUME NEW q \in Seq(Nat), NEW x \in Nat, NEW y \in Nat, y <= x,
         \A i \in DOMAIN q : q[i] <= y,
         \A i, j \in DOMAIN q : i <= j => q[i] <= q[j]
  PROVE  /\ Append(q, x) \in Seq(Nat)
         /\ \A i \in DOMAIN Append(q, x) : Append(q, x)[i] <= x
         /\ \A i, j \in DOMAIN Append(q, x) :
              i <= j => Append(q, x)[i] <= Append(q, x)[j]
<1>. DEFINE p == Append(q, x)
<1>1. /\ p \in Seq(Nat) /\ DOMAIN p = 1 .. Len(q) + 1
      /\ DOMAIN q = 1 .. Len(q) /\ Len(q) \in Nat
      /\ p[Len(q) + 1] = x /\ \A i \in 1 .. Len(q) : p[i] = q[i]
  OBVIOUS
<1>2. \A i \in DOMAIN q : q[i] \in Nat
  OBVIOUS
<1>. HIDE DEF p
<1>3. \A i \in DOMAIN p : p[i] <= x
  BY <1>1, <1>2
<1>4. ASSUME NEW i \in DOMAIN p, NEW j \in DOMAIN p, i <= j
      PROVE  p[i] <= p[j]
  <2>1. CASE j = Len(q) + 1
    BY <1>1, <1>3, <2>1
  <2>2. CASE j # Len(q) + 1
    <3>1. i \in DOMAIN q /\ j \in DOMAIN q
      BY <1>1, <1>4, <2>2
    <3>2. p[i] = q[i] /\ p[j] = q[j]
      BY <1>1, <3>1
    <3>. QED  BY <1>4, <3>1, <3>2
  <2>. QED  BY <2>1, <2>2
<1>. QED  BY <1>1, <1>3, <1>4 DEF p

LEMMA SampleKeeps ==
  ASSUME ClientInv, Sample
  PROVE  ClientInv'
<1>. USE DEF ClientInv
<1>1. /\ main'.i = main.i /\ main'.at = "issue" /\ main'.before = main.before
      /\ main' \in MainType
  BY DEF Sample, ClientTypes, MainType
<1>2. UNCHANGED <<mode, ratio, issueVars, recording, done, thr, reported, loop,
                  lost, late>>
  BY DEF Sample
<1>3. throughputs' = Append(throughputs, thr) /\ throughputs' \in Seq(Nat)
  BY DEF Sample, ClientTypes
<1>4. ClientTypes'
  BY <1>1, <1>2, <1>3 DEF ClientTypes, issueVars
<1>5. WindowInv' /\ DoneInv'
  BY <1>1, <1>2 DEF WindowInv, DoneInv, Handled, issueVars
<1>6. NumberInv' /\ OddInv'
  BY <1>2, SameNumbers DEF issueVars
<1>7. CountInv'
  <2>1. mode = 1 =>
          /\ \A i \in DOMAIN throughputs' : throughputs'[i] <= thr
          /\ \A i, j \in DOMAIN throughputs' :
               i <= j => throughputs'[i] <= throughputs'[j]
    BY <1>3, Appended DEF CountInv, ClientTypes
  <2>. QED  BY <1>1, <1>2, <2>1 DEF CountInv, issueVars
<1>. QED  BY <1>4, <1>5, <1>6, <1>7

\* The steps of the measuring that record nothing leave the counts alone.
LEMMA QuietKeeps ==
  ASSUME ClientInv,
         UNCHANGED <<mode, ratio, issueVars, thr, throughputs, reported, loop,
                     lost, late>>,
         main' \in MainType, main'.i = main.i,
         done' \in BOOLEAN, recording' \in BOOLEAN, done => done',
         mode = 1 => main'.at \in {"issue", "sample", "stopped"},
         main'.at = "after" => main'.before = thr
  PROVE  ClientInv'
<1>. USE DEF ClientInv
<1>1. ClientTypes'
  BY DEF ClientTypes, issueVars
<1>2. WindowInv'
  BY DEF ClientTypes, WindowInv, Handled, issueVars
<1>3. DoneInv'
  BY DEF ClientTypes, DoneInv
<1>4. NumberInv' /\ OddInv'
  BY SameNumbers DEF issueVars
<1>5. CountInv'
  BY DEF ClientTypes, CountInv, issueVars
<1>. QED  BY <1>1, <1>2, <1>3, <1>4, <1>5

LEMMA MeasureKeeps ==
  ASSUME ClientInv, Measure
  PROVE  ClientInv'
<1>0. main \in MainType /\ done \in BOOLEAN /\ recording \in BOOLEAN
  BY DEF ClientInv, ClientTypes
<1>1. mode = 1 => main.at \in {"issue", "sample", "stopped"}
  BY DEF ClientInv, DoneInv
<1>2. CASE StartRecording
  <2>1. main' \in MainType /\ main'.i = main.i /\ main'.at = "before"
    BY <1>0, <1>2 DEF StartRecording, MainType
  <2>. QED  BY <1>0, <1>2, <2>1, QuietKeeps DEF StartRecording
<1>3. CASE PunchBefore
  <2>1. /\ main' \in MainType /\ main'.i = main.i /\ main'.at = "after"
        /\ main'.before = thr
    <3>1. thr \in Nat
      BY DEF ClientInv, ClientTypes
    <3>. QED  BY <1>0, <1>3, <3>1 DEF PunchBefore, MainType
  <2>. QED  BY <1>0, <1>1, <1>3, <2>1, QuietKeeps DEF PunchBefore, measureVars
<1>4. CASE Finish
  <2>1. main' \in MainType /\ main'.i = main.i /\ main'.at = "stop"
    BY <1>0, <1>4 DEF Finish, MainType
  <2>. QED  BY <1>0, <1>1, <1>4, <2>1, QuietKeeps DEF Finish
<1>5. CASE Stop
  <2>1. main' \in MainType /\ main'.i = main.i /\ main'.at = "stopped"
    BY <1>0, <1>5 DEF Stop, MainType
  <2>. QED  BY <1>0, <1>5, <2>1, QuietKeeps DEF Stop, measureVars
<1>6. CASE PunchAfter
  <2>. USE DEF ClientInv
  <2>1. /\ main' \in MainType /\ main'.i = main.i /\ main'.at = "before"
        /\ main.at = "after"
    BY <1>0, <1>6 DEF PunchAfter, MainType
  <2>2. UNCHANGED <<mode, ratio, issueVars, recording, done, thr, loop, lost,
                    late>>
    BY <1>6 DEF PunchAfter
  <2>3. thr - main.before \in Nat /\ reported + (thr - main.before) <= thr
    BY <1>0, <2>1 DEF CountInv, ClientTypes, MainType
  <2>4. throughputs' \in Seq(Nat) /\ reported' \in Nat /\ reported' <= thr
    BY <1>6, <2>3 DEF PunchAfter, ClientTypes
  <2>5. mode # 1
    BY <1>1, <2>1
  <2>6. ClientTypes'
    BY <2>1, <2>2, <2>4 DEF ClientTypes, issueVars
  <2>7. WindowInv' /\ DoneInv'
    BY <2>1, <2>2, <2>5 DEF WindowInv, DoneInv, Handled, issueVars
  <2>8. NumberInv' /\ OddInv'
    BY <2>2, SameNumbers DEF issueVars
  <2>9. CountInv'
    BY <2>1, <2>2, <2>4, <2>5 DEF CountInv, issueVars
  <2>. QED  BY <2>6, <2>7, <2>8, <2>9
<1>. QED  BY <1>2, <1>3, <1>4, <1>5, <1>6, SampleKeeps DEF Measure

\* An Interest is answered or expires: one less is out, and it is counted once.
LEMMA AnswerKeeps ==
  ASSUME ClientInv, NEW n \in inFlight, OnData(n) \/ OnTimeout(n)
  PROVE  ClientInv'
<1>. USE DEF ClientInv
<1>1. /\ inFlight' = inFlight \ {n} /\ inFlight' \in SUBSET sent
      /\ Cardinality(inFlight') = Cardinality(inFlight) - 1
      /\ Cardinality(inFlight) \in Nat /\ Cardinality(inFlight') \in Nat
      /\ Cardinality(sent) \in Nat
  <2>1. IsFiniteSet(inFlight)
    BY FS_Subset DEF ClientTypes
  <2>2. inFlight' = inFlight \ {n}
    BY DEF OnData, OnTimeout
  <2>. QED  BY <2>1, <2>2, FS_RemoveElement, FS_CardinalityType
            DEF ClientTypes
<1>2. /\ UNCHANGED <<mode, ratio, counter, randCounter, sent, recording, done,
                     throughputs, reported, main, late>>
      /\ loop = "idle"
  BY DEF OnData, OnTimeout, measureVars
<1>3. \/ thr' \in {thr, thr + 1} /\ lost' = lost /\ loop' = "check"
      \/ thr' = thr /\ lost' = lost + 1 /\ loop' = "idle"
  BY DEF OnData, OnTimeout, measureVars
<1>4. thr \in Nat /\ lost \in Nat
  BY DEF ClientTypes
<1>5. ClientTypes'
  BY <1>1, <1>2, <1>3, <1>4 DEF ClientTypes
<1>6. WindowInv'
  BY <1>1, <1>2, <1>3, <1>4 DEF WindowInv, Handled, ClientTypes, MainType
<1>7. DoneInv'
  BY <1>2, <1>3 DEF DoneInv
<1>8. NumberInv' /\ OddInv'
  BY <1>2, SameNumbers
<1>9. CountInv'
  <2>1. thr <= thr' /\ thr' \in Nat
    BY <1>3, <1>4
  <2>2. thr' + Cardinality(inFlight') + lost' <= Cardinality(sent')
    BY <1>1, <1>2, <1>3, <1>4 DEF CountInv
  <2>3. reported' <= thr'
    BY <1>2, <1>4, <2>1 DEF CountInv, ClientTypes
  <2>4. main'.at = "after" => reported' <= main'.before /\ main'.before <= thr'
    BY <1>2, <1>4, <2>1 DEF CountInv, ClientTypes, MainType
  <2>5. \A i \in DOMAIN throughputs : throughputs[i] \in Nat
    BY DEF ClientTypes
  <2>6. mode' = 1 =>
          /\ \A i \in DOMAIN throughputs' : throughputs'[i] <= thr'
          /\ \A i, j \in DOMAIN throughputs' :
               i <= j => throughputs'[i] <= throughputs'[j]
    BY <1>2, <1>4, <2>1, <2>5 DEF CountInv
  <2>. QED  BY <2>2, <2>3, <2>4, <2>6 DEF CountInv
<1>. QED  BY <1>5, <1>6, <1>7, <1>8, <1>9

LEMMA ReadDoneKeeps ==
  ASSUME ClientInv, ReadDone
  PROVE  ClientInv'
<1>. USE DEF ClientInv
<1>1. UNCHANGED <<mode, ratio, issueVars, measureVars, main, lost, late>>
  BY DEF ReadDone
<1>2. loop = "check" /\ loop' = IF done THEN "idle" ELSE "next"
  BY DEF ReadDone
<1>3. ClientTypes'
  BY <1>1, <1>2 DEF ClientTypes, issueVars, measureVars
<1>4. WindowInv' /\ DoneInv'
  BY <1>1, <1>2 DEF WindowInv, DoneInv, Handled, issueVars, measureVars
<1>5. NumberInv' /\ OddInv'
  BY <1>1, SameNumbers DEF issueVars
<1>6. CountInv'
  BY <1>1 DEF CountInv, issueVars, measureVars
<1>. QED  BY <1>3, <1>4, <1>5, <1>6

LEMMA NextClient == ClientInv /\ [ClientNext]_clientVars => ClientInv'
<1>. SUFFICES ASSUME ClientInv, [ClientNext]_clientVars  PROVE ClientInv'
  OBVIOUS
<1>1. CASE UNCHANGED clientVars
  <2>. USE DEF ClientInv
  <2>1. UNCHANGED <<mode, ratio, issueVars, measureVars, main, loop, lost,
                    late>>
    BY <1>1 DEF clientVars
  <2>2. ClientTypes'
    BY <2>1 DEF ClientTypes, issueVars, measureVars
  <2>3. WindowInv' /\ DoneInv' /\ CountInv'
    BY <2>1 DEF WindowInv, DoneInv, CountInv, Handled, issueVars, measureVars
  <2>4. NumberInv' /\ OddInv'
    BY <2>1, SameNumbers DEF issueVars
  <2>. QED  BY <2>2, <2>3, <2>4
<1>. QED  BY <1>1, IssueKeeps, MeasureKeeps, AnswerKeeps, ReadDoneKeeps,
             SendNextKeeps DEF ClientNext, Answer

LEMMA SpecClient == ClientSpec => []ClientInv
  BY InitClient, NextClient, PTL DEF ClientSpec

-----------------------------------------------------------------------------
(* The theorems *)

\* Whatever is lost, and whenever the two threads meet: until done_ only lost
\* Interests cost a place of the window (client.cpp:114, 260, 294).
THEOREM WindowIsAccounted == ClientSpec => []WindowAccounted
<1>1. ClientInv => WindowAccounted
  <2>. SUFFICES ASSUME ClientInv, ~done
       PROVE  Cardinality(inFlight) + lost + (Target - main.i) + Handled
                = Target
    BY DEF WindowAccounted, Handled
  <2>1. /\ lost \in Nat /\ main.i \in Nat /\ Handled \in Nat
        /\ IsFiniteSet(inFlight)
    BY FS_Subset DEF ClientInv, ClientTypes, MainType, Handled
  <2>2. Cardinality(inFlight) \in Nat /\ Target \in Nat
    BY <2>1, FS_CardinalityType, ClientAssumption DEF Target
  <2>3. Cardinality(inFlight) + lost + Handled = main.i
    BY DEF ClientInv, WindowInv
  <2>. QED  BY <2>1, <2>2, <2>3
<1>. QED  BY <1>1, SpecClient, PTL

\* done_ is read without a lock, and that costs one Interest at most, none in
\* MODE_TYPE 1 (client.cpp:110, 210, 294).
THEOREM OneIsLate == ClientSpec => []AtMostOneLate
<1>1. ClientInv => AtMostOneLate
  BY DEF ClientInv, ClientTypes, DoneInv, AtMostOneLate
<1>. QED  BY <1>1, SpecClient, PTL

\* Replies are counted once, by each second and by the running count
\* (client.cpp:159-162, 185-206).
THEOREM RepliesCountOnce == ClientSpec => []CountedOnce
<1>1. ClientInv => CountedOnce
  <2>. SUFFICES ASSUME ClientInv
       PROVE  thr <= Cardinality(sent) - Cardinality(inFlight) - lost
    BY DEF ClientInv, CountInv, CountedOnce
  <2>1. /\ thr \in Nat /\ lost \in Nat
        /\ Cardinality(sent) \in Nat /\ Cardinality(inFlight) \in Nat
    BY FS_Subset, FS_CardinalityType DEF ClientInv, ClientTypes
  <2>. QED  BY <2>1 DEF ClientInv, CountInv
<1>. QED  BY <1>1, SpecClient, PTL

\* The operations of a full block are Block many: their numbers are.
LEMMA BlockSize ==
  ASSUME ClientTypes, NumberInv, NEW b \in Nat,
         b * Block + Block <= counter
  PROVE  Cardinality({n \in sent : n.counter \div Block = b}) = Block
<1>. DEFINE block   == {n \in sent : n.counter \div Block = b}
            numbers == b * Block .. b * Block + Block - 1
            f       == [n \in block |-> n.counter]
<1>1. b * Block \in Nat /\ Block \in Nat /\ Block > 0 /\ counter \in Nat
  BY InBlock, ClientAssumption DEF ClientTypes
<1>2. \A n \in sent : n.counter \in Nat
  BY DEF ClientTypes, Name
<1>3. \A n \in sent : n \in block <=> n.counter \in numbers
  BY <1>1, <1>2, InBlock
<1>4. ASSUME NEW c \in numbers
      PROVE  \E n \in block : n.counter = c
  <2>1. c \in 0 .. counter - 1
    BY <1>1
  <2>. HIDE DEF block, numbers
  <2>2. PICK n \in sent : n.counter = c
    BY <2>1 DEF NumberInv
  <2>. QED  BY <1>3, <2>2
<1>5. ExistsBijection(block, numbers)
  <2>1. block \subseteq sent
    OBVIOUS
  <2>. HIDE DEF block, numbers
  <2>2. f \in [block -> numbers]
    BY <1>3, <2>1
  <2>3. \A m, n \in block : f[m] = f[n] => m = n
    BY <2>1 DEF NumberInv
  <2>4. \A c \in numbers : \E n \in block : f[n] = c
    BY <1>4
  <2>5. f \in Bijection(block, numbers)
    BY <2>2, <2>3, <2>4 DEF Bijection, Injection, Surjection, IsInjective
  <2>. QED  BY <2>5 DEF ExistsBijection
<1>6. IsFiniteSet(block)
  BY FS_Subset DEF ClientTypes
<1>7. Cardinality(numbers) = Block
  BY <1>1, FS_Interval
<1>. QED  BY <1>5, <1>6, <1>7, FS_Bijection

\* For every ratio between 0 and 100 each full block of operations has its one
\* odd operation, whichever thread drew it and whichever sent it
\* (client.cpp:125-147, 299-326).
THEOREM MixIsExact == ClientSpec => []OneOddPerBlock
<1>1. ClientInv => OneOddPerBlock
  <2>. SUFFICES ASSUME ClientInv,
                       NEW b \in 0 .. MaxCounter \div Block - 1,
                       counter >= (b + 1) * Block
       PROVE  LET block == {n \in sent : n.counter \div Block = b}
              IN  /\ Cardinality(block) = Block
                  /\ ratio \in 1 .. 99 => \E n \in block :
                       \A k \in block : k.type = n.type <=> k = n
    BY DEF OneOddPerBlock
  <2>. DEFINE block == {n \in sent : n.counter \div Block = b}
  <2>1. /\ b \in Nat /\ b * Block \in Nat /\ b * Block + Block <= counter
        /\ b <= counter
    <3>1. /\ counter \in Nat /\ Block \in Nat /\ Block > 0
          /\ MaxCounter \in Nat
      BY ClientAssumption DEF ClientInv, ClientTypes
    <3>2. b \in Nat
      BY <3>1, Division
    <3>3. b * Block \in Nat /\ (b + 1) * Block = b * Block + Block
      BY <3>1, <3>2
    <3>4. b <= b * Block
      BY <3>1, <3>2
    <3>. QED  BY <3>1, <3>2, <3>3, <3>4
  <2>2. Cardinality(block) = Block
    BY <2>1, BlockSize DEF ClientInv
  <2>3. ASSUME ratio \in 1 .. 99
        PROVE  \E n \in block : \A k \in block : k.type = n.type <=> k = n
    <3>1. PICK o \in b * Block .. b * Block + Block - 1 : OddIs(sent, b, o)
      BY <2>1, <2>3 DEF ClientInv, ClientTypes, OddInv
    <3>2. o \in 0 .. counter - 1 /\ o \div Block = b
      <4>1. counter \in Nat /\ Block \in Nat
        BY ClientAssumption DEF ClientInv, ClientTypes
      <4>. QED  BY <2>1, <3>1, <4>1, InBlock
    <3>3. PICK n \in sent : n.counter = o
      BY <3>2 DEF ClientInv, NumberInv
    <3>4. n \in block /\ n.type # WriteOrRead
      BY <3>1, <3>2, <3>3 DEF OddIs
    <3>5. ASSUME NEW k \in block, k.type = n.type  PROVE k = n
      <4>1. k \in sent /\ k.counter = o
        BY <3>1, <3>4, <3>5 DEF OddIs
      <4>. QED  BY <3>3, <4>1 DEF ClientInv, NumberInv
    <3>. QED  BY <3>4, <3>5
  <2>. QED  BY <2>2, <2>3
<1>. QED  BY <1>1, SpecClient, PTL
=============================================================================
