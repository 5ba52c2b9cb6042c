------------------------------- MODULE Client -------------------------------
(***************************************************************************)
(* The measuring client (client.cpp).  The main thread fills a window of   *)
(* Interests and takes the throughput; the event loop answers every Data   *)
(* with the next Interest.  A step is one locked region with what the      *)
(* thread does alone before the next one.  The network answers an Interest *)
(* with one Data, or lets it expire.                                       *)
(***************************************************************************)
EXTENDS Integers, FiniteSets, Sequences

CONSTANTS Mode,        \* values of MODE_TYPE, 0 if it is not defined
          Ratio,       \* values of ratio_: which part of the operations write
          ComWin,      \* com_win_
          OpenLoop,    \* bound: what MODE_TYPE 1 sets com_win_ to (10000)
          Block,       \* bound: one operation in so many is the odd one (10)
          Punches,     \* bound: rounds of measuring (interval * 4)
          MaxCounter   \* bound: operations issued

ASSUME ClientAssumption ==
  /\ Mode \subseteq 0 .. 2
  /\ Ratio \subseteq 0 .. 100
  /\ {ComWin, OpenLoop, Punches, MaxCounter} \subseteq Nat
  /\ Block \in Nat \ {0}

VARIABLES
  mode, ratio,   \* MODE_TYPE and ratio_, fixed
  counter,       \* commit_counter_
  randCounter,   \* rand_counter_
  recording, done,
  thr,           \* thr_counter_, the size of periods_
  throughputs,   \* throughputs_
  main,          \* the main thread: where it is, its i, its before
  loop,          \* where the event loop is in onData
  inFlight,      \* Interests expressed, without Data or timeout yet
  sent,          \* history: all Interests
  lost,          \* history: Interests that timed out
  late,          \* history: Interests sent although done_ was set
  reported       \* history: what the throughputs of the seconds add up to

issueVars   == <<counter, randCounter, inFlight, sent>>
measureVars == <<recording, done, thr, throughputs, reported>>
clientVars  == <<mode, ratio, issueVars, measureVars, main, loop, lost, late>>

\* com_win_ as the loop of start_commit sees it
Target == IF mode = 1 THEN OpenLoop ELSE ComWin

\* In MODE_TYPE 1 start_commit sets both flags before its first Interest.
ClientInit ==
  /\ mode \in Mode
  /\ ratio \in Ratio
  /\ counter = 0 /\ randCounter = 0
  /\ recording = (mode = 1) /\ done = (mode = 1)
  /\ thr = 0 /\ throughputs = <<>> /\ reported = 0
  /\ main = [at |-> "issue", i |-> 0, before |-> 0]
  /\ loop = "idle"
  /\ inFlight = {} /\ sent = {}
  /\ lost = 0 /\ late = 0

-----------------------------------------------------------------------------
(* The region of counter_mut_ and consume *)

WriteOrRead == IF ratio = 10 THEN 1 ELSE 0

TypeOf(c, odd) ==
  IF ratio >= 100 THEN WriteOrRead
  ELSE IF ratio = 0 THEN 1
  ELSE IF c = odd THEN 1 - WriteOrRead ELSE WriteOrRead

\* Mutant: the odd operation is drawn from 1 .. Block.
DrawOdd_OffByOne == \E r \in 1 .. Block :
  randCounter' = IF ratio \in 1 .. 99 /\ counter % Block = 0 THEN counter + r
                                                             ELSE randCounter

\* At the start of a block the odd operation of it is drawn.
DrawOdd == \E r \in 0 .. Block - 1 :
  randCounter' = IF ratio \in 1 .. 99 /\ counter % Block = 0 THEN counter + r
                                                             ELSE randCounter

\* The name of an Interest is its type and its number; client_id, which place
\* of the window it fills, is only copied.
NextInterest ==
  /\ counter < MaxCounter
  /\ DrawOdd
  /\ counter' = counter + 1
  /\ LET name == [type |-> TypeOf(counter, randCounter'), counter |-> counter]
     IN  /\ inFlight' = inFlight \cup {name}
         /\ sent' = sent \cup {name}

-----------------------------------------------------------------------------
(* The main thread: start_commit *)

Issue ==
  /\ main.at = "issue"
  /\ main.i < Target
  /\ NextInterest
  /\ main' = [main EXCEPT !.at = IF mode = 1 THEN "sample" ELSE @, !.i = @ + 1]
  /\ UNCHANGED <<mode, ratio, measureVars, loop, lost, late>>

\* MODE_TYPE 1: the count so far, after each Interest
Sample ==
  /\ main.at = "sample"
  /\ throughputs' = Append(throughputs, thr)
  /\ main' = [main EXCEPT !.at = "issue"]
  /\ UNCHANGED <<mode, ratio, issueVars, recording, done, thr, reported, loop,
                 lost, late>>

StartRecording ==
  /\ main.at = "issue" /\ main.i = Target /\ mode > 1
  /\ recording' = TRUE
  /\ main' = [main EXCEPT !.at = "before"]
  /\ UNCHANGED <<mode, ratio, issueVars, done, thr, throughputs, reported, loop,
                 lost, late>>

\* Mutant: before is taken only once.
PunchBefore_Once ==
  /\ main.at = "before"
  /\ Len(throughputs) < Punches
  /\ main' = [main EXCEPT !.at = "after",
                          !.before = IF throughputs = <<>> THEN thr ELSE @]
  /\ UNCHANGED <<mode, ratio, issueVars, measureVars, loop, lost, late>>

\* The second of sleep is between these two.
PunchBefore ==
  /\ main.at = "before"
  /\ Len(throughputs) < Punches
  /\ main' = [main EXCEPT !.at = "after", !.before = thr]
  /\ UNCHANGED <<mode, ratio, issueVars, measureVars, loop, lost, late>>

PunchAfter ==
  /\ main.at = "after"
  /\ throughputs' = Append(throughputs, thr - main.before)
  /\ reported' = reported + (thr - main.before)
  /\ main' = [main EXCEPT !.at = "before"]
  /\ UNCHANGED <<mode, ratio, issueVars, recording, done, thr, loop, lost, late>>

Finish ==
  /\ main.at = "before"
  /\ Len(throughputs) = Punches
  /\ recording' = FALSE
  /\ done' = TRUE
  /\ main' = [main EXCEPT !.at = "stop"]
  /\ UNCHANGED <<mode, ratio, issueVars, thr, throughputs, reported, loop, lost,
                 late>>

\* stop(): the face is shut down.
Stop ==
  /\ \/ main.at = "stop"
     \/ main.at = "issue" /\ main.i = Target /\ mode <= 1
  /\ main' = [main EXCEPT !.at = "stopped"]
  /\ UNCHANGED <<mode, ratio, issueVars, measureVars, loop, lost, late>>

-----------------------------------------------------------------------------
(* The event loop: onData and onTimeout *)

\* A Data arrives; the region of thr_mut_
OnData(n) ==
  /\ main.at # "stopped"
  /\ loop = "idle"
  /\ n \in inFlight
  /\ inFlight' = inFlight \ {n}
  /\ thr' = IF recording THEN thr + 1 ELSE thr
  /\ loop' = "check"
  /\ UNCHANGED <<mode, ratio, counter, randCounter, sent, recording, done,
                 throughputs, reported, main, lost, late>>

\* Mutant: the flag read is recording_.
ReadDone_WrongFlag ==
  /\ loop = "check"
  /\ loop' = IF recording THEN "next" ELSE "idle"
  /\ UNCHANGED <<mode, ratio, issueVars, measureVars, main, lost, late>>

\* Mutant: done_ is not looked at.
ReadDone_Never ==
  /\ loop = "check"
  /\ loop' = "next"
  /\ UNCHANGED <<mode, ratio, issueVars, measureVars, main, lost, late>>

\* done_ is read without a lock.
ReadDone ==
  /\ loop = "check"
  /\ loop' = IF done THEN "idle" ELSE "next"
  /\ UNCHANGED <<mode, ratio, issueVars, measureVars, main, lost, late>>

SendNext ==
  /\ loop = "next"
  /\ NextInterest
  /\ loop' = "idle"
  /\ late' = IF done THEN late + 1 ELSE late
  /\ UNCHANGED <<mode, ratio, measureVars, main, lost>>

\* onTimeout does nothing.
OnTimeout(n) ==
  /\ main.at # "stopped"
  /\ loop = "idle"
  /\ n \in inFlight
  /\ inFlight' = inFlight \ {n}
  /\ lost' = lost + 1
  /\ UNCHANGED <<mode, ratio, counter, randCounter, sent, measureVars, main,
                 loop, late>>

-----------------------------------------------------------------------------
Answer == \E n \in inFlight : OnData(n) \/ OnTimeout(n)

Measure == \/ Sample \/ StartRecording \/ PunchBefore \/ PunchAfter
           \/ Finish \/ Stop

ClientNext == Issue \/ Measure \/ Answer \/ ReadDone \/ SendNext

ClientSpec == ClientInit /\ [][ClientNext]_clientVars

\* The main thread fills the window, an Interest is answered or expires, and
\* the event loop goes on.  How long the measuring takes is left open.
ClientFairSpec ==
  /\ ClientSpec
  /\ WF_clientVars(Issue \/ Sample)
  /\ WF_clientVars(Answer) /\ WF_clientVars(ReadDone \/ SendNext)

-----------------------------------------------------------------------------
(* Properties *)

\* Until done_ every place of the window is accounted for: an Interest is out,
\* its Data is being handled, it was lost, or it is still to be filled.  So a
\* lost Interest is the only way to lose a place (client.cpp:114, 260, 294).
WindowAccounted ==
  LET places  == Cardinality(inFlight) + lost + (Target - main.i)
      handled == IF loop = "idle" THEN 0 ELSE 1
  IN  ~done => places + handled = Target

\* The two threads number operations and draw the odd one in turns; still a
\* number is used once, and a full block has exactly one odd operation
\* (client.cpp:125-147, 299-326).
OneOddPerBlock == \A b \in 0 .. MaxCounter \div Block - 1 :
  LET block == {n \in sent : n.counter \div Block = b}
  IN  counter >= (b + 1) * Block =>
        /\ Cardinality(block) = Block
        /\ ratio \in 1 .. 99 =>
             \E n \in block : \A k \in block : k.type = n.type <=> k = n

\* done_ is read unlocked, but at most one Interest goes out after it is set,
\* and none answers a Data in MODE_TYPE 1 (client.cpp:110, 210, 294).
AtMostOneLate == late <= IF mode = 1 THEN 0 ELSE 1

\* The throughputs written to the file count replies once: those of disjoint
\* seconds add up to no more than the replies recorded, and a running count
\* never goes back (client.cpp:159-162, 185-206).
CountedOnce ==
  /\ thr <= Cardinality(sent) - Cardinality(inFlight) - lost
  /\ mode > 1 => reported <= thr
  /\ mode = 1 => \A i, j \in DOMAIN throughputs :
                    i <= j => throughputs[i] <= throughputs[j]

\* As long as a place of the window is left, the load goes on until the client
\* is done (client.cpp:264-329).
LoadGoesOn == \A k \in 1 .. MaxCounter - 1 :
  (counter = k) ~> \/ counter > k \/ done
                   \/ main.at = "stopped" \/ lost >= ComWin
=============================================================================
