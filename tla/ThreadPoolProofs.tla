-------------------------- MODULE ThreadPoolProofs --------------------------
(***************************************************************************)
(* For any number of workers, tasks and callers and any use of resize: the *)
(* pool's two counters match its threads, no wake-up is lost, waiting ends *)
(* only when the pool is quiet, and the pool implements the executor.      *)
(***************************************************************************)
EXTENDS ThreadPool, FiniteSetTheorems, TLAPS

\* In, for the places f gives the workers
Placed(f, places) == {w \in Worker : f[w] \in places}

Live   == {"loop", "idle", "woken", "run", "leaving", "dying"}
Busy   == {"loop", "run", "leaving", "dying"}
Coming == {"loop", "woken"}

PoolTypeOK ==
  /\ at \in [Worker -> WorkerPlace]
  /\ queue \in Seq(Task)
  /\ job \in [Worker -> Task \cup {NoTask}]
  /\ target \in Nat

\* Workers sleep only while there are not too many of them: whoever lowers
\* the target below their number wakes them all.
SleepOnlyIfWanted == workerCount > target => Placed(at, {"idle"}) = {}

PoolInv ==
  /\ PoolTypeOK
  /\ workerCount = Cardinality(Placed(at, Live))
  /\ active = Cardinality(Placed(at, Busy))
  /\ SleepOnlyIfWanted
  /\ Placed(at, {"idle"}) # {} => Len(queue) <= Cardinality(Placed(at, Coming))

-----------------------------------------------------------------------------
(* Places and their counts *)

\* The workers at given places are finitely many.
LEMMA PlacedFinite ==
  ASSUME NEW f, NEW P
  PROVE  /\ IsFiniteSet(Placed(f, P))
         /\ Cardinality(Placed(f, P)) \in Nat
<1>1. Placed(f, P) \subseteq Worker
  BY DEF Placed
<1>2. IsFiniteSet(Placed(f, P))
  BY <1>1, PoolAssumption, FS_Subset
<1>. QED  BY <1>2, FS_CardinalityType

\* g is f after worker w moved to place p.
Moved(f, g, w, p) ==
  /\ f \in [Worker -> WorkerPlace]
  /\ w \in Worker
  /\ p \in WorkerPlace
  /\ g = [f EXCEPT ![w] = p]

\* The worker moves inside P ...
LEMMA MoveInside ==
  ASSUME NEW f, NEW g, NEW w, NEW p, NEW P, Moved(f, g, w, p),
         p \in P, f[w] \in P
  PROVE  Cardinality(Placed(g, P)) = Cardinality(Placed(f, P))
<1>1. Placed(g, P) = Placed(f, P)
  BY DEF Moved, Placed
<1>. QED  BY <1>1, Zenon

\* ... or outside of it ...
LEMMA MoveOutside ==
  ASSUME NEW f, NEW g, NEW w, NEW p, NEW P, Moved(f, g, w, p),
         p \notin P, f[w] \notin P
  PROVE  Cardinality(Placed(g, P)) = Cardinality(Placed(f, P))
<1>1. Placed(g, P) = Placed(f, P)
  BY DEF Moved, Placed
<1>. QED  BY <1>1, Zenon

\* ... or into it ...
LEMMA MoveIn ==
  ASSUME NEW f, NEW g, NEW w, NEW p, NEW P, Moved(f, g, w, p),
         p \in P, f[w] \notin P
  PROVE  Cardinality(Placed(g, P)) = Cardinality(Placed(f, P)) + 1
<1>1. Placed(g, P) = Placed(f, P) \cup {w}
  BY DEF Moved, Placed
<1>2. w \notin Placed(f, P) /\ IsFiniteSet(Placed(f, P))
  BY PlacedFinite DEF Moved, Placed
<1>3. Cardinality(Placed(f, P) \cup {w}) = Cardinality(Placed(f, P)) + 1
  BY <1>2, FS_AddElement
<1>. QED  BY <1>1, <1>3, Zenon

\* ... or out of it.
LEMMA MoveOut ==
  ASSUME NEW f, NEW g, NEW w, NEW p, NEW P, Moved(f, g, w, p),
         p \notin P, f[w] \in P
  PROVE  Cardinality(Placed(g, P)) = Cardinality(Placed(f, P)) - 1
<1>1. Placed(g, P) = Placed(f, P) \ {w}
  BY DEF Moved, Placed
<1>2. w \in Placed(f, P) /\ IsFiniteSet(Placed(f, P))
  BY PlacedFinite DEF Moved, Placed
<1>3. Cardinality(Placed(f, P) \ {w}) = Cardinality(Placed(f, P)) - 1
  BY <1>2, FS_RemoveElement
<1>. QED  BY <1>1, <1>3, Zenon

\* A worker that does not fall asleep leaves nobody asleep who was not.
LEMMA MoveAwake ==
  ASSUME NEW f, NEW g, NEW w, NEW p, Moved(f, g, w, p), p # "idle"
  PROVE  Placed(g, {"idle"}) \subseteq Placed(f, {"idle"})
BY DEF Moved, Placed

\* New workers begin in the loop.
LEMMA Grow ==
  ASSUME NEW f \in [Worker -> WorkerPlace],
         NEW new \in SUBSET Placed(f, {"none"}), NEW P,
         "loop" \in P, "none" \notin P
  PROVE  /\ Cardinality(new) \in Nat
         /\ Cardinality(Placed([w \in Worker |-> IF w \in new THEN "loop"
                                                 ELSE f[w]], P)) =
              Cardinality(Placed(f, P)) + Cardinality(new)
<1>. DEFINE g == [w \in Worker |-> IF w \in new THEN "loop" ELSE f[w]]
            old == Placed(f, P)
<1>1. /\ IsFiniteSet(old) /\ Cardinality(old) \in Nat
      /\ IsFiniteSet(Placed(f, {"none"}))
  BY PlacedFinite
<1>2. IsFiniteSet(new) /\ Cardinality(new) \in Nat
  BY <1>1, FS_Subset, FS_CardinalityType
<1>3. Placed(g, P) = old \cup new
  BY DEF Placed
<1>4. old \cap new = {}
  BY DEF Placed
<1>5. Cardinality(old \cup new) =
        Cardinality(old) + Cardinality(new) - Cardinality(old \cap new)
  BY <1>1, <1>2, FS_Union
<1>6. Cardinality(old \cap new) = 0
  BY <1>4, FS_EmptySet
<1>7. Cardinality(old \cup new) = Cardinality(old) + Cardinality(new)
  <2>. HIDE DEF old
  <2>. QED  BY <1>1, <1>2, <1>5, <1>6
<1>. QED  BY <1>2, <1>3, <1>7, Zenon

\* notify_all on the task event
LEMMA WakeAll ==
  ASSUME NEW f \in [Worker -> WorkerPlace], NEW g,
         g = [w \in Worker |-> IF f[w] = "idle" THEN "woken" ELSE f[w]]
  PROVE  /\ g \in [Worker -> WorkerPlace]
         /\ Placed(g, Live) = Placed(f, Live)
         /\ Placed(g, Busy) = Placed(f, Busy)
         /\ Placed(g, {"idle"}) = {}
BY DEF Placed, Live, Busy, WorkerPlace
-----------------------------------------------------------------------------
(* Every step keeps the invariant *)

\* A step that leaves workers, counters and queue alone
LEMMA NothingKeeps ==
  ASSUME PoolInv, UNCHANGED <<queue, counters, at, job>>
  PROVE  PoolInv'
BY DEF PoolInv, PoolTypeOK, SleepOnlyIfWanted, Placed, counters

\* A sleeping worker is notified for every new task.
LEMMA ScheduleKeeps ==
  ASSUME PoolInv, NEW t \in Task, Schedule(t)
  PROVE  PoolInv'
<1>. USE DEF Schedule, counters
<1>1. /\ at \in [Worker -> WorkerPlace] /\ queue \in Seq(Task)
      /\ Len(queue) \in Nat /\ target \in Nat
      /\ job \in [Worker -> Task \cup {NoTask}]
      /\ Cardinality(Placed(at, Live)) \in Nat
      /\ Cardinality(Placed(at, Busy)) \in Nat
      /\ Cardinality(Placed(at, Coming)) \in Nat
  BY PlacedFinite DEF PoolInv, PoolTypeOK
<1>2. /\ queue' \in Seq(Task) /\ Len(queue') = Len(queue) + 1
      /\ UNCHANGED <<workerCount, target, active, job>>
  BY <1>1
<1>3. CASE \E w \in In({"idle"}) : at' = [at EXCEPT ![w] = "woken"]
  <2>1. PICK w \in Worker : at[w] = "idle" /\ at' = [at EXCEPT ![w] = "woken"]
    BY <1>3 DEF In
  <2>2. Moved(at, at', w, "woken")
    BY <1>1, <2>1 DEF Moved, WorkerPlace
  <2>3. /\ "woken" \in Live /\ at[w] \in Live
        /\ "woken" \notin Busy /\ at[w] \notin Busy
        /\ "woken" \in Coming /\ at[w] \notin Coming
    BY <2>1 DEF Live, Busy, Coming
  <2>4. Cardinality(Placed(at', Live)) = Cardinality(Placed(at, Live))
    BY <2>2, <2>3, MoveInside
  <2>5. Cardinality(Placed(at', Busy)) = Cardinality(Placed(at, Busy))
    BY <2>2, <2>3, MoveOutside
  <2>6. Cardinality(Placed(at', Coming)) = Cardinality(Placed(at, Coming)) + 1
    BY <2>2, <2>3, MoveIn
  <2>7. /\ at' \in [Worker -> WorkerPlace]
        /\ Placed(at', {"idle"}) \subseteq Placed(at, {"idle"})
    BY <2>2, MoveAwake DEF Moved
  <2>8. Placed(at, {"idle"}) # {}
    BY <2>1 DEF Placed
  <2>. QED  BY <1>1, <1>2, <2>4, <2>5, <2>6, <2>7, <2>8
            DEF PoolInv, PoolTypeOK, SleepOnlyIfWanted
<1>4. CASE In({"idle"}) = {} /\ UNCHANGED at
  <2>1. Placed(at, {"idle"}) = {}
    BY <1>4 DEF Placed, In
  <2>. QED  BY <1>1, <1>2, <1>4, <2>1 DEF PoolInv, PoolTypeOK, SleepOnlyIfWanted
<1>. QED  BY <1>3, <1>4 DEF NotifyOne

\* An empty queue needs nobody.
LEMMA ClearKeeps ==
  ASSUME PoolInv, Clear
  PROVE  PoolInv'
<1>1. /\ at \in [Worker -> WorkerPlace] /\ queue \in Seq(Task)
      /\ Len(queue) \in Nat /\ target \in Nat
      /\ job \in [Worker -> Task \cup {NoTask}]
      /\ Cardinality(Placed(at, Live)) \in Nat
      /\ Cardinality(Placed(at, Busy)) \in Nat
      /\ Cardinality(Placed(at, Coming)) \in Nat
  BY PlacedFinite DEF PoolInv, PoolTypeOK
<1>2. queue' = <<>> /\ Len(queue') = 0 /\ UNCHANGED <<counters, at, job>>
  BY DEF Clear
<1>. QED  BY <1>1, <1>2 DEF PoolInv, PoolTypeOK, SleepOnlyIfWanted, counters

\* A worker goes into execute_task: it leaves only if all are awake, and
\* sleeps only when the queue is empty.
LEMMA EnterKeeps ==
  ASSUME PoolInv, NEW w \in Worker, Enter(w)
  PROVE  PoolInv'
<1>1. /\ at \in [Worker -> WorkerPlace] /\ queue \in Seq(Task)
      /\ Len(queue) \in Nat /\ target \in Nat
      /\ job \in [Worker -> Task \cup {NoTask}]
      /\ Cardinality(Placed(at, Live)) \in Nat
      /\ Cardinality(Placed(at, Busy)) \in Nat
      /\ Cardinality(Placed(at, Coming)) \in Nat
  BY PlacedFinite DEF PoolInv, PoolTypeOK
<1>2. at[w] = "loop" /\ UNCHANGED <<workerCount, target>>
  BY DEF Enter
<1>3. CASE Leave(w) /\ UNCHANGED active
  <2>1. /\ at[w] = "loop" /\ at' = [at EXCEPT ![w] = "leaving"]
        /\ workerCount > target /\ UNCHANGED <<queue, job>>
    BY <1>2, <1>3 DEF Leave
  <2>2. Moved(at, at', w, "leaving")
    BY <1>1, <2>1 DEF Moved, WorkerPlace
  <2>3. /\ "leaving" \in Live /\ at[w] \in Live
        /\ "leaving" \in Busy /\ at[w] \in Busy
        /\ "leaving" \notin Coming /\ at[w] \in Coming
    BY <2>1 DEF Live, Busy, Coming
  <2>4. Cardinality(Placed(at', Live)) = Cardinality(Placed(at, Live))
    BY <2>2, <2>3, MoveInside
  <2>5. Cardinality(Placed(at', Busy)) = Cardinality(Placed(at, Busy))
    BY <2>2, <2>3, MoveInside
  <2>6. Cardinality(Placed(at', Coming)) = Cardinality(Placed(at, Coming)) - 1
    BY <2>2, <2>3, MoveOut
  <2>7. /\ at' \in [Worker -> WorkerPlace]
        /\ Placed(at', {"idle"}) \subseteq Placed(at, {"idle"})
    BY <2>2, MoveAwake DEF Moved
  <2>8. Placed(at', {"idle"}) = {}
    BY <2>1, <2>7 DEF PoolInv, SleepOnlyIfWanted
  <2>. QED  BY <1>1, <1>2, <1>3, <2>1, <2>4, <2>5, <2>7, <2>8
            DEF PoolInv, PoolTypeOK, SleepOnlyIfWanted
<1>4. CASE workerCount <= target /\ Fetch(w) /\ UNCHANGED active
  <2>1. /\ at[w] = "loop" /\ at' = [at EXCEPT ![w] = "run"]
        /\ queue' = Tail(queue) /\ queue # <<>>
        /\ job' = [job EXCEPT ![w] = Head(queue)]
    BY <1>2, <1>4 DEF Fetch
  <2>2. Moved(at, at', w, "run")
    BY <1>1, <2>1 DEF Moved, WorkerPlace
  <2>3. /\ "run" \in Live /\ at[w] \in Live
        /\ "run" \in Busy /\ at[w] \in Busy
        /\ "run" \notin Coming /\ at[w] \in Coming
    BY <2>1 DEF Live, Busy, Coming
  <2>4. Cardinality(Placed(at', Live)) = Cardinality(Placed(at, Live))
    BY <2>2, <2>3, MoveInside
  <2>5. Cardinality(Placed(at', Busy)) = Cardinality(Placed(at, Busy))
    BY <2>2, <2>3, MoveInside
  <2>6. Cardinality(Placed(at', Coming)) = Cardinality(Placed(at, Coming)) - 1
    BY <2>2, <2>3, MoveOut
  <2>7. /\ at' \in [Worker -> WorkerPlace]
        /\ Placed(at', {"idle"}) \subseteq Placed(at, {"idle"})
    BY <2>2, MoveAwake DEF Moved
  <2>8. queue' \in Seq(Task) /\ Len(queue') = Len(queue) - 1 /\ Len(queue) > 0
    BY <1>1, <2>1
  <2>9. job' \in [Worker -> Task \cup {NoTask}]
    <3>1. Head(queue) \in Task
      BY <1>1, <2>1
    <3>. QED  BY <1>1, <2>1, <3>1
  <2>. QED  BY <1>1, <1>2, <1>4, <2>4, <2>5, <2>6, <2>7, <2>8, <2>9
            DEF PoolInv, PoolTypeOK, SleepOnlyIfWanted
<1>5. CASE workerCount <= target /\ GoIdle(w) /\ active' = active - 1
  <2>1. /\ at[w] = "loop" /\ at' = [at EXCEPT ![w] = "idle"]
        /\ workerCount <= target /\ queue = <<>> /\ UNCHANGED <<queue, job>>
    BY <1>2, <1>5 DEF GoIdle
  <2>2. Moved(at, at', w, "idle")
    BY <1>1, <2>1 DEF Moved, WorkerPlace
  <2>3. /\ "idle" \in Live /\ at[w] \in Live
        /\ "idle" \notin Busy /\ at[w] \in Busy
        /\ "idle" \notin Coming /\ at[w] \in Coming
    BY <2>1 DEF Live, Busy, Coming
  <2>4. Cardinality(Placed(at', Live)) = Cardinality(Placed(at, Live))
    BY <2>2, <2>3, MoveInside
  <2>5. Cardinality(Placed(at', Busy)) = Cardinality(Placed(at, Busy)) - 1
    BY <2>2, <2>3, MoveOut
  <2>6. Cardinality(Placed(at', Coming)) = Cardinality(Placed(at, Coming)) - 1
    BY <2>2, <2>3, MoveOut
  <2>7. at' \in [Worker -> WorkerPlace]
    BY <2>2 DEF Moved
  <2>8. Len(queue') = 0 /\ ~(workerCount' > target')
    BY <1>1, <1>2, <2>1 DEF PoolInv
  <2>9. Cardinality(Placed(at', Coming)) \in Nat
    BY PlacedFinite
  <2>. QED  BY <1>1, <1>2, <1>5, <2>1, <2>4, <2>5, <2>7, <2>8, <2>9
            DEF PoolInv, PoolTypeOK, SleepOnlyIfWanted
<1>. QED  BY <1>3, <1>4, <1>5 DEF Enter

\* The same after the wait.
LEMMA ResumeKeeps ==
  ASSUME PoolInv, NEW w \in Worker, Resume(w)
  PROVE  PoolInv'
<1>1. /\ at \in [Worker -> WorkerPlace] /\ queue \in Seq(Task)
      /\ Len(queue) \in Nat /\ target \in Nat
      /\ job \in [Worker -> Task \cup {NoTask}]
      /\ Cardinality(Placed(at, Live)) \in Nat
      /\ Cardinality(Placed(at, Busy)) \in Nat
      /\ Cardinality(Placed(at, Coming)) \in Nat
  BY PlacedFinite DEF PoolInv, PoolTypeOK
<1>2. at[w] = "woken" /\ UNCHANGED <<workerCount, target>>
  BY DEF Resume
<1>3. CASE queue = <<>> /\ Leave(w) /\ active' = active + 1
  <2>1. /\ at[w] = "woken" /\ at' = [at EXCEPT ![w] = "leaving"]
        /\ workerCount > target /\ UNCHANGED <<queue, job>>
    BY <1>2, <1>3 DEF Leave
  <2>2. Moved(at, at', w, "leaving")
    BY <1>1, <2>1 DEF Moved, WorkerPlace
  <2>3. /\ "leaving" \in Live /\ at[w] \in Live
        /\ "leaving" \in Busy /\ at[w] \notin Busy
        /\ "leaving" \notin Coming /\ at[w] \in Coming
    BY <2>1 DEF Live, Busy, Coming
  <2>4. Cardinality(Placed(at', Live)) = Cardinality(Placed(at, Live))
    BY <2>2, <2>3, MoveInside
  <2>5. Cardinality(Placed(at', Busy)) = Cardinality(Placed(at, Busy)) + 1
    BY <2>2, <2>3, MoveIn
  <2>6. Cardinality(Placed(at', Coming)) = Cardinality(Placed(at, Coming)) - 1
    BY <2>2, <2>3, MoveOut
  <2>7. /\ at' \in [Worker -> WorkerPlace]
        /\ Placed(at', {"idle"}) \subseteq Placed(at, {"idle"})
    BY <2>2, MoveAwake DEF Moved
  <2>8. Placed(at', {"idle"}) = {}
    BY <2>1, <2>7 DEF PoolInv, SleepOnlyIfWanted
  <2>. QED  BY <1>1, <1>2, <1>3, <2>1, <2>4, <2>5, <2>7, <2>8
            DEF PoolInv, PoolTypeOK, SleepOnlyIfWanted
<1>4. CASE Fetch(w) /\ active' = active + 1
  <2>1. /\ at[w] = "woken" /\ at' = [at EXCEPT ![w] = "run"]
        /\ queue' = Tail(queue) /\ queue # <<>>
        /\ job' = [job EXCEPT ![w] = Head(queue)]
    BY <1>2, <1>4 DEF Fetch
  <2>2. Moved(at, at', w, "run")
    BY <1>1, <2>1 DEF Moved, WorkerPlace
  <2>3. /\ "run" \in Live /\ at[w] \in Live
        /\ "run" \in Busy /\ at[w] \notin Busy
        /\ "run" \notin Coming /\ at[w] \in Coming
    BY <2>1 DEF Live, Busy, Coming
  <2>4. Cardinality(Placed(at', Live)) = Cardinality(Placed(at, Live))
    BY <2>2, <2>3, MoveInside
  <2>5. Cardinality(Placed(at', Busy)) = Cardinality(Placed(at, Busy)) + 1
    BY <2>2, <2>3, MoveIn
  <2>6. Cardinality(Placed(at', Coming)) = Cardinality(Placed(at, Coming)) - 1
    BY <2>2, <2>3, MoveOut
  <2>7. /\ at' \in [Worker -> WorkerPlace]
        /\ Placed(at', {"idle"}) \subseteq Placed(at, {"idle"})
    BY <2>2, MoveAwake DEF Moved
  <2>8. queue' \in Seq(Task) /\ Len(queue') = Len(queue) - 1 /\ Len(queue) > 0
    BY <1>1, <2>1
  <2>9. job' \in [Worker -> Task \cup {NoTask}]
    <3>1. Head(queue) \in Task
      BY <1>1, <2>1
    <3>. QED  BY <1>1, <2>1, <3>1
  <2>. QED  BY <1>1, <1>2, <1>4, <2>4, <2>5, <2>6, <2>7, <2>8, <2>9
            DEF PoolInv, PoolTypeOK, SleepOnlyIfWanted
<1>5. CASE workerCount <= target /\ GoIdle(w) /\ UNCHANGED active
  <2>1. /\ at[w] = "woken" /\ at' = [at EXCEPT ![w] = "idle"]
        /\ workerCount <= target /\ queue = <<>> /\ UNCHANGED <<queue, job>>
    BY <1>2, <1>5 DEF GoIdle
  <2>2. Moved(at, at', w, "idle")
    BY <1>1, <2>1 DEF Moved, WorkerPlace
  <2>3. /\ "idle" \in Live /\ at[w] \in Live
        /\ "idle" \notin Busy /\ at[w] \notin Busy
        /\ "idle" \notin Coming /\ at[w] \in Coming
    BY <2>1 DEF Live, Busy, Coming
  <2>4. Cardinality(Placed(at', Live)) = Cardinality(Placed(at, Live))
    BY <2>2, <2>3, MoveInside
  <2>5. Cardinality(Placed(at', Busy)) = Cardinality(Placed(at, Busy))
    BY <2>2, <2>3, MoveOutside
  <2>6. Cardinality(Placed(at', Coming)) = Cardinality(Placed(at, Coming)) - 1
    BY <2>2, <2>3, MoveOut
  <2>7. at' \in [Worker -> WorkerPlace]
    BY <2>2 DEF Moved
  <2>8. Len(queue') = 0 /\ ~(workerCount' > target')
    BY <1>1, <1>2, <2>1 DEF PoolInv
  <2>9. Cardinality(Placed(at', Coming)) \in Nat
    BY PlacedFinite
  <2>. QED  BY <1>1, <1>2, <1>5, <2>1, <2>4, <2>5, <2>7, <2>8, <2>9
            DEF PoolInv, PoolTypeOK, SleepOnlyIfWanted
<1>. QED  BY <1>3, <1>4, <1>5 DEF Resume

\* A worker that wakes up by itself is one more on its way.
LEMMA SpuriousWakeupKeeps ==
  ASSUME PoolInv, NEW w \in Worker, SpuriousWakeup(w)
  PROVE  PoolInv'
<1>1. /\ at \in [Worker -> WorkerPlace] /\ queue \in Seq(Task)
      /\ Len(queue) \in Nat /\ target \in Nat
      /\ job \in [Worker -> Task \cup {NoTask}]
      /\ Cardinality(Placed(at, Live)) \in Nat
      /\ Cardinality(Placed(at, Busy)) \in Nat
      /\ Cardinality(Placed(at, Coming)) \in Nat
  BY PlacedFinite DEF PoolInv, PoolTypeOK
<1>2. /\ at[w] = "idle" /\ at' = [at EXCEPT ![w] = "woken"]
      /\ UNCHANGED <<queue, workerCount, target, active, job>>
  BY DEF SpuriousWakeup, counters
<1>3. Moved(at, at', w, "woken")
  BY <1>1, <1>2 DEF Moved, WorkerPlace
<1>4. /\ "woken" \in Live /\ at[w] \in Live
      /\ "woken" \notin Busy /\ at[w] \notin Busy
      /\ "woken" \in Coming /\ at[w] \notin Coming
  BY <1>2 DEF Live, Busy, Coming
<1>5. Cardinality(Placed(at', Live)) = Cardinality(Placed(at, Live))
  BY <1>3, <1>4, MoveInside
<1>6. Cardinality(Placed(at', Busy)) = Cardinality(Placed(at, Busy))
  BY <1>3, <1>4, MoveOutside
<1>7. Cardinality(Placed(at', Coming)) = Cardinality(Placed(at, Coming)) + 1
  BY <1>3, <1>4, MoveIn
<1>8. /\ at' \in [Worker -> WorkerPlace]
      /\ Placed(at', {"idle"}) \subseteq Placed(at, {"idle"})
  BY <1>3, MoveAwake DEF Moved
<1>9. Placed(at, {"idle"}) # {}
  BY <1>2 DEF Placed
<1>. QED  BY <1>1, <1>2, <1>5, <1>6, <1>7, <1>8, <1>9
          DEF PoolInv, PoolTypeOK, SleepOnlyIfWanted

\* A worker that survives its task looks for another.
LEMMA EndTaskKeeps ==
  ASSUME PoolInv, NEW w \in Worker, EndTask(w)
  PROVE  PoolInv'
<1>1. /\ at \in [Worker -> WorkerPlace] /\ queue \in Seq(Task)
      /\ Len(queue) \in Nat /\ target \in Nat
      /\ job \in [Worker -> Task \cup {NoTask}]
      /\ Cardinality(Placed(at, Live)) \in Nat
      /\ Cardinality(Placed(at, Busy)) \in Nat
      /\ Cardinality(Placed(at, Coming)) \in Nat
  BY PlacedFinite DEF PoolInv, PoolTypeOK
<1>2. /\ at[w] = "run" /\ UNCHANGED <<queue, workerCount, target, active>>
      /\ job' \in [Worker -> Task \cup {NoTask}]
  BY <1>1 DEF EndTask, counters
<1>3. CASE at' = [at EXCEPT ![w] = "loop"]
  <2>1. at[w] = "run" /\ at' = [at EXCEPT ![w] = "loop"]
    BY <1>2, <1>3
  <2>2. Moved(at, at', w, "loop")
    BY <1>1, <2>1 DEF Moved, WorkerPlace
  <2>3. /\ "loop" \in Live /\ at[w] \in Live
        /\ "loop" \in Busy /\ at[w] \in Busy
        /\ "loop" \in Coming /\ at[w] \notin Coming
    BY <2>1 DEF Live, Busy, Coming
  <2>4. Cardinality(Placed(at', Live)) = Cardinality(Placed(at, Live))
    BY <2>2, <2>3, MoveInside
  <2>5. Cardinality(Placed(at', Busy)) = Cardinality(Placed(at, Busy))
    BY <2>2, <2>3, MoveInside
  <2>6. Cardinality(Placed(at', Coming)) = Cardinality(Placed(at, Coming)) + 1
    BY <2>2, <2>3, MoveIn
  <2>7. /\ at' \in [Worker -> WorkerPlace]
        /\ Placed(at', {"idle"}) \subseteq Placed(at, {"idle"})
    BY <2>2, MoveAwake DEF Moved
  <2>. QED  BY <1>1, <1>2, <2>4, <2>5, <2>6, <2>7
            DEF PoolInv, PoolTypeOK, SleepOnlyIfWanted
<1>4. CASE at' = [at EXCEPT ![w] = "dying"]
  <2>1. at[w] = "run" /\ at' = [at EXCEPT ![w] = "dying"]
    BY <1>2, <1>4
  <2>2. Moved(at, at', w, "dying")
    BY <1>1, <2>1 DEF Moved, WorkerPlace
  <2>3. /\ "dying" \in Live /\ at[w] \in Live
        /\ "dying" \in Busy /\ at[w] \in Busy
        /\ "dying" \notin Coming /\ at[w] \notin Coming
    BY <2>1 DEF Live, Busy, Coming
  <2>4. Cardinality(Placed(at', Live)) = Cardinality(Placed(at, Live))
    BY <2>2, <2>3, MoveInside
  <2>5. Cardinality(Placed(at', Busy)) = Cardinality(Placed(at, Busy))
    BY <2>2, <2>3, MoveInside
  <2>6. Cardinality(Placed(at', Coming)) = Cardinality(Placed(at, Coming))
    BY <2>2, <2>3, MoveOutside
  <2>7. /\ at' \in [Worker -> WorkerPlace]
        /\ Placed(at', {"idle"}) \subseteq Placed(at, {"idle"})
    BY <2>2, MoveAwake DEF Moved
  <2>. QED  BY <1>1, <1>2, <2>4, <2>5, <2>6, <2>7
            DEF PoolInv, PoolTypeOK, SleepOnlyIfWanted
<1>. QED  BY <1>3, <1>4 DEF EndTask

\* resize, called with the workers at f
LEMMA ResizeToKeeps ==
  ASSUME NEW n \in Nat, NEW f \in [Worker -> WorkerPlace],
         NEW count, count = Cardinality(Placed(f, Live)),
         NEW running, running = Cardinality(Placed(f, Busy)),
         Placed(f, {"idle"}) # {} =>
           Len(queue) <= Cardinality(Placed(f, Coming)),
         queue \in Seq(Task), UNCHANGED queue,
         job' \in [Worker -> Task \cup {NoTask}],
         ResizeTo(n, f, count, running)
  PROVE  PoolInv'
<1>1. /\ count \in Nat /\ running \in Nat /\ Len(queue) \in Nat
      /\ Cardinality(Placed(f, Coming)) \in Nat
  BY PlacedFinite
<1>2. target' = n
  BY DEF ResizeTo
<1>3. CASE /\ count <= n
           /\ \E new \in SUBSET {w \in Worker : f[w] = "none"} :
                /\ Cardinality(new) <= n - count
                /\ at' = [w \in Worker |-> IF w \in new THEN "loop" ELSE f[w]]
                /\ workerCount' = count + Cardinality(new)
                /\ active' = running + Cardinality(new)
  <2>1. PICK new \in SUBSET {w \in Worker : f[w] = "none"} :
               /\ Cardinality(new) <= n - count
               /\ at' = [w \in Worker |-> IF w \in new THEN "loop" ELSE f[w]]
               /\ workerCount' = count + Cardinality(new)
               /\ active' = running + Cardinality(new)
    BY <1>3
  <2>2. new \in SUBSET Placed(f, {"none"})
    BY DEF Placed
  <2>3. /\ "loop" \in Live /\ "none" \notin Live
        /\ "loop" \in Busy /\ "none" \notin Busy
        /\ "loop" \in Coming /\ "none" \notin Coming
    BY DEF Live, Busy, Coming
  <2>4. /\ Cardinality(new) \in Nat
        /\ Cardinality(Placed(at', Live)) = count + Cardinality(new)
    BY <2>1, <2>2, <2>3, Grow
  <2>5. Cardinality(Placed(at', Busy)) = running + Cardinality(new)
    BY <2>1, <2>2, <2>3, Grow
  <2>6. Cardinality(Placed(at', Coming)) =
          Cardinality(Placed(f, Coming)) + Cardinality(new)
    BY <2>1, <2>2, <2>3, Grow
  <2>7. /\ at' \in [Worker -> WorkerPlace]
        /\ Placed(at', {"idle"}) \subseteq Placed(f, {"idle"})
    BY <2>1 DEF Placed, WorkerPlace
  <2>8. ~(workerCount' > target')
    BY <1>1, <1>2, <2>1, <2>4
  <2>9. /\ workerCount' = Cardinality(Placed(at', Live))
        /\ active' = Cardinality(Placed(at', Busy))
    BY <2>1, <2>4, <2>5
  <2>10. Placed(at', {"idle"}) # {} =>
           Len(queue') <= Cardinality(Placed(at', Coming))
    BY <1>1, <2>4, <2>6, <2>7
  <2>. QED  BY <1>2, <2>7, <2>8, <2>9, <2>10
            DEF PoolInv, PoolTypeOK, SleepOnlyIfWanted
<1>4. CASE /\ count > n
           /\ at' = [w \in Worker |-> IF f[w] = "idle" THEN "woken" ELSE f[w]]
           /\ workerCount' = count
           /\ active' = running
  <2>1. /\ at' \in [Worker -> WorkerPlace]
        /\ Placed(at', Live) = Placed(f, Live)
        /\ Placed(at', Busy) = Placed(f, Busy)
        /\ Placed(at', {"idle"}) = {}
    BY <1>4, WakeAll
  <2>2. /\ workerCount' = Cardinality(Placed(at', Live))
        /\ active' = Cardinality(Placed(at', Busy))
    BY <1>4, <2>1
  <2>. QED  BY <1>2, <2>1, <2>2 DEF PoolInv, PoolTypeOK, SleepOnlyIfWanted
<1>. QED  BY <1>3, <1>4 DEF ResizeTo

\* resize from outside
LEMMA ResizeKeeps ==
  ASSUME PoolInv, NEW n \in Size, Resize(n)
  PROVE  PoolInv'
<1>1. ResizeTo(n, at, workerCount, active) /\ UNCHANGED <<queue, job>>
  BY DEF Resize
<1>2. n \in Nat
  BY PoolAssumption
<1>3. /\ at \in [Worker -> WorkerPlace] /\ queue \in Seq(Task)
      /\ job' \in [Worker -> Task \cup {NoTask}]
      /\ workerCount = Cardinality(Placed(at, Live))
      /\ active = Cardinality(Placed(at, Busy))
      /\ Placed(at, {"idle"}) # {} =>
           Len(queue) <= Cardinality(Placed(at, Coming))
  BY <1>1 DEF PoolInv, PoolTypeOK
<1>. QED  BY <1>1, <1>2, <1>3, ResizeToKeeps

\* A worker that leaves is subtracted from both counters.
LEMMA WorkerDestructedKeeps ==
  ASSUME PoolInv, NEW w \in Worker, WorkerDestructed(w)
  PROVE  PoolInv'
<1>1. /\ at \in [Worker -> WorkerPlace] /\ queue \in Seq(Task)
      /\ Len(queue) \in Nat /\ target \in Nat
      /\ job \in [Worker -> Task \cup {NoTask}]
      /\ Cardinality(Placed(at, Live)) \in Nat
      /\ Cardinality(Placed(at, Busy)) \in Nat
      /\ Cardinality(Placed(at, Coming)) \in Nat
  BY PlacedFinite DEF PoolInv, PoolTypeOK
<1>2. at[w] = "leaving" /\ at' = [at EXCEPT ![w] = "gone"]
  BY DEF WorkerDestructed
<1>3. /\ workerCount' = workerCount - 1 /\ active' = active - 1
      /\ UNCHANGED <<queue, target, job>>
  BY DEF WorkerDestructed
<1>4. Moved(at, at', w, "gone")
  BY <1>1, <1>2 DEF Moved, WorkerPlace
<1>5. /\ "gone" \notin Live /\ at[w] \in Live
      /\ "gone" \notin Busy /\ at[w] \in Busy
      /\ "gone" \notin Coming /\ at[w] \notin Coming
  BY <1>2 DEF Live, Busy, Coming
<1>6. Cardinality(Placed(at', Live)) = Cardinality(Placed(at, Live)) - 1
  BY <1>4, <1>5, MoveOut
<1>7. Cardinality(Placed(at', Busy)) = Cardinality(Placed(at, Busy)) - 1
  BY <1>4, <1>5, MoveOut
<1>8. Cardinality(Placed(at', Coming)) = Cardinality(Placed(at, Coming))
  BY <1>4, <1>5, MoveOutside
<1>9. /\ at' \in [Worker -> WorkerPlace]
      /\ Placed(at', {"idle"}) \subseteq Placed(at, {"idle"})
  BY <1>4, MoveAwake DEF Moved
<1>. QED  BY <1>1, <1>3, <1>6, <1>7, <1>8, <1>9
          DEF PoolInv, PoolTypeOK, SleepOnlyIfWanted

\* So is one that dies, before the pool is resized.
LEMMA WorkerDiedUnexpectedlyKeeps ==
  ASSUME PoolInv, NEW w \in Worker, WorkerDiedUnexpectedly(w)
  PROVE  PoolInv'
<1>1. /\ at \in [Worker -> WorkerPlace] /\ queue \in Seq(Task)
      /\ Len(queue) \in Nat /\ target \in Nat
      /\ job \in [Worker -> Task \cup {NoTask}]
      /\ Cardinality(Placed(at, Live)) \in Nat
      /\ Cardinality(Placed(at, Busy)) \in Nat
      /\ Cardinality(Placed(at, Coming)) \in Nat
  BY PlacedFinite DEF PoolInv, PoolTypeOK
<1>2. at[w] = "dying" /\ UNCHANGED <<queue, job>>
  BY DEF WorkerDiedUnexpectedly
<1>. DEFINE f == [at EXCEPT ![w] = "gone"]
<1>3. Moved(at, f, w, "gone")
  BY <1>1, <1>2 DEF Moved, WorkerPlace
<1>4. /\ "gone" \notin Live /\ at[w] \in Live
      /\ "gone" \notin Busy /\ at[w] \in Busy
      /\ "gone" \notin Coming /\ at[w] \notin Coming
  BY <1>2 DEF Live, Busy, Coming
<1>5. f \in [Worker -> WorkerPlace]
  BY <1>3 DEF Moved
<1>. HIDE DEF f
<1>6. Cardinality(Placed(f, Live)) = Cardinality(Placed(at, Live)) - 1
  BY <1>3, <1>4, MoveOut
<1>7. Cardinality(Placed(f, Busy)) = Cardinality(Placed(at, Busy)) - 1
  BY <1>3, <1>4, MoveOut
<1>8. Cardinality(Placed(f, Coming)) = Cardinality(Placed(at, Coming))
  BY <1>3, <1>4, MoveOutside
<1>9. Placed(f, {"idle"}) \subseteq Placed(at, {"idle"})
  BY <1>3, MoveAwake
<1>10. /\ Cardinality(Placed(f, Live)) = workerCount - 1
       /\ Cardinality(Placed(f, Busy)) = active - 1
       /\ Placed(f, {"idle"}) # {} =>
            Len(queue) <= Cardinality(Placed(f, Coming))
  BY <1>6, <1>7, <1>8, <1>9 DEF PoolInv
<1>11. CASE terminating
  <2>1. /\ at' = f /\ UNCHANGED target
        /\ workerCount' = workerCount - 1 /\ active' = active - 1
    BY <1>11 DEF WorkerDiedUnexpectedly, f
  <2>2. workerCount - 1 > target => Placed(f, {"idle"}) = {}
    BY <1>1, <1>9 DEF PoolInv, SleepOnlyIfWanted
  <2>3. /\ PoolTypeOK' /\ SleepOnlyIfWanted'
        /\ Placed(at', {"idle"}) # {} =>
             Len(queue') <= Cardinality(Placed(at', Coming))
    BY <1>1, <1>2, <1>5, <1>10, <2>1, <2>2 DEF PoolTypeOK, SleepOnlyIfWanted
  <2>. QED  BY <1>10, <2>1, <2>3 DEF PoolInv
<1>12. CASE ~terminating
  <2>1. ResizeTo(workerCount, f, workerCount - 1, active - 1)
    BY <1>12 DEF WorkerDiedUnexpectedly, f
  <2>2. workerCount \in Nat /\ job' \in [Worker -> Task \cup {NoTask}]
    BY <1>1, <1>2 DEF PoolInv
  <2>3. queue \in Seq(Task) /\ UNCHANGED queue
    BY <1>1, <1>2
  <2>. QED  BY <1>5, <1>10, <2>1, <2>2, <2>3, ResizeToKeeps
<1>. QED  BY <1>11, <1>12

\* Whoever sets the target to 0 wakes everybody.
LEMMA TerminateAllWorkersKeeps ==
  ASSUME PoolInv, NEW c \in Caller, TerminateAllWorkers(c)
  PROVE  PoolInv'
<1>1. /\ at' = Woken /\ target' = 0
      /\ UNCHANGED <<queue, workerCount, active, job>>
  BY DEF TerminateAllWorkers
<1>2. at \in [Worker -> WorkerPlace]
  BY DEF PoolInv, PoolTypeOK
<1>3. /\ at' \in [Worker -> WorkerPlace]
      /\ Placed(at', Live) = Placed(at, Live)
      /\ Placed(at', Busy) = Placed(at, Busy)
      /\ Placed(at', {"idle"}) = {}
  BY <1>1, <1>2, WakeAll DEF Woken
<1>. QED  BY <1>1, <1>3 DEF PoolInv, PoolTypeOK, SleepOnlyIfWanted

-----------------------------------------------------------------------------
\* The new pool has no workers.
LEMMA PoolInitInv == PoolInit => PoolInv
<1>. SUFFICES ASSUME PoolInit PROVE PoolInv
  OBVIOUS
<1>1. /\ Placed(at, Live) = {} /\ Placed(at, Busy) = {}
      /\ Placed(at, {"idle"}) = {}
  BY DEF PoolInit, Placed, Live, Busy
<1>2. Cardinality({}) = 0
  BY FS_EmptySet
<1>3. PoolTypeOK
  BY DEF PoolInit, PoolTypeOK, WorkerPlace
<1>. QED  BY <1>1, <1>2, <1>3 DEF PoolInit, PoolInv, SleepOnlyIfWanted

\* Every step keeps the invariant.
LEMMA PoolNextInv == PoolInv /\ [PoolNext]_poolVars => PoolInv'
<1>. SUFFICES ASSUME PoolInv, [PoolNext]_poolVars PROVE PoolInv'
  OBVIOUS
<1>1. CASE UNCHANGED poolVars
  BY <1>1, NothingKeeps DEF poolVars
<1>2. ASSUME NEW t \in Task, Schedule(t) PROVE PoolInv'
  BY <1>2, ScheduleKeeps
<1>3. CASE Clear
  BY <1>3, ClearKeeps
<1>4. ASSUME NEW n \in Size, Resize(n) PROVE PoolInv'
  BY <1>4, ResizeKeeps
<1>5. ASSUME NEW w \in Worker, WorkerStep(w) \/ SpuriousWakeup(w)
      PROVE  PoolInv'
  BY <1>5, EnterKeeps, ResumeKeeps, EndTaskKeeps, WorkerDestructedKeeps,
     WorkerDiedUnexpectedlyKeeps, SpuriousWakeupKeeps DEF WorkerStep
<1>6. ASSUME NEW c \in Caller, NEW th \in Threshold,
             NEW kind \in {"wait", "timed_wait"}, CallWait(c, th, kind)
      PROVE  PoolInv'
  BY <1>6, NothingKeeps DEF CallWait
<1>7. ASSUME NEW c \in Caller, WaitTimeout(c) \/ Shutdown(c) \/ Check(c)
                               \/ Rejoin(c)
      PROVE  PoolInv'
  BY <1>7, NothingKeeps DEF WaitTimeout, Shutdown, Check, Rejoin
<1>8. ASSUME NEW c \in Caller, TerminateAllWorkers(c) PROVE PoolInv'
  BY <1>8, TerminateAllWorkersKeeps
<1>. QED  BY <1>1, <1>2, <1>3, <1>4, <1>5, <1>6, <1>7, <1>8
          DEF PoolNext, CallerStep

\* The counters, the target, the sleepers and the queue always agree
\* (pool_core.hpp:182-445).
THEOREM PoolInvariant == PoolSpec => []PoolInv
BY PoolInitInv, PoolNextInv, PTL DEF PoolSpec

\* The two counters always tell how many workers there are and how many of
\* them do not wait, however many workers, tasks and callers there are
\* (pool_core.hpp:248, 308, 426-429).
THEOREM CountersAlwaysMatch == PoolSpec => []CountersMatch
<1>1. PoolInv => CountersMatch
  <2>. SUFFICES ASSUME PoolInv PROVE CountersMatch
    OBVIOUS
  <2>1. /\ Worker \ In({"none", "gone"}) = Placed(at, Live)
        /\ In({"loop", "run", "leaving", "dying"}) = Placed(at, Busy)
    BY DEF PoolInv, PoolTypeOK, In, Placed, Live, Busy, WorkerPlace
  <2>. QED  BY <2>1 DEF PoolInv, CountersMatch
<1>. QED  BY <1>1, PoolInvariant, PTL

\* As long as a worker sleeps un-notified, every pending task has a worker of
\* its own on its way to it (pool_core.hpp:188, 304, 361, 428).
THEOREM NoWakeupIsLost == PoolSpec => []NoLostWakeup
<1>1. PoolInv => NoLostWakeup
  <2>. SUFFICES ASSUME PoolInv PROVE NoLostWakeup
    OBVIOUS
  <2>1. /\ In({"idle"}) = Placed(at, {"idle"})
        /\ In({"loop", "woken"}) = Placed(at, Coming)
    BY DEF In, Placed, Coming
  <2>. QED  BY <2>1 DEF PoolInv, NoLostWakeup
<1>. QED  BY <1>1, PoolInvariant, PTL

-----------------------------------------------------------------------------
(* The pool implements the executor *)

\* Every scheduled task is in one place: once in the queue, or run by one
\* worker, or past.
OnceInv ==
  /\ \A i, j \in DOMAIN queue : queue[i] = queue[j] => i = j
  /\ \A w \in Worker : at[w] = "run" => job[w] \in Task
  /\ \A w, x \in Worker :
       at[w] = "run" /\ at[x] = "run" /\ job[w] = job[x] => w = x
  /\ Pending \cap Fetched = {}
  /\ (Pending \cup Fetched) \cap past = {}

ExecStep == [Exec!ExecNext]_(Exec!execVars)

\* A step in which no worker begins or ends a task, and the queue and the past
\* stay as they are, is none of the executor's.
LEMMA NoTaskMoves ==
  ASSUME PoolTypeOK, OnceInv, UNCHANGED <<queue, job, past>>,
         \A w \in Worker : at'[w] = "run" <=> at[w] = "run"
  PROVE  OnceInv' /\ ExecStep
<1>1. Fetched' = Fetched /\ Pending' = Pending
  BY DEF Fetched, In, Pending
<1>2. OnceInv'
  BY <1>1 DEF OnceInv
<1>3. UNCHANGED Exec!execVars
  BY <1>1 DEF Exec!execVars
<1>. QED  BY <1>2, <1>3 DEF ExecStep

\* Fewer tasks run than there are workers while one of them looks for a task.
LEMMA OneFree ==
  ASSUME PoolTypeOK, NEW w \in Worker, at[w] # "run"
  PROVE  Cardinality(Fetched) < Cardinality(Worker)
<1>. DEFINE R == In({"run"})
            f == [v \in R |-> job[v]]
<1>1. R \subseteq Worker \ {w}
  BY DEF In
<1>2. /\ IsFiniteSet(Worker) /\ IsFiniteSet(Worker \ {w})
      /\ Cardinality(Worker) \in Nat
      /\ Cardinality(Worker \ {w}) = Cardinality(Worker) - 1
  BY PoolAssumption, FS_RemoveElement, FS_CardinalityType
<1>3. /\ IsFiniteSet(R) /\ Cardinality(R) \in Nat
      /\ Cardinality(R) <= Cardinality(Worker \ {w})
  BY <1>1, <1>2, FS_Subset, FS_CardinalityType
<1>4. f \in Surjection(R, Fetched)
  BY DEF Fetched, Surjection
<1>5. /\ IsFiniteSet(Fetched)
      /\ Cardinality(Fetched) <= Cardinality(R)
  <2>. HIDE DEF R, f
  <2>. QED  BY <1>3, <1>4, FS_Surjection
<1>6. Cardinality(Fetched) \in Nat
  BY <1>5, FS_CardinalityType
<1>. QED
  <2>. HIDE DEF R
  <2>. QED  BY <1>2, <1>3, <1>5, <1>6

\* schedule submits a task ...
LEMMA ScheduleSubmits ==
  ASSUME PoolTypeOK, OnceInv, NEW t \in Task, Schedule(t)
  PROVE  OnceInv' /\ ExecStep
<1>1. /\ t \notin Pending \cup Fetched \cup past
      /\ queue' = Append(queue, t) /\ UNCHANGED <<job, past>>
      /\ queue \in Seq(Task) /\ at \in [Worker -> WorkerPlace]
  BY DEF Schedule, PoolTypeOK
<1>2. \A w \in Worker : at'[w] = "run" <=> at[w] = "run"
  BY <1>1 DEF Schedule, NotifyOne, In
<1>3. Fetched' = Fetched
  BY <1>1, <1>2 DEF Fetched, In
<1>4. Pending' = Pending \cup {t}
  BY <1>1 DEF Pending
<1>5. \A i, j \in DOMAIN queue' : queue'[i] = queue'[j] => i = j
  BY <1>1 DEF OnceInv, Pending
<1>6. OnceInv'
  BY <1>1, <1>2, <1>3, <1>4, <1>5 DEF OnceInv
<1>7. Exec!Submit(t)
  BY <1>1, <1>3 DEF Exec!Submit, Exec!Pending, Pending
<1>. QED  BY <1>6, <1>7 DEF ExecStep, Exec!ExecNext

\* ... clear discards the pending ones ...
LEMMA ClearDiscards ==
  ASSUME PoolTypeOK, OnceInv, Clear
  PROVE  OnceInv' /\ ExecStep
<1>1. /\ queue' = <<>> /\ past' = past \cup Pending /\ UNCHANGED <<at, job>>
  BY DEF Clear
<1>2. Fetched' = Fetched /\ Pending' = {}
  BY <1>1 DEF Fetched, In, Pending
<1>3. OnceInv'
  BY <1>1, <1>2 DEF OnceInv
<1>4. Exec!Discard
  BY <1>1, <1>2 DEF Exec!Discard, Exec!Pending, Pending
<1>. QED  BY <1>3, <1>4 DEF ExecStep, Exec!ExecNext

\* ... a worker that fetches a task begins it ...
LEMMA FetchBegins ==
  ASSUME PoolTypeOK, OnceInv, NEW w \in Worker, at[w] # "run", Fetch(w),
         UNCHANGED past
  PROVE  OnceInv' /\ ExecStep
<1>1. /\ queue # <<>> /\ queue' = Tail(queue)
      /\ job' = [job EXCEPT ![w] = Head(queue)]
      /\ at' = [at EXCEPT ![w] = "run"]
      /\ queue \in Seq(Task) /\ at \in [Worker -> WorkerPlace]
      /\ job \in [Worker -> Task \cup {NoTask}]
  BY DEF Fetch, PoolTypeOK
<1>2. /\ at'[w] = "run" /\ job'[w] = Head(queue)
      /\ \A x \in Worker \ {w} : at'[x] = at[x] /\ job'[x] = job[x]
  BY <1>1
<1>3. Fetched' = Fetched \cup {Head(queue)}
  BY <1>2 DEF Fetched, In
<1>4. /\ Head(queue) \in Pending /\ Head(queue) \in Task
      /\ Pending' \subseteq Pending
      /\ \A i, j \in DOMAIN queue' : queue'[i] = queue'[j] => i = j
      /\ Head(queue) \notin Pending'
  <2>1. /\ Len(queue) \in Nat /\ Len(queue) > 0
        /\ Head(queue) = queue[1] /\ 1 \in DOMAIN queue
        /\ queue[1] \in Task
    BY <1>1
  <2>2. \A i \in DOMAIN queue' : /\ i \in Nat /\ i + 1 \in DOMAIN queue
                                 /\ queue'[i] = queue[i + 1]
    BY <1>1, <2>1
  <2>3. \A i, j \in DOMAIN queue' : queue'[i] = queue'[j] => i = j
    <3>. SUFFICES ASSUME NEW i \in DOMAIN queue', NEW j \in DOMAIN queue',
                         queue'[i] = queue'[j]
                  PROVE  i = j
      OBVIOUS
    <3>1. i + 1 = j + 1
      BY <2>2 DEF OnceInv
    <3>. QED  BY <2>2, <3>1
  <2>4. \A i \in DOMAIN queue' : i + 1 # 1 /\ queue'[i] # Head(queue)
    BY <2>1, <2>2 DEF OnceInv
  <2>. QED  BY <2>1, <2>2, <2>3, <2>4 DEF Pending
<1>5. \A x \in Worker : at[x] = "run" => job[x] \in Fetched
  BY DEF Fetched, In
<1>6. Head(queue) \notin Fetched
  BY <1>4 DEF OnceInv
<1>7. \A x, y \in Worker :
         at'[x] = "run" /\ at'[y] = "run" /\ job'[x] = job'[y] => x = y
  BY <1>2, <1>5, <1>6 DEF OnceInv
<1>8. OnceInv'
  BY <1>2, <1>3, <1>4, <1>6, <1>7 DEF OnceInv
<1>9. Exec!Begin
  <2>1. Cardinality(Fetched) < Cardinality(Worker)
    BY OneFree
  <2>2. /\ queue # <<>> /\ queue' = Tail(queue) /\ past' = past
        /\ Fetched' = Fetched \cup {Head(queue)}
    BY <1>1, <1>3
  <2>. QED  BY <2>1, <2>2, Zenon DEF Exec!Begin, Exec!Cardinality, Cardinality
<1>. QED  BY <1>8, <1>9 DEF ExecStep, Exec!ExecNext

\* ... and ends it.
LEMMA EndTaskEnds ==
  ASSUME PoolTypeOK, OnceInv, NEW w \in Worker, EndTask(w)
  PROVE  OnceInv' /\ ExecStep
<1>1. /\ at[w] = "run" /\ at'[w] # "run" /\ UNCHANGED queue
      /\ past' = past \cup {job[w]}
      /\ \A x \in Worker \ {w} : at'[x] = at[x] /\ job'[x] = job[x]
  BY DEF EndTask, PoolTypeOK
<1>2. job[w] \in Fetched /\ job[w] \in Task
  BY <1>1 DEF Fetched, In, OnceInv
<1>3. Fetched' = Fetched \ {job[w]} /\ Pending' = Pending
  BY <1>1 DEF Fetched, In, Pending, OnceInv
<1>4. OnceInv'
  BY <1>1, <1>2, <1>3 DEF OnceInv
<1>5. Exec!End(job[w])
  BY <1>1, <1>2, <1>3 DEF Exec!End
<1>. QED  BY <1>2, <1>4, <1>5 DEF ExecStep, Exec!ExecNext

\* New workers do not run anything yet.
LEMMA ResizeToMovesNoTask ==
  ASSUME NEW n, NEW f, NEW count, NEW running, ResizeTo(n, f, count, running)
  PROVE  \A w \in Worker : at'[w] = "run" <=> f[w] = "run"
BY DEF ResizeTo

\* All else a worker does is no step of the executor.
LEMMA WorkerSteps ==
  ASSUME PoolTypeOK, OnceInv, NEW w \in Worker,
         WorkerStep(w) \/ SpuriousWakeup(w)
  PROVE  OnceInv' /\ ExecStep
<1>1. at \in [Worker -> WorkerPlace]
  BY DEF PoolTypeOK
<1>2. ASSUME at[w] # "run", Leave(w) \/ GoIdle(w), UNCHANGED past
      PROVE  OnceInv' /\ ExecStep
  <2>1. \A x \in Worker : at'[x] = "run" <=> at[x] = "run"
    BY <1>1, <1>2 DEF Leave, GoIdle
  <2>2. UNCHANGED <<queue, job, past>>
    BY <1>2 DEF Leave, GoIdle
  <2>. QED  BY <2>1, <2>2, NoTaskMoves
<1>3. CASE Enter(w)
  BY <1>2, <1>3, FetchBegins DEF Enter
<1>4. CASE Resume(w)
  BY <1>2, <1>4, FetchBegins DEF Resume
<1>5. CASE EndTask(w)
  BY <1>5, EndTaskEnds
<1>6. CASE SpuriousWakeup(w) \/ WorkerDestructed(w)
  <2>1. \A x \in Worker : at'[x] = "run" <=> at[x] = "run"
    BY <1>1, <1>6 DEF SpuriousWakeup, WorkerDestructed
  <2>2. UNCHANGED <<queue, job, past>>
    BY <1>6 DEF SpuriousWakeup, WorkerDestructed
  <2>. QED  BY <2>1, <2>2, NoTaskMoves
<1>7. CASE WorkerDiedUnexpectedly(w)
  <2>. DEFINE f == [at EXCEPT ![w] = "gone"]
  <2>1. \A x \in Worker : f[x] = "run" <=> at[x] = "run"
    BY <1>1, <1>7 DEF WorkerDiedUnexpectedly
  <2>2. \A x \in Worker : at'[x] = "run" <=> f[x] = "run"
    BY <1>7, ResizeToMovesNoTask DEF WorkerDiedUnexpectedly
  <2>3. UNCHANGED <<queue, job, past>>
    BY <1>7 DEF WorkerDiedUnexpectedly
  <2>. QED  BY <2>1, <2>2, <2>3, NoTaskMoves
<1>. QED  BY <1>3, <1>4, <1>5, <1>6, <1>7 DEF WorkerStep

\* Every step of the pool is a step of the executor, or none.
LEMMA PoolNextExec ==
  PoolInv /\ OnceInv /\ [PoolNext]_poolVars => OnceInv' /\ ExecStep
<1>. SUFFICES ASSUME PoolInv, OnceInv, [PoolNext]_poolVars
              PROVE  OnceInv' /\ ExecStep
  OBVIOUS
<1>1. PoolTypeOK
  BY DEF PoolInv
<1>2. ASSUME UNCHANGED <<queue, at, job, past>> PROVE OnceInv' /\ ExecStep
  BY <1>1, <1>2, NoTaskMoves
<1>3. CASE UNCHANGED poolVars
  BY <1>2, <1>3 DEF poolVars
<1>4. ASSUME NEW t \in Task, Schedule(t) PROVE OnceInv' /\ ExecStep
  BY <1>1, <1>4, ScheduleSubmits
<1>5. CASE Clear
  BY <1>1, <1>5, ClearDiscards
<1>6. ASSUME NEW n \in Size, Resize(n) PROVE OnceInv' /\ ExecStep
  <2>1. UNCHANGED <<queue, job, past>>
    BY <1>6 DEF Resize
  <2>2. \A w \in Worker : at'[w] = "run" <=> at[w] = "run"
    BY <1>6, ResizeToMovesNoTask DEF Resize
  <2>. QED  BY <1>1, <2>1, <2>2, NoTaskMoves
<1>7. ASSUME NEW w \in Worker, WorkerStep(w) \/ SpuriousWakeup(w)
      PROVE  OnceInv' /\ ExecStep
  BY <1>1, <1>7, WorkerSteps
<1>8. ASSUME NEW c \in Caller, NEW th \in Threshold,
             NEW kind \in {"wait", "timed_wait"}, CallWait(c, th, kind)
      PROVE  OnceInv' /\ ExecStep
  BY <1>2, <1>8 DEF CallWait
<1>9. ASSUME NEW c \in Caller, WaitTimeout(c) \/ Shutdown(c) \/ Check(c)
                               \/ Rejoin(c)
      PROVE  OnceInv' /\ ExecStep
  BY <1>2, <1>9 DEF WaitTimeout, Shutdown, Check, Rejoin
<1>10. ASSUME NEW c \in Caller, TerminateAllWorkers(c)
      PROVE  OnceInv' /\ ExecStep
  <2>1. UNCHANGED <<queue, job, past>>
    BY <1>10 DEF TerminateAllWorkers
  <2>2. \A w \in Worker : at'[w] = "run" <=> at[w] = "run"
    BY <1>10 DEF TerminateAllWorkers, Woken
  <2>. QED  BY <1>1, <2>1, <2>2, NoTaskMoves
<1>. QED  BY <1>3, <1>4, <1>5, <1>6, <1>7, <1>8, <1>9, <1>10
          DEF PoolNext, CallerStep

\* Whatever threads come, go or die, a task is begun once, in the order of
\* scheduling, and never more at a time than there are threads
\* (pool_core.hpp:178, 182-195, 401-445).
THEOREM PoolImplementsExecutor == PoolSpec => ImplementsExecutor
<1>1. PoolInit => Exec!ExecInit /\ OnceInv
  BY DEF PoolInit, Exec!ExecInit, OnceInv, Fetched, Pending, In
<1>2. PoolSpec => []OnceInv
  BY <1>1, PoolInvariant, PoolNextExec, PTL DEF PoolSpec
<1>. QED  BY <1>1, <1>2, PoolInvariant, PoolNextExec, PTL
          DEF PoolSpec, ImplementsExecutor, Exec!ExecSpec, ExecStep

-----------------------------------------------------------------------------
(* Waiting *)

CallerTypeOK ==
  /\ callerAt \in [Caller -> CallerPlace]
  /\ threshold \in [Caller -> Nat]

\* Where callers are, and thresholds
LEMMA CallerTypes == PoolSpec => []CallerTypeOK
<1>1. PoolInit => CallerTypeOK
  BY DEF PoolInit, CallerTypeOK, CallerPlace
<1>2. CallerTypeOK /\ [PoolNext]_poolVars => CallerTypeOK'
  <2>. SUFFICES ASSUME CallerTypeOK, [PoolNext]_poolVars PROVE CallerTypeOK'
    OBVIOUS
  <2>1. ASSUME UNCHANGED callerVars PROVE CallerTypeOK'
    BY <2>1 DEF callerVars, CallerTypeOK
  <2>2. CASE UNCHANGED poolVars \/ Clear \/ (\E t \in Task : Schedule(t))
             \/ (\E n \in Size : Resize(n))
    BY <2>1, <2>2 DEF poolVars, Clear, Schedule, Resize
  <2>3. ASSUME NEW w \in Worker, WorkerStep(w) \/ SpuriousWakeup(w)
        PROVE  CallerTypeOK'
    BY <2>1, <2>3 DEF WorkerStep, SpuriousWakeup, Enter, Resume, EndTask,
       WorkerDestructed, WorkerDiedUnexpectedly
  <2>4. ASSUME NEW c \in Caller, NEW th \in Threshold,
               NEW kind \in {"wait", "timed_wait"}, CallWait(c, th, kind)
        PROVE  CallerTypeOK'
    BY <2>4, PoolAssumption DEF CallWait, CallerTypeOK, CallerPlace
  <2>5. ASSUME NEW c \in Caller, WaitTimeout(c) \/ Shutdown(c) \/ CallerStep(c)
        PROVE  CallerTypeOK'
    BY <2>5 DEF CallerStep, WaitTimeout, Shutdown, Check, Rejoin,
       TerminateAllWorkers, JoinLoop, CallerTypeOK, CallerPlace
  <2>. QED  BY <2>2, <2>3, <2>4, <2>5 DEF PoolNext
<1>. QED  BY <1>1, <1>2, PTL DEF PoolSpec

\* Between the two halves of shutdown() nothing is pending and nothing runs, so
\* that nobody schedules any more.
FlushedInv == \A c \in Caller :
  callerAt[c] \in {"flushed", "join"} => queue = <<>> /\ Fetched = {}

\* With no active worker no task runs.
LEMMA NobodyActive ==
  ASSUME PoolInv, active = 0
  PROVE  Fetched = {}
<1>1. Cardinality(Placed(at, Busy)) = 0 /\ IsFiniteSet(Placed(at, Busy))
  BY PlacedFinite DEF PoolInv, PoolTypeOK
<1>2. Placed(at, Busy) = {}
  BY <1>1, FS_EmptySet
<1>3. In({"run"}) = {}
  BY <1>2 DEF Placed, Busy, In
<1>. QED  BY <1>3, Zenon DEF Fetched

\* A caller whose wait for threshold 0 is over found the pool quiet.
LEMMA SettledQuiet ==
  ASSUME PoolInv, NEW c \in Caller, threshold[c] = 0, Settled(c)
  PROVE  queue = <<>> /\ Fetched = {}
<1>1. queue \in Seq(Task) /\ Len(queue) \in Nat /\ active \in Nat
  BY PlacedFinite DEF PoolInv, PoolTypeOK
<1>2. active = 0 /\ Len(queue) = 0
  BY <1>1 DEF Settled
<1>. QED  BY <1>1, <1>2, NobodyActive

\* A caller of shutdown() waits for threshold 0.
FlushZero == \A c \in Caller : callerAt[c] = "flush" => threshold[c] = 0

LEMMA NextFlushed ==
  ASSUME PoolInv, CallerTypeOK, FlushZero, FlushedInv, [PoolNext]_poolVars
  PROVE  FlushZero' /\ FlushedInv'
<1>. DEFINE Still == UNCHANGED <<queue, at, job>>
<1>1. ASSUME Still PROVE UNCHANGED <<queue, Fetched>>
  BY <1>1 DEF Fetched, In
<1>2. CASE UNCHANGED poolVars \/ (\E n \in Size : Resize(n))
  <2>1. CASE UNCHANGED poolVars
    BY <1>1, <2>1 DEF poolVars, callerVars, FlushZero, FlushedInv
  <2>2. ASSUME NEW n \in Size, Resize(n) PROVE FlushZero' /\ FlushedInv'
    BY <2>2 DEF Resize, Closing, FlushZero, FlushedInv, callerVars
  <2>. QED  BY <1>2, <2>1, <2>2
<1>3. CASE Clear
  BY <1>3 DEF Clear, Closing, FlushZero, FlushedInv, callerVars
<1>4. ASSUME NEW t \in Task, Schedule(t) PROVE FlushZero' /\ FlushedInv'
  BY <1>4 DEF Schedule, Closing, FlushZero, FlushedInv, callerVars
<1>5. ASSUME NEW w \in Worker, WorkerStep(w) \/ SpuriousWakeup(w)
      PROVE  FlushZero' /\ FlushedInv'
  <2>1. UNCHANGED callerVars
    BY <1>5 DEF WorkerStep, SpuriousWakeup, Enter, Resume, EndTask,
       WorkerDestructed, WorkerDiedUnexpectedly
  <2>2. ASSUME queue = <<>>, Fetched = {} PROVE queue' = <<>> /\ Fetched' = {}
    <3>1. In({"run"}) = {}
      BY <2>2, Zenon DEF Fetched
    <3>2. queue' = <<>>
      BY <1>5, <2>2, <3>1 DEF WorkerStep, SpuriousWakeup, Enter, Resume,
         EndTask, WorkerDestructed, WorkerDiedUnexpectedly, Fetch, GoIdle,
         Leave
    <3>3. In({"run"})' = {}
      BY <1>5, <2>2, <3>1 DEF WorkerStep, SpuriousWakeup, Enter, Resume,
         EndTask, WorkerDestructed, WorkerDiedUnexpectedly, Fetch, GoIdle,
         Leave, ResizeTo, In, PoolInv, PoolTypeOK
    <3>. QED  BY <3>2, <3>3, Zenon DEF Fetched
  <2>. QED  BY <2>1, <2>2 DEF FlushZero, FlushedInv, callerVars
<1>6. ASSUME NEW c \in Caller, NEW th \in Threshold,
             NEW kind \in {"wait", "timed_wait"}, CallWait(c, th, kind)
      PROVE  FlushZero' /\ FlushedInv'
  BY <1>1, <1>6 DEF CallWait, CallerTypeOK, FlushZero, FlushedInv
<1>7. ASSUME NEW c \in Caller, WaitTimeout(c) \/ Shutdown(c)
      PROVE  FlushZero' /\ FlushedInv'
  BY <1>1, <1>7 DEF WaitTimeout, Shutdown, CallerTypeOK, FlushZero, FlushedInv
<1>8. ASSUME NEW c \in Caller, Check(c) PROVE FlushZero' /\ FlushedInv'
  <2>1. callerAt'[c] = "flushed" => queue = <<>> /\ Fetched = {}
    <3>. SUFFICES ASSUME callerAt'[c] = "flushed"
                  PROVE  queue = <<>> /\ Fetched = {}
      OBVIOUS
    <3>1. callerAt[c] = "flush" /\ Settled(c)
      BY <1>8 DEF Check, CallerTypeOK
    <3>. QED  BY <3>1, SettledQuiet DEF FlushZero
  <2>2. callerAt'[c] # "join" /\ callerAt'[c] \in {callerAt[c], "flushed", "out"}
    BY <1>8 DEF Check, CallerTypeOK
  <2>3. \A d \in Caller \ {c} : callerAt'[d] = callerAt[d]
    BY <1>8 DEF Check, CallerTypeOK
  <2>4. UNCHANGED <<queue, Fetched, threshold>>
    BY <1>1, <1>8 DEF Check
  <2>. QED  BY <2>1, <2>2, <2>3, <2>4 DEF FlushZero, FlushedInv
<1>9. ASSUME NEW c \in Caller, TerminateAllWorkers(c) \/ Rejoin(c)
      PROVE  FlushZero' /\ FlushedInv'
  <2>1. queue = <<>> /\ Fetched = {}
    BY <1>9 DEF TerminateAllWorkers, Rejoin, FlushedInv
  <2>2. queue' = <<>> /\ UNCHANGED threshold
    BY <1>9, <2>1 DEF TerminateAllWorkers, Rejoin
  <2>3. Fetched' = {}
    <3>1. In({"run"}) = {}
      BY <2>1, Zenon DEF Fetched
    <3>2. In({"run"})' = {}
      BY <1>9, <3>1 DEF TerminateAllWorkers, Rejoin, Woken, In
    <3>. QED  BY <3>2, Zenon DEF Fetched
  <2>4. \A d \in Caller : callerAt'[d] = "flush" => callerAt[d] = "flush"
    BY <1>9 DEF TerminateAllWorkers, Rejoin, JoinLoop, CallerTypeOK
  <2>. QED  BY <2>1, <2>2, <2>3, <2>4 DEF FlushZero, FlushedInv
<1>. QED  BY <1>2, <1>3, <1>4, <1>5, <1>6, <1>7, <1>8, <1>9
          DEF PoolNext, CallerStep

\* wait(0) returns and shutdown() goes on and ends only when the queue is empty
\* and nothing runs (pool_core.hpp:248-251, 308-311).
THEOREM WaitsUntilQuiet == PoolSpec => QuietAfterWait
<1>. DEFINE Quiet == \A c \in Caller :
              /\ \/ callerAt[c] \in {"wait", "flush"} /\ threshold[c] = 0
                 \/ callerAt'[c] = "closed"
              /\ callerAt'[c] # callerAt[c]
              => queue = <<>> /\ Fetched = {}
<1>1. ASSUME PoolInv, CallerTypeOK, FlushedInv, [PoolNext]_poolVars,
             NEW c \in Caller, callerAt'[c] # callerAt[c],
             \/ callerAt[c] \in {"wait", "flush"} /\ threshold[c] = 0
             \/ callerAt'[c] = "closed"
      PROVE  queue = <<>> /\ Fetched = {}
  <2>1. PICK d \in Caller :
          \/ \E th \in Threshold, kind \in {"wait", "timed_wait"} :
               CallWait(d, th, kind)
          \/ WaitTimeout(d) \/ Shutdown(d) \/ CallerStep(d)
    BY <1>1 DEF PoolNext, poolVars, callerVars, Clear, Schedule, Resize,
       WorkerStep, SpuriousWakeup, Enter, Resume, EndTask, WorkerDestructed,
       WorkerDiedUnexpectedly
  <2>2. d = c
    BY <1>1, <2>1 DEF CallerTypeOK, CallWait, WaitTimeout, Shutdown,
       CallerStep, Check, TerminateAllWorkers, JoinLoop, Rejoin
  <2>3. CASE callerAt[c] \in {"wait", "flush"}
    <3>1. Check(c) /\ Settled(c) /\ callerAt'[c] # "closed"
      BY <1>1, <2>1, <2>2, <2>3 DEF CallWait, WaitTimeout, Shutdown,
         CallerStep, Check, TerminateAllWorkers, Rejoin, CallerTypeOK
    <3>. QED  BY <1>1, <3>1, SettledQuiet
  <2>4. CASE callerAt[c] \notin {"wait", "flush"}
    <3>1. callerAt[c] \in {"flushed", "join"}
      BY <1>1, <2>1, <2>2, <2>4 DEF CallWait, WaitTimeout, Shutdown,
         CallerStep, Check, TerminateAllWorkers, Rejoin, CallerTypeOK
    <3>. QED  BY <1>1, <3>1 DEF FlushedInv
  <2>. QED  BY <2>3, <2>4
<1>2. PoolInv /\ CallerTypeOK /\ FlushedInv /\ [PoolNext]_poolVars
      => [Quiet]_poolVars
  BY <1>1
<1>3. PoolInit => FlushZero /\ FlushedInv
  BY DEF PoolInit, FlushZero, FlushedInv
<1>4. PoolSpec => []FlushedInv
  BY <1>3, NextFlushed, PoolInvariant, CallerTypes, PTL DEF PoolSpec
<1>5. PoolSpec => [][Quiet]_poolVars
  <2>. HIDE DEF Quiet
  <2>. QED  BY <1>2, <1>4, PoolInvariant, CallerTypes, PTL DEF PoolSpec
<1>. QED  BY <1>5, PTL DEF QuietAfterWait
=============================================================================
