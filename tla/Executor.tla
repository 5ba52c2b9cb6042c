------------------------------ MODULE Executor ------------------------------
(***************************************************************************)
(* What a thread pool promises: a task is scheduled once, begun at most    *)
(* once, in the order of scheduling, and never while more tasks run than   *)
(* there are threads.  Pending tasks may be cleared.                       *)
(***************************************************************************)
EXTENDS Naturals, Sequences, FiniteSets

CONSTANTS Task,
          Threads    \* how many tasks may run at a time

VARIABLES pending,   \* tasks scheduled and not begun, in order
          running,   \* tasks begun and not ended
          past       \* tasks ended, or cleared before they began

execVars == <<pending, running, past>>

Pending == {pending[i] : i \in DOMAIN pending}

ExecInit ==
  /\ pending = <<>>
  /\ running = {}
  /\ past = {}

Submit(t) ==
  /\ t \notin Pending \cup running \cup past
  /\ pending' = Append(pending, t)
  /\ UNCHANGED <<running, past>>

Begin ==
  /\ pending # <<>>
  /\ Cardinality(running) < Threads
  /\ running' = running \cup {Head(pending)}
  /\ pending' = Tail(pending)
  /\ UNCHANGED past

End(t) ==
  /\ t \in running
  /\ running' = running \ {t}
  /\ past' = past \cup {t}
  /\ UNCHANGED pending

Discard ==
  /\ past' = past \cup Pending
  /\ pending' = <<>>
  /\ UNCHANGED running

ExecNext ==
  \/ \E t \in Task : Submit(t) \/ End(t)
  \/ Begin
  \/ Discard

ExecSpec == ExecInit /\ [][ExecNext]_execVars
=============================================================================
