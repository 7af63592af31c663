----------------------------- MODULE DurableJob -----------------------------
(***************************************************************************)
(* What the job table promises the code that enqueues into it: an accepted *)
(* job stays owed until a handler run finished it or all of its tries were *)
(* spent, it is never run more often than its max_attempts, and a settled  *)
(* row is never reopened.  The README calls this "durable PostgreSQL jobs  *)
(* with retry, stale-lock recovery" (README.md:23).                        *)
(*                                                                         *)
(* Jobs move independently, and one step may move several of them: the     *)
(* transaction that claims one job also settles expired ones.              *)
(***************************************************************************)
EXTENDS Naturals

CONSTANTS
  Job,           \* rows of the jobs table
  MaxAttempts,   \* Job -> max_attempts
  Cancellable    \* the jobs their owner may cancel (account.delete)

VARIABLES
  phase,         \* Job -> what the table owes for the job
  tries          \* Job -> handler runs started so far

vars == <<phase, tries>>

Phase == {"none", "owed", "done", "given_up"}

Init ==
  /\ phase = [j \in Job |-> "none"]
  /\ tries = [j \in Job |-> 0]

Move(j, from, to) == phase[j] = from /\ phase'[j] = to
SameTries(j) == tries'[j] = tries[j]

Stay(j) == phase'[j] = phase[j] /\ SameTries(j)

Accept(j) == Move(j, "none", "owed") /\ tries'[j] = 0

Try(j) ==
  /\ Move(j, "owed", "owed")
  /\ tries[j] < MaxAttempts[j]
  /\ tries'[j] = tries[j] + 1

\* Only a job somebody ran can be done.
Finish(j) == Move(j, "owed", "done") /\ tries[j] > 0 /\ SameTries(j)

GiveUp(j) ==
  /\ Move(j, "owed", "given_up")
  /\ tries[j] = MaxAttempts[j] \/ j \in Cancellable
  /\ SameTries(j)

\* Settled rows are deleted after their retention period.
Forget(j) ==
  /\ phase[j] \in {"done", "given_up"}
  /\ phase'[j] = "none" /\ tries'[j] = 0

Step(j) == Stay(j) \/ Accept(j) \/ Try(j) \/ Finish(j) \/ GiveUp(j) \/ Forget(j)

Next ==
  /\ phase' \in [Job -> Phase]
  /\ tries' \in [Job -> Nat]
  /\ \A j \in Job : Step(j)

Spec == Init /\ [][Next]_vars
=============================================================================
