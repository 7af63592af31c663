--------------------------- MODULE JobQueueProofs ---------------------------
(***************************************************************************)
(* Machine-checked theorems about JobQueue, for every set of jobs and      *)
(* workers, every retry limit and any number of faults.                    *)
(***************************************************************************)
EXTENDS JobQueue, TLAPS

\* Every step of the job table and of the Run loop writes values of the types
\* the schema and the loop's variables have.
LEMMA TypeStep == TypeOK /\ [Next]_vars => TypeOK'
<1> SUFFICES ASSUME TypeOK, [Next]_vars PROVE TypeOK'
  OBVIOUS
<1> USE DEF TypeOK
<1>1. ASSUME NEW j \in Job, Enqueue(j) PROVE TypeOK'
  BY <1>1 DEF Enqueue, MakeAvailable, Status, Active, workerVars
<1>2. ASSUME NEW j \in Job, Postpone(j) PROVE TypeOK'
  BY <1>2 DEF Postpone, Withdraw, workerVars
<1>3. ASSUME NEW j \in Job, Cancel(j) PROVE TypeOK'
  BY <1>3 DEF Cancel, Withdraw, Status, Settled, workerVars
<1>4. ASSUME NEW j \in Job, Purge(j) PROVE TypeOK'
  BY <1>4 DEF Purge, Status, workerVars
<1>5. ASSUME NEW j \in Job, BecomeAvailable(j) PROVE TypeOK'
  BY <1>5 DEF BecomeAvailable, MakeAvailable, workerVars
<1>6. ASSUME NEW j \in Job, LockExpires(j) PROVE TypeOK'
  BY <1>6 DEF LockExpires, workerVars
<1>7. ASSUME NEW w \in Worker, NEW j \in Job, Claim(w, j) PROVE TypeOK'
  <2>1. StatusAfterClaim(j) \in [Job -> Status]
    BY DEF StatusAfterClaim, Status, Active, Settled
  <2>2. Waiting \subseteq Job /\ Requeued \subseteq Job
    BY DEF Waiting, Requeued, Buried
  <2>3. status' \in [Job -> Status] /\ stale' \subseteq Job
    BY <1>7, <2>1 DEF Claim
  <2>7. attempts' \in [Job -> Nat]
    BY <1>7 DEF Claim
  <2>8. lockedBy' \in [Job -> Worker \cup {NoWorker}]
    BY <1>7 DEF Claim
  <2>4. available' \subseteq Job
    BY <1>7, <2>2 DEF Claim
  <2>5. ahead' \in [Job -> SUBSET Job]
    <3>1. \A i \in Job : (IF i \in Requeued THEN available ELSE ahead[i]) \ {j}
                         \in SUBSET Job
      OBVIOUS
    <3> QED
      BY <1>7, <3>1 DEF Claim
  <2>6. /\ pc' \in [Worker -> WorkerPc] /\ hand' \in [Worker -> Job \cup {NoJob}]
        /\ claimed' \in [Worker -> Nat] /\ faults' \in Nat
    BY <1>7 DEF Claim, WorkerPc, Busy
  <2> QED
    BY <2>3, <2>4, <2>5, <2>6, <2>7, <2>8
<1>8. ASSUME NEW w \in Worker, Return(w) PROVE TypeOK'
  BY <1>8 DEF Return, HandlerReturns, tableVars, WorkerPc, Busy
<1>9. ASSUME NEW w \in Worker, CompleteJob(w) \/ FailJob(w) PROVE TypeOK'
  <2>1. hand[w] \in Job \cup {NoJob}
    OBVIOUS
  <2> QED
    BY <1>9, <2>1 DEF CompleteJob, FailJob, Release, NextPoll,
      Status, Active, Settled, WorkerPc
<1>10. ASSUME NEW w \in Worker, LateReport(w) PROVE TypeOK'
  BY <1>10 DEF LateReport, NextPoll, tableVars, WorkerPc
<1>11. ASSUME NEW w \in Worker, LoseReport(w) PROVE TypeOK'
  BY <1>11 DEF LoseReport, NextPoll, tableVars, WorkerPc
<1>12. ASSUME NEW w \in Worker, Crash(w) PROVE TypeOK'
  BY <1>12 DEF Crash, tableVars, WorkerPc
<1>13. ASSUME NEW w \in Worker, Restart(w) PROVE TypeOK'
  BY <1>13 DEF Restart, tableVars, WorkerPc
<1>14. CASE UNCHANGED vars
  BY <1>14 DEF vars, tableVars, workerVars
<1> QED
  BY <1>1, <1>2, <1>3, <1>4, <1>5, <1>6, <1>7, <1>8, <1>9, <1>10, <1>11,
     <1>12, <1>13, <1>14 DEF Next, Poll, Report

\* Every state of the job table and the workers has the declared shape.
THEOREM TypeCorrect == Spec => []TypeOK
<1>1. Init => TypeOK
  BY JobQueueAssumption
     DEF Init, TypeOK, Status, Active, Settled, WorkerPc, Busy
<1> QED
  BY <1>1, TypeStep, PTL DEF Spec

-----------------------------------------------------------------------------
(* The invariant.  LockMeansCurrentAttempt and RunningJobsAreWithinLimit    *)
(* carry the argument: together they tie the attempt a worker remembers to  *)
(* the row, so that FailJob, which compares the remembered one, requeues    *)
(* exactly the rows that have attempts left.                                *)

\* Releasing the lock of a running row in FailJob or CompleteJob, the one
\* place where what a worker remembers decides the fate of a row.
LEMMA ReportStep ==
  ASSUME QueueInv, TypeOK', NEW w \in Worker, CompleteJob(w) \/ FailJob(w)
  PROVE  QueueInv'
<1> DEFINE j == hand[w]
<1>1. /\ pc[w] \in {"succeeded", "failed"} /\ HoldsLock(w)
      /\ lockedBy' = [lockedBy EXCEPT ![j] = NoWorker]
      /\ stale' = stale \ {j} /\ attempts' = attempts
      /\ available' = available
      /\ pc' = [pc EXCEPT ![w] = "polling"]
      /\ hand' = [hand EXCEPT ![w] = NoJob]
      /\ claimed' = [claimed EXCEPT ![w] = 0]
  BY DEF CompleteJob, FailJob, Release, NextPoll
<1>2. j \in Job /\ status[j] = "running" /\ lockedBy[j] = w
  BY <1>1 DEF HoldsLock, QueueInv, BusyWorkersHaveAJob, Busy
<1>3. claimed[w] = attempts[j] /\ attempts[j] \in 1 .. MaxAttempts[j]
  BY <1>1, <1>2 DEF QueueInv, LockMeansCurrentAttempt, RunningJobsAreWithinLimit, Busy
<1>4. PICK s \in {"succeeded", "dead", "queued"} :
        /\ status' = [status EXCEPT ![j] = s]
        /\ s = "queued" => attempts[j] < MaxAttempts[j]
        /\ s = "dead" => attempts[j] = MaxAttempts[j]
  <2>1. CASE CompleteJob(w)
    BY <2>1 DEF CompleteJob, Release
  <2>2. CASE FailJob(w)
    <3>1. MaxAttempts[j] \in Nat /\ attempts[j] \in Nat
      BY <1>2, JobQueueAssumption DEF QueueInv, TypeOK
    <3>2. CASE claimed[w] >= MaxAttempts[j]
      BY <1>3, <2>2, <3>1, <3>2 DEF FailJob, Release
    <3>3. CASE ~(claimed[w] >= MaxAttempts[j])
      BY <1>3, <2>2, <3>1, <3>3 DEF FailJob, Release
    <3> QED
      BY <3>2, <3>3
  <2> QED
    BY <2>1, <2>2
<1> USE DEF QueueInv, TypeOK
<1>5. TimeSetsMatchStatus'
  BY <1>1, <1>2, <1>4 DEF TimeSetsMatchStatus
<1>6. BusyWorkersHaveAJob'
  BY <1>1 DEF BusyWorkersHaveAJob, Busy
<1>7. RunningJobsAreWithinLimit'
  BY <1>1, <1>2, <1>4 DEF RunningJobsAreWithinLimit
<1>8. LockMeansCurrentAttempt'
  <2> SUFFICES ASSUME NEW v \in Worker, pc'[v] \in Busy, HoldsLock(v)'
               PROVE  claimed'[v] = attempts'[hand'[v]]
    BY DEF LockMeansCurrentAttempt
  <2>1. v # w /\ hand[v] \in Job /\ pc[v] \in Busy
    BY <1>1 DEF BusyWorkersHaveAJob, Busy
  <2>2. HoldsLock(v)
    BY <1>1, <1>2, <1>4, <2>1 DEF HoldsLock
  <2> QED
    BY <1>1, <2>1, <2>2 DEF LockMeansCurrentAttempt
<1>9. NoQueuedJobIsSpent'
  BY <1>1, <1>2, <1>4 DEF NoQueuedJobIsSpent
<1>10. DeadJobsWereTriedInFull'
  BY <1>1, <1>2, <1>4 DEF DeadJobsWereTriedInFull
<1>11. OneLiveRowPerKey'
  BY <1>1, <1>2, <1>4 DEF OneLiveRowPerKey, Active
<1> QED
  BY <1>5, <1>6, <1>7, <1>8, <1>9, <1>10, <1>11

\* ClaimJob settles expired locks and takes a row in one transaction.
LEMMA ClaimStep ==
  ASSUME QueueInv, TypeOK', NEW w \in Worker, NEW j \in Job, Claim(w, j)
  PROVE  QueueInv'
<1> USE DEF QueueInv, TypeOK
<1>1. /\ pc[w] = "polling" /\ j \in Waiting /\ attempts[j] < MaxAttempts[j]
      /\ status' = StatusAfterClaim(j)
      /\ attempts' = [attempts EXCEPT ![j] = @ + 1]
      /\ lockedBy' = [i \in Job |->
           IF i = j THEN w ELSE IF i \in stale THEN NoWorker ELSE lockedBy[i]]
      /\ stale' = {}
      /\ available' = Waiting \ {j}
      /\ pc' = [pc EXCEPT ![w] = "handling"]
      /\ hand' = [hand EXCEPT ![w] = j]
      /\ claimed' = [claimed EXCEPT ![w] = attempts[j] + 1]
  BY DEF Claim, Claimable
<1>2. \A i \in Job : attempts[i] \in Nat /\ MaxAttempts[i] \in Nat
  BY JobQueueAssumption
<1>3. /\ status'[j] = "running"
      /\ \A i \in Job \ {j} : attempts'[i] = attempts[i]
      /\ attempts'[j] = attempts[j] + 1
  BY <1>1 DEF StatusAfterClaim
<1>4. ASSUME NEW i \in Job, i # j
      PROVE  \/ /\ i \in stale /\ status[i] = "running" /\ lockedBy'[i] = NoWorker
                /\ \/ status'[i] = "dead" /\ attempts[i] = MaxAttempts[i]
                   \/ status'[i] = "queued" /\ attempts[i] < MaxAttempts[i]
             \/ /\ i \notin stale /\ status'[i] = status[i]
                /\ lockedBy'[i] = lockedBy[i]
  <2>1. CASE i \in stale
    <3>1. status[i] = "running" /\ attempts[i] \in 1 .. MaxAttempts[i]
      BY <2>1 DEF TimeSetsMatchStatus, RunningJobsAreWithinLimit
    <3>2. CASE i \in Buried
      BY <1>1, <1>2, <1>4, <2>1, <3>1, <3>2 DEF StatusAfterClaim, Buried, Exhausted
    <3>3. CASE i \notin Buried
      BY <1>1, <1>2, <1>4, <2>1, <3>1, <3>3
         DEF StatusAfterClaim, Buried, Requeued, Exhausted
    <3> QED
      BY <3>2, <3>3
  <2>2. CASE i \notin stale
    BY <1>1, <1>4, <2>2 DEF StatusAfterClaim, Buried, Requeued
  <2> QED
    BY <2>1, <2>2
<1>5. ASSUME NEW i \in Waiting PROVE i \in Job /\ status[i] \in Active
  BY <1>5 DEF Waiting, Requeued, Buried, TimeSetsMatchStatus, Active
<1>6. TimeSetsMatchStatus'
  <2> SUFFICES ASSUME NEW i \in Waiting, i # j PROVE status'[i] = "queued"
    BY <1>1 DEF TimeSetsMatchStatus
  <2>1. i \in Requeued \/ (i \in available /\ status[i] = "queued" /\ i \notin stale)
    BY DEF Waiting, TimeSetsMatchStatus
  <2>2. i \in Job /\ i \notin Buried
    BY <1>5, <2>1 DEF Requeued, Buried
  <2> QED
    BY <1>1, <2>1, <2>2 DEF StatusAfterClaim
<1>7. BusyWorkersHaveAJob'
  BY <1>1 DEF BusyWorkersHaveAJob
<1>8. RunningJobsAreWithinLimit'
  <2> SUFFICES ASSUME NEW i \in Job, status'[i] = "running"
               PROVE  attempts'[i] \in 1 .. MaxAttempts[i]
    BY DEF RunningJobsAreWithinLimit
  <2>1. CASE i = j
    BY <1>1, <1>2, <1>3, <2>1
  <2>2. CASE i # j
    BY <1>3, <1>4, <2>2 DEF RunningJobsAreWithinLimit
  <2> QED
    BY <2>1, <2>2
<1>9. LockMeansCurrentAttempt'
  <2> SUFFICES ASSUME NEW v \in Worker, pc'[v] \in Busy, HoldsLock(v)'
               PROVE  claimed'[v] = attempts'[hand'[v]]
    BY DEF LockMeansCurrentAttempt
  <2>1. CASE v = w
    BY <1>1, <1>3, <2>1
  <2>2. CASE v # w
    <3>1. /\ pc[v] \in Busy /\ hand'[v] = hand[v] /\ hand[v] \in Job
          /\ claimed'[v] = claimed[v]
      BY <1>1, <2>2 DEF BusyWorkersHaveAJob
    <3>2. status'[hand[v]] = "running" /\ lockedBy'[hand[v]] = v
      BY <3>1 DEF HoldsLock
    <3>3. hand[v] # j
      BY <1>1, <2>2, <3>2
    <3>4. HoldsLock(v)
      BY <1>4, <3>1, <3>2, <3>3, JobQueueAssumption DEF HoldsLock
    <3> QED
      BY <1>3, <3>1, <3>3, <3>4 DEF LockMeansCurrentAttempt
  <2> QED
    BY <2>1, <2>2
<1>10. NoQueuedJobIsSpent'
  BY <1>3, <1>4 DEF NoQueuedJobIsSpent
<1>11. DeadJobsWereTriedInFull'
  BY <1>3, <1>4 DEF DeadJobsWereTriedInFull
<1>12. OneLiveRowPerKey'
  <2>1. \A i \in Job : status'[i] \in Active => status[i] \in Active
    BY <1>1, <1>4, <1>5 DEF Active
  <2> QED
    BY <2>1 DEF OneLiveRowPerKey
<1> QED
  BY <1>6, <1>7, <1>8, <1>9, <1>10, <1>11, <1>12

\* Every other step leaves alone what a lock holder remembers.
LEMMA InvStep == QueueInv /\ [Next]_vars => QueueInv'
<1> SUFFICES ASSUME QueueInv, [Next]_vars PROVE QueueInv'
  OBVIOUS
<1>0. TypeOK'
  BY TypeStep DEF QueueInv
<1> USE DEF QueueInv, TypeOK, TimeSetsMatchStatus, BusyWorkersHaveAJob,
  RunningJobsAreWithinLimit, NoQueuedJobIsSpent, DeadJobsWereTriedInFull
<1>1. ASSUME NEW j \in Job, Enqueue(j) PROVE QueueInv'
  <2>1. /\ status[j] = "absent" /\ KeyFree(j)
        /\ status' = [status EXCEPT ![j] = "queued"]
        /\ attempts' = [attempts EXCEPT ![j] = 0]
        /\ available' \subseteq available \cup {j}
        /\ UNCHANGED <<lockedBy, stale, pc, hand, claimed, faults>>
    BY <1>1 DEF Enqueue, MakeAvailable, workerVars
  <2>2. LockMeansCurrentAttempt'
    BY <2>1 DEF LockMeansCurrentAttempt, HoldsLock
  <2>3. OneLiveRowPerKey'
    BY <2>1 DEF OneLiveRowPerKey, KeyFree
  <2>4. MaxAttempts[j] \in Nat \ {0}
    BY JobQueueAssumption
  <2> QED
    BY <1>0, <2>1, <2>2, <2>3, <2>4
<1>2. ASSUME NEW j \in Job, Postpone(j) PROVE QueueInv'
  BY <1>0, <1>2 DEF Postpone, Withdraw, workerVars,
    LockMeansCurrentAttempt, HoldsLock, OneLiveRowPerKey
<1>3. ASSUME NEW j \in Job, Cancel(j) \/ Purge(j) PROVE QueueInv'
  <2>1. PICK s \in {"dead", "absent"} :
          /\ status' = [status EXCEPT ![j] = s]
          /\ s = "dead" => j \in Deferrable
          /\ status[j] # "running" /\ available' \subseteq available \ {j}
          /\ \A i \in Job \ {j} : attempts'[i] = attempts[i]
          /\ UNCHANGED <<lockedBy, stale, pc, hand, claimed, faults>>
    BY <1>3 DEF Cancel, Purge, Withdraw, Settled, workerVars
  <2>2. LockMeansCurrentAttempt'
    BY <2>1 DEF LockMeansCurrentAttempt, HoldsLock
  <2>3. OneLiveRowPerKey'
    BY <2>1 DEF OneLiveRowPerKey, Active
  <2> QED
    BY <1>0, <2>1, <2>2, <2>3
<1>4. ASSUME NEW j \in Job, BecomeAvailable(j) \/ LockExpires(j) PROVE QueueInv'
  BY <1>0, <1>4 DEF BecomeAvailable, MakeAvailable, LockExpires, workerVars,
    LockMeansCurrentAttempt, HoldsLock, OneLiveRowPerKey
<1>5. ASSUME NEW w \in Worker, Poll(w) PROVE QueueInv'
  BY <1>0, <1>5, ClaimStep DEF Poll
<1>6. ASSUME NEW w \in Worker, CompleteJob(w) \/ FailJob(w) PROVE QueueInv'
  BY <1>0, <1>6, ReportStep
<1>7. ASSUME NEW w \in Worker,
             Return(w) \/ LateReport(w) \/ LoseReport(w) \/ Crash(w) \/ Restart(w)
      PROVE  QueueInv'
  <2>1. /\ UNCHANGED tableVars
        /\ \A v \in Worker : pc'[v] \in Busy =>
             pc[v] \in Busy /\ hand'[v] = hand[v] /\ claimed'[v] = claimed[v]
    BY <1>7 DEF Return, HandlerReturns, LateReport, LoseReport, Crash, Restart,
      NextPoll, tableVars, Busy
  <2>2. LockMeansCurrentAttempt'
    BY <2>1 DEF LockMeansCurrentAttempt, HoldsLock, tableVars
  <2>3. OneLiveRowPerKey'
    BY <2>1 DEF OneLiveRowPerKey, tableVars
  <2> QED
    BY <1>0, <2>1, <2>2, <2>3 DEF tableVars
<1>8. CASE UNCHANGED vars
  BY <1>0, <1>8 DEF vars, tableVars, workerVars,
    LockMeansCurrentAttempt, HoldsLock, OneLiveRowPerKey
<1> QED
  BY <1>1, <1>2, <1>3, <1>4, <1>5, <1>6, <1>7, <1>8 DEF Next, Report

\* The inductive invariant holds in every reachable state.
THEOREM QueueIsConsistent == Spec => []QueueInv
<1>1. Init => QueueInv
  BY JobQueueAssumption DEF Init, QueueInv, TypeOK, Status, Active, Settled,
    WorkerPc, Busy, TimeSetsMatchStatus, BusyWorkersHaveAJob,
    RunningJobsAreWithinLimit, LockMeansCurrentAttempt, NoQueuedJobIsSpent,
    DeadJobsWereTriedInFull, OneLiveRowPerKey
<1> QED
  BY <1>1, InvStep, PTL DEF Spec

\* A worker that still holds the lock of its job is running the row's current
\* attempt, so an ownership check by name alone is enough (jobs.go:169, 195).
THEOREM LockNamesCurrentAttempt == Spec => []LockMeansCurrentAttempt
BY QueueIsConsistent, PTL DEF QueueInv

\* No row stays queued with its attempts spent, where nothing would find it.
THEOREM QueuedJobsCanBeClaimed == Spec => []NoQueuedJobIsSpent
BY QueueIsConsistent, PTL DEF QueueInv

\* A row is buried only after max_attempts tries or by its owner's cancel.
THEOREM BuriedJobsWereTried == Spec => []DeadJobsWereTriedInFull
BY QueueIsConsistent, PTL DEF QueueInv

\* A dedupe key never has two live rows.
THEOREM DedupeKeysAreUnique == Spec => []OneLiveRowPerKey
BY QueueIsConsistent, PTL DEF QueueInv

-----------------------------------------------------------------------------
(* The job table implements DurableJob.                                     *)

\* What the refinement mapping makes of a row, as rewriting rules.
LEMMA PhaseValues ==
  /\ PhaseOf("absent") = "none"
  /\ PhaseOf("queued") = "owed" /\ PhaseOf("running") = "owed"
  /\ PhaseOf("succeeded") = "done" /\ PhaseOf("dead") = "given_up"
BY DEF PhaseOf, Active

\* Every transaction moves every row by a step the promise allows.
LEMMA PromiseStep ==
  QueueInv /\ [Next]_vars => [Promise!Next]_(Promise!vars)
<1> SUFFICES ASSUME QueueInv, Next PROVE Promise!Next
  BY DEF vars, tableVars, Promise!vars
<1> USE DEF QueueInv
<1>0. TypeOK'
  BY TypeStep
<1>1. \A s \in Status : PhaseOf(s) \in Promise!Phase
  BY PhaseValues DEF Status, Active, Settled, Promise!Phase
<1>2. SUFFICES \A i \in Job : Promise!Step(i)
  BY <1>0, <1>1 DEF TypeOK, Promise!Next
<1> USE DEF Promise!Step, Promise!Stay, Promise!SameTries, Promise!Move
<1>3. ASSUME UNCHANGED <<status, attempts>> PROVE \A i \in Job : Promise!Step(i)
  BY <1>3
<1>4. ASSUME NEW j \in Job, Enqueue(j) PROVE \A i \in Job : Promise!Step(i)
  <2>1. ASSUME NEW i \in Job, i # j PROVE Promise!Stay(i)
    BY <1>4, <2>1 DEF Enqueue, TypeOK
  <2>2. Promise!Accept(j)
    BY <1>4, PhaseValues DEF Enqueue, TypeOK, Promise!Accept
  <2> QED
    BY <2>1, <2>2
<1>5. ASSUME NEW j \in Job, Cancel(j) PROVE \A i \in Job : Promise!Step(i)
  <2>1. ASSUME NEW i \in Job, i # j PROVE Promise!Stay(i)
    BY <1>5, <2>1 DEF Cancel, TypeOK
  <2>2. Promise!GiveUp(j)
    BY <1>5, PhaseValues DEF Cancel, TypeOK, Promise!GiveUp
  <2> QED
    BY <2>1, <2>2
<1>6. ASSUME NEW j \in Job, Purge(j) PROVE \A i \in Job : Promise!Step(i)
  <2>1. ASSUME NEW i \in Job, i # j PROVE Promise!Stay(i)
    BY <1>6, <2>1 DEF Purge, TypeOK
  <2>2. Promise!Forget(j)
    BY <1>6, PhaseValues DEF Purge, TypeOK, Settled, Promise!Forget
  <2> QED
    BY <2>1, <2>2
<1>7. ASSUME NEW w \in Worker, NEW j \in Job, Claim(w, j)
      PROVE  \A i \in Job : Promise!Step(i)
  <2>1. /\ j \in Waiting /\ attempts[j] < MaxAttempts[j]
        /\ status' = StatusAfterClaim(j)
        /\ attempts' = [attempts EXCEPT ![j] = @ + 1]
    BY <1>7 DEF Claim, Claimable
  <2>2. ASSUME NEW i \in Job, i # j PROVE Promise!Step(i)
    <3>1. attempts'[i] = attempts[i]
      BY <2>1, <2>2 DEF TypeOK
    <3>2. CASE i \in Buried
      <4>1. status[i] = "running" /\ status'[i] = "dead"
        BY <2>1, <2>2, <3>2 DEF Buried, StatusAfterClaim, TimeSetsMatchStatus
      <4>2. attempts[i] = MaxAttempts[i]
        <5>1. attempts[i] \in 1 .. MaxAttempts[i]
          BY <4>1 DEF RunningJobsAreWithinLimit
        <5>2. attempts[i] >= MaxAttempts[i]
          BY <3>2 DEF Buried, Exhausted
        <5>3. MaxAttempts[i] \in Nat
          BY JobQueueAssumption
        <5> QED
          BY <5>1, <5>2, <5>3
      <4>3. Promise!GiveUp(i)
        BY <3>1, <4>1, <4>2, PhaseValues DEF Promise!GiveUp
      <4> QED
        BY <4>3
    <3>3. CASE i \in Requeued
      <4>1. status[i] = "running" /\ status'[i] = "queued"
        BY <2>1, <2>2, <3>3 DEF Requeued, StatusAfterClaim, TimeSetsMatchStatus
      <4> QED
        BY <3>1, <4>1, PhaseValues
    <3>4. CASE i \notin Buried \cup Requeued
      BY <2>1, <2>2, <3>1, <3>4 DEF StatusAfterClaim
    <3> QED
      BY <3>2, <3>3, <3>4
  <2>3. Promise!Try(j)
    <3>1. status[j] \in Active /\ status'[j] = "running"
      BY <2>1 DEF Waiting, Requeued, TimeSetsMatchStatus, StatusAfterClaim, Active
    <3>2. attempts'[j] = attempts[j] + 1
      BY <2>1 DEF TypeOK
    <3> QED
      BY <2>1, <3>1, <3>2, PhaseValues DEF Active, Promise!Try
  <2> QED
    BY <2>2, <2>3
<1>8. ASSUME NEW w \in Worker, CompleteJob(w) \/ FailJob(w)
      PROVE  \A i \in Job : Promise!Step(i)
  <2> DEFINE j == hand[w]
  <2>1. /\ attempts' = attempts
        /\ j \in Job /\ status[j] = "running"
        /\ claimed[w] = attempts[j]
    BY <1>8 DEF CompleteJob, FailJob, Release, HoldsLock, BusyWorkersHaveAJob,
      Busy, LockMeansCurrentAttempt
  <2>2. attempts[j] \in 1 .. MaxAttempts[j] /\ MaxAttempts[j] \in Nat
    BY <2>1, JobQueueAssumption DEF RunningJobsAreWithinLimit
  <2>3. PICK s \in {"succeeded", "dead", "queued"} :
          /\ status' = [status EXCEPT ![j] = s]
          /\ s = "dead" => attempts[j] = MaxAttempts[j]
    <3>1. CASE CompleteJob(w)
      BY <3>1 DEF CompleteJob, Release
    <3>2. CASE FailJob(w)
      <4>1. CASE claimed[w] >= MaxAttempts[j]
        BY <2>1, <2>2, <3>2, <4>1 DEF FailJob, Release
      <4>2. CASE ~(claimed[w] >= MaxAttempts[j])
        BY <3>2, <4>2 DEF FailJob, Release
      <4> QED
        BY <4>1, <4>2
    <3> QED
      BY <1>8, <3>1, <3>2
  <2>4. ASSUME NEW i \in Job, i # j PROVE Promise!Stay(i)
    BY <2>1, <2>3, <2>4 DEF TypeOK
  <2>5. status'[j] = s
    BY <2>1, <2>3 DEF TypeOK
  <2>6. Promise!Step(j)
    BY <2>1, <2>2, <2>3, <2>5, PhaseValues DEF Promise!Finish, Promise!GiveUp
  <2> QED
    BY <2>4, <2>6
<1>9. ASSUME NEW j \in Job, Postpone(j) \/ BecomeAvailable(j) \/ LockExpires(j)
      PROVE  \A i \in Job : Promise!Step(i)
  BY <1>3, <1>9 DEF Postpone, BecomeAvailable, LockExpires
<1>10. ASSUME NEW w \in Worker,
              Return(w) \/ LateReport(w) \/ LoseReport(w) \/ Crash(w) \/ Restart(w)
       PROVE  \A i \in Job : Promise!Step(i)
  BY <1>3, <1>10 DEF Return, HandlerReturns, LateReport, LoseReport, Crash,
    Restart, tableVars
<1> QED
  BY <1>4, <1>5, <1>6, <1>7, <1>8, <1>9, <1>10 DEF Next, Poll, Report

\* Workers, locks, retries and recovery are invisible to whoever enqueues: the
\* table is a durable job list that tries a job at most max_attempts times.
THEOREM QueueKeepsPromise == Spec => KeepsPromise
<1>1. Init => Promise!Init
  BY PhaseValues DEF Init, Promise!Init
<1> QED
  BY <1>1, PromiseStep, QueueIsConsistent, PTL DEF Spec, KeepsPromise, Promise!Spec
=============================================================================
