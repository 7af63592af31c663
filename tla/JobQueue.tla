------------------------------ MODULE JobQueue ------------------------------
(***************************************************************************)
(* The durable job table (internal/store/jobs.go) and the worker processes *)
(* that poll it (Worker.Run in internal/worker/worker.go).                 *)
(*                                                                         *)
(* Each store method is one database transaction and is one action here.   *)
(* What a handler does between the claim and its report is left to the     *)
(* modules that extend this one; here it only returns, with or without an  *)
(* error.  Time is abstracted to the two comparisons the code makes with   *)
(* now(): a queued row is `available` once available_at has passed, and a  *)
(* running row is `stale` once locked_at is older than the job timeout.    *)
(***************************************************************************)
EXTENDS Naturals

CONSTANTS
  Job,          \* rows of the jobs table
  Worker,       \* worker processes; WORKER_ID defaults to the host name, so
                \* processes have distinct ids and a restarted one keeps its id
  NoJob, NoWorker,
  Key,          \* dedupe keys; a row without a key has one nobody shares
  KeyOf,        \* Job -> Key
  MaxAttempts,  \* Job -> max_attempts
  Recurring,    \* maintenance.cleanup, enqueued by every worker each hour
  Deferrable,   \* account.delete, whose owner may postpone or cancel it
  MaxFaults     \* bound: crashes and lost report writes in a behaviour

ASSUME JobQueueAssumption ==
  /\ MaxAttempts \in [Job -> Nat \ {0}]
  /\ KeyOf \in [Job -> Key]
  /\ Recurring \subseteq Job /\ Deferrable \subseteq Job
  /\ NoJob \notin Job /\ NoWorker \notin Worker
  /\ MaxFaults \in Nat

VARIABLES
  status,       \* Job -> jobs.status, or "absent" when there is no row
  attempts,     \* Job -> jobs.attempts
  lockedBy,     \* Job -> jobs.locked_by
  stale,        \* running rows with locked_at < now() - jobTimeout
  available,    \* queued rows with available_at <= now()
  ahead,        \* Job -> the available rows with an earlier available_at
  pc,           \* Worker -> where its Run loop stands
  hand,         \* Worker -> the job ClaimJob returned to it
  claimed,      \* Worker -> job.Attempts as ClaimJob returned it
  faults        \* faults used up, bounded by MaxFaults

tableVars == <<status, attempts, lockedBy, stale, available, ahead>>
workerVars == <<pc, hand, claimed>>
vars == <<tableVars, workerVars, faults>>

Settled == {"succeeded", "dead"}
Active == {"queued", "running"}
Status == {"absent"} \cup Active \cup Settled

\* Run loop: waiting for work, inside handle, or about to report its result.
Busy == {"handling", "succeeded", "failed"}
WorkerPc == {"polling", "down"} \cup Busy

TypeOK ==
  /\ status \in [Job -> Status]
  /\ attempts \in [Job -> Nat]
  /\ lockedBy \in [Job -> Worker \cup {NoWorker}]
  /\ stale \subseteq Job
  /\ available \subseteq Job
  /\ ahead \in [Job -> SUBSET Job]
  /\ pc \in [Worker -> WorkerPc]
  /\ hand \in [Worker -> Job \cup {NoJob}]
  /\ claimed \in [Worker -> Nat]
  /\ faults \in Nat

Init ==
  /\ status = [j \in Job |-> "absent"]
  /\ attempts = [j \in Job |-> 0]
  /\ lockedBy = [j \in Job |-> NoWorker]
  /\ stale = {}
  /\ available = {}
  /\ ahead = [j \in Job |-> {}]
  /\ pc = [w \in Worker |-> "polling"]
  /\ hand = [w \in Worker |-> NoJob]
  /\ claimed = [w \in Worker |-> 0]
  /\ faults = 0

-----------------------------------------------------------------------------
(* The order of available rows: available_at, ties broken either way.      *)

MakeAvailable(j) ==
  /\ available' = available \cup {j}
  /\ ahead' = [ahead EXCEPT ![j] = available]

Withdraw(j) ==
  /\ available' = available \ {j}
  /\ ahead' = [i \in Job |-> IF i = j THEN {} ELSE ahead[i] \ {j}]

-----------------------------------------------------------------------------
(* Producers and the passage of time.                                      *)

\* Mutant: the index covers queued rows only.
KeyNotQueued(j) == \A i \in Job : KeyOf[i] = KeyOf[j] => status[i] # "queued"

\* The partial unique index jobs_active_dedupe: an enqueue that finds a
\* queued or running row with its key inserts nothing.
KeyFree(j) == \A i \in Job : KeyOf[i] = KeyOf[j] => status[i] \notin Active

\* EnqueueJob and the INSERTs in CreateSubmission, CreateAccountExport, ...;
\* account.delete starts with available_at at the end of the grace period.
Enqueue(j) ==
  /\ status[j] = "absent"
  /\ KeyFree(j)
  /\ status' = [status EXCEPT ![j] = "queued"]
  /\ attempts' = [attempts EXCEPT ![j] = 0]
  /\ IF j \in Deferrable THEN UNCHANGED <<available, ahead>> ELSE MakeAvailable(j)
  /\ UNCHANGED <<lockedBy, stale, workerVars, faults>>

\* A repeated deletion request moves available_at of the row it finds.
Postpone(j) ==
  /\ j \in Deferrable /\ status[j] \in Active
  /\ Withdraw(j)
  /\ UNCHANGED <<status, attempts, lockedBy, stale, workerVars, faults>>

\* CancelAccountDeletion refuses a running job and buries a queued one.
Cancel(j) ==
  /\ j \in Deferrable /\ status[j] = "queued"
  /\ status' = [status EXCEPT ![j] = "dead"]
  /\ Withdraw(j)
  /\ UNCHANGED <<attempts, lockedBy, stale, workerVars, faults>>

\* CleanupDatabase deletes rows settled 30 days ago, far beyond any handler.
Purge(j) ==
  /\ status[j] \in Settled
  /\ \A w \in Worker : hand[w] # j
  /\ status' = [status EXCEPT ![j] = "absent"]
  /\ attempts' = [attempts EXCEPT ![j] = 0]
  /\ UNCHANGED <<lockedBy, stale, available, ahead, workerVars, faults>>

BecomeAvailable(j) ==
  /\ status[j] = "queued" /\ j \notin available
  /\ MakeAvailable(j)
  /\ UNCHANGED <<status, attempts, lockedBy, stale, workerVars, faults>>

LockExpires(j) ==
  /\ status[j] = "running" /\ j \notin stale
  /\ stale' = stale \cup {j}
  /\ UNCHANGED <<status, attempts, lockedBy, available, ahead, workerVars, faults>>

-----------------------------------------------------------------------------
(* ClaimJob: one transaction that recovers expired locks and takes the     *)
(* oldest available row.  When no row is left to take it returns before    *)
(* its commit, so the recovery is rolled back: the whole action is then    *)
(* disabled, and the expired locks stay as they are.                       *)

\* Mutant: an off-by-one in the burial of expired rows.
NearlyExhausted(j) == attempts[j] + 1 >= MaxAttempts[j]

Exhausted(j) == attempts[j] >= MaxAttempts[j]
Buried == {j \in stale : Exhausted(j)}
Requeued == stale \ Buried
Waiting == available \cup Requeued

\* Mutant: the newest row first, ORDER BY available_at DESC.
SucceedsIt(i, j) == i \in available /\ j \in ahead[i]

\* Rows the recovery requeued get available_at = now(), after all others.
Precedes(i, j) ==
  /\ i \in available
  /\ ~Exhausted(i)
  /\ j \in Requeued \/ i \in ahead[j]

Claimable(j) ==
  /\ j \in Waiting
  /\ attempts[j] < MaxAttempts[j]
  /\ \A i \in Waiting : ~Precedes(i, j)

StatusAfterClaim(j) == [i \in Job |->
  IF i = j THEN "running"
  ELSE IF i \in Buried THEN "dead"
  ELSE IF i \in Requeued THEN "queued" ELSE status[i]]

Claim(w, j) ==
  /\ pc[w] = "polling"
  /\ Claimable(j)
  /\ status' = StatusAfterClaim(j)
  /\ attempts' = [attempts EXCEPT ![j] = @ + 1]
  /\ lockedBy' = [i \in Job |->
       IF i = j THEN w ELSE IF i \in stale THEN NoWorker ELSE lockedBy[i]]
  /\ stale' = {}
  /\ available' = Waiting \ {j}
  /\ ahead' = [i \in Job |->
       IF i = j THEN {} ELSE (IF i \in Requeued THEN available ELSE ahead[i]) \ {j}]
  /\ pc' = [pc EXCEPT ![w] = "handling"]
  /\ hand' = [hand EXCEPT ![w] = j]
  /\ claimed' = [claimed EXCEPT ![w] = attempts[j] + 1]
  /\ UNCHANGED faults

-----------------------------------------------------------------------------
(* The rest of the Run loop.                                               *)

\* handle returns, with an error at the latest when its context times out.
HandlerReturns(w, outcome) ==
  /\ pc[w] = "handling"
  /\ pc' = [pc EXCEPT ![w] = outcome]
  /\ UNCHANGED <<tableVars, hand, claimed, faults>>

NextPoll(w) ==
  /\ pc' = [pc EXCEPT ![w] = "polling"]
  /\ hand' = [hand EXCEPT ![w] = NoJob]
  /\ claimed' = [claimed EXCEPT ![w] = 0]

\* Mutant: the report matches the row by its status alone.
RunsForSomebody(w) ==
  LET j == hand[w] IN status[j] = "running"

\* The WHERE clause of CompleteJob and FailJob.
HoldsLock(w) ==
  LET j == hand[w] IN status[j] = "running" /\ lockedBy[j] = w

Release(j, newStatus) ==
  /\ status' = [status EXCEPT ![j] = newStatus]
  /\ lockedBy' = [lockedBy EXCEPT ![j] = NoWorker]
  /\ stale' = stale \ {j}
  /\ UNCHANGED <<attempts, available, ahead>>

\* Mutant: the completion matches the row by its id alone.
CompleteAnyway(w) ==
  /\ pc[w] = "succeeded"
  /\ Release(hand[w], "succeeded")
  /\ NextPoll(w)
  /\ UNCHANGED faults

CompleteJob(w) ==
  /\ pc[w] = "succeeded"
  /\ HoldsLock(w)
  /\ Release(hand[w], "succeeded")
  /\ NextPoll(w)
  /\ UNCHANGED faults

\* Mutant: `>` instead of `>=` when the attempts are compared.
FailJobTooLate(w) ==
  /\ pc[w] = "failed"
  /\ HoldsLock(w)
  /\ Release(hand[w],
             IF claimed[w] > MaxAttempts[hand[w]] THEN "dead" ELSE "queued")
  /\ NextPoll(w)
  /\ UNCHANGED faults

\* Mutant: a status the schema's CHECK does not know.
FailJobAsFailed(w) ==
  /\ pc[w] = "failed"
  /\ HoldsLock(w)
  /\ Release(hand[w], "failed")
  /\ NextPoll(w)
  /\ UNCHANGED faults

\* FailJob compares the attempt ClaimJob returned, not the row's; a row it
\* requeues waits for its backoff before it is available again.
FailJob(w) ==
  /\ pc[w] = "failed"
  /\ HoldsLock(w)
  /\ Release(hand[w],
             IF claimed[w] >= MaxAttempts[hand[w]] THEN "dead" ELSE "queued")
  /\ NextPoll(w)
  /\ UNCHANGED faults

\* No row matched (ErrConflict): the lock was taken away; only logged.
LateReport(w) ==
  /\ pc[w] \in {"succeeded", "failed"}
  /\ ~HoldsLock(w)
  /\ NextPoll(w)
  /\ UNCHANGED <<tableVars, faults>>

Report(w) == CompleteJob(w) \/ FailJob(w) \/ LateReport(w)

\* The report's database write fails; it is logged and the row stays locked.
LoseReport(w) ==
  /\ pc[w] \in {"succeeded", "failed"}
  /\ faults < MaxFaults /\ faults' = faults + 1
  /\ NextPoll(w)
  /\ UNCHANGED tableVars

\* The process stops, or shuts down: its context is cancelled, so the report
\* of the job it was running fails as well.
Crash(w) ==
  /\ pc[w] # "down"
  /\ faults < MaxFaults /\ faults' = faults + 1
  /\ pc' = [pc EXCEPT ![w] = "down"]
  /\ hand' = [hand EXCEPT ![w] = NoJob]
  /\ claimed' = [claimed EXCEPT ![w] = 0]
  /\ UNCHANGED tableVars

Restart(w) ==
  /\ pc[w] = "down"
  /\ pc' = [pc EXCEPT ![w] = "polling"]
  /\ UNCHANGED <<tableVars, hand, claimed, faults>>

-----------------------------------------------------------------------------
Poll(w) == \E j \in Job : Claim(w, j)
Return(w) == HandlerReturns(w, "succeeded") \/ HandlerReturns(w, "failed")

Next ==
  \/ \E j \in Job :
       \/ Enqueue(j) \/ Postpone(j) \/ Cancel(j) \/ Purge(j)
       \/ BecomeAvailable(j) \/ LockExpires(j)
  \/ \E w \in Worker :
       Poll(w) \/ Return(w) \/ Report(w) \/ LoseReport(w) \/ Crash(w) \/ Restart(w)

\* Clocks advance, handlers time out, the Run loop goes round, the service
\* manager restarts a stopped process, and each hour the loop enqueues
\* maintenance.cleanup again.  Nothing obliges users to enqueue anything.
Fairness ==
  /\ \A j \in Job : WF_vars(BecomeAvailable(j)) /\ WF_vars(LockExpires(j))
  /\ \A j \in Recurring : WF_vars(Enqueue(j)) /\ WF_vars(Purge(j))
  /\ \A w \in Worker :
       WF_vars(Poll(w)) /\ WF_vars(Return(w)) /\ WF_vars(Report(w)) /\ WF_vars(Restart(w))

Spec == Init /\ [][Next]_vars
FairSpec == Spec /\ Fairness

-----------------------------------------------------------------------------
(* Properties.                                                             *)

\* The report statements compare only locked_by, so a worker whose lock was
\* taken away must never meet its own name on a later attempt of the row: a
\* worker that still holds the lock of its job is running the row's current
\* attempt (jobs.go:169, jobs.go:195).
LockMeansCurrentAttempt ==
  \A w \in Worker :
    pc[w] \in Busy /\ HoldsLock(w) => claimed[w] = attempts[hand[w]]

\* A queued row whose attempts are spent would match no claim and no
\* recovery and stay queued for ever; the three places that decide between
\* requeueing and burying (jobs.go:100, jobs.go:123, jobs.go:182) agree.
NoQueuedJobIsSpent ==
  \A j \in Job : status[j] = "queued" => attempts[j] < MaxAttempts[j]

\* A row is buried only with its attempts spent, or by its owner's cancel;
\* no expired lock or late report shortens its retries.
DeadJobsWereTriedInFull ==
  \A j \in Job :
    status[j] = "dead" => attempts[j] = MaxAttempts[j] \/ j \in Deferrable

\* At most one live row per dedupe key, whatever recovery requeues.
OneLiveRowPerKey ==
  \A i, j \in Job :
    i # j /\ status[i] \in Active /\ status[j] \in Active => KeyOf[i] # KeyOf[j]

\* Bookkeeping of the two time comparisons, needed by the proofs.
TimeSetsMatchStatus ==
  /\ \A j \in available : status[j] = "queued"
  /\ \A j \in stale : status[j] = "running"

\* A worker that handles or reports has a row in its hand.
BusyWorkersHaveAJob ==
  \A w \in Worker : pc[w] \in Busy => hand[w] \in Job

\* A running row has been tried, and never more often than allowed.
RunningJobsAreWithinLimit ==
  \A j \in Job : status[j] = "running" => attempts[j] \in 1 .. MaxAttempts[j]

\* The inductive invariant behind the theorems of JobQueueProofs.
QueueInv ==
  /\ TypeOK
  /\ TimeSetsMatchStatus
  /\ BusyWorkersHaveAJob
  /\ RunningJobsAreWithinLimit
  /\ LockMeansCurrentAttempt
  /\ NoQueuedJobIsSpent
  /\ DeadJobsWereTriedInFull
  /\ OneLiveRowPerKey

\* The job table keeps the promise of DurableJob: queued and running rows are
\* owed work, the handler runs counted by attempts are the tries, and every
\* transaction, the recovering claim included, is a step the promise allows.
PhaseOf(s) ==
  CASE s = "absent"    -> "none"
    [] s \in Active    -> "owed"
    [] s = "succeeded" -> "done"
    [] s = "dead"      -> "given_up"
Promise == INSTANCE DurableJob WITH
  phase <- [j \in Job |-> PhaseOf(status[j])],
  tries <- attempts,
  Cancellable <- Deferrable
KeepsPromise == Promise!Spec

\* Every job a user's request enqueued is settled in the end, unless its owner
\* keeps postponing it: no worker death, expired lock or failing handler
\* loses it, and jobs that come later do not starve it (jobs.go:125).  An
\* expired last attempt is settled only by a claim that finds another row,
\* so this rests on maintenance.cleanup coming back each hour.
RequestedJobsSettle ==
  \A j \in Job \ (Deferrable \cup Recurring) :
    status[j] \in Active ~> status[j] \notin Active
=============================================================================
