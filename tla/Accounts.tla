------------------------------ MODULE Accounts ------------------------------
(***************************************************************************)
(* One account, its clips in the object store, and the three jobs that     *)
(* copy or remove them: account.export, account.delete and                 *)
(* maintenance.cleanup (internal/store/accounts.go, the handlers of        *)
(* internal/worker/worker.go and internal/httpapi/account_handlers.go).    *)
(*                                                                         *)
(* Each call of a handler, to the database or to the store, is an action:  *)
(* the three jobs run beside each other and beside the user's requests,    *)
(* and an attempt may end between any two calls.  The queue is reduced to  *)
(* what JobQueue shows of it: a row has one attempt at a time, every       *)
(* attempt is counted, and the last one buries it.                         *)
(***************************************************************************)
EXTENDS Naturals, FiniteSets

CONSTANTS
  Export,           \* account_exports rows, each with the job that builds it
  Upload,           \* media_uploads rows of the account
  Deletion,         \* the account.delete job
  Cleanup,          \* the maintenance.cleanup job
  Nothing,
  MaxTries,         \* Job -> max_attempts
  MaxFaults,        \* bound: calls that fail and workers that stop
  DueArguments,     \* whether AccountDeletionMedia may pass its first query the
                    \* argument $1: {FALSE} in the code as it is
  Outcomes          \* what analyses may do to a clip

Job == Export \cup {Deletion, Cleanup}

ASSUME AccountsAssumption ==
  /\ Export \cap {Deletion, Cleanup, Nothing} = {}
  /\ Deletion # Cleanup /\ Nothing \notin Upload
  /\ MaxTries \in [Job -> Nat \ {0}] /\ MaxFaults \in Nat
  /\ DueArguments \subseteq BOOLEAN /\ DueArguments # {}
  /\ Outcomes \subseteq {"processed", "rejected"}

VARIABLES
  user,             \* users.status
  request,          \* account_deletion_requests: "none", "open", ...
  due,              \* its execute_after has passed
  customer,         \* RevenueCat has a customer record
  export,           \* Export -> account_exports.status, "absent" without a row
  outdated,         \* ready exports whose expires_at has passed
  upload,           \* Upload -> media_uploads.status, "absent" without a row
  completing,       \* uploads in a transaction of CompletePaidMediaUpload
  submitted,        \* uploads with a submission
  recorded,         \* uploads with a processed_object_key
  swapped,          \* those whose object_key is the processed clip by now
  lapsed,           \* uploads whose time in their status has passed
  late,             \* history: uploads whose completion committed after it had
  objects,          \* keys in the object store
  named,            \* keys that a row of the account has ever named
  job,              \* Job -> jobs.status, "none" without a row
  tries,            \* Job -> jobs.attempts
  parked,           \* the deletion's available_at is its execute_after, ahead
  pc,               \* Job -> next call of its attempt
  todo,             \* Job -> what its loop has left
  hand,             \* the object the cleanup has removed and not yet marked
  faults

accountVars == <<user, request, due, customer>>
exportVars == <<export, outdated>>
mediaVars == <<upload, completing, submitted, recorded, swapped, lapsed, late>>
storeVars == <<objects, named>>
queueVars == <<job, tries, parked>>
attemptVars == <<pc, todo, hand>>
vars == <<accountVars, exportVars, mediaVars, storeVars, queueVars, attemptVars, faults>>

-----------------------------------------------------------------------------
(* Keys and rows.                                                          *)

Original(u) == <<"original", u>>
Processed(u) == <<"processed", u>>
Archive(e) == <<"archive", e>>
Keys == ({"original", "processed"} \X Upload) \cup ({"archive"} \X Export)

\* media_uploads.object_key.
ObjectKey(u) == IF u \in swapped THEN Processed(u) ELSE Original(u)

\* The keys of an upload's row; the processed key stands for the clip and its
\* thumbnail, which are recorded together.
RowKeys(u) == {ObjectKey(u)} \cup {Processed(v) : v \in recorded \cap {u}}

Rows == {u \in Upload : upload[u] # "absent"}

\* Keys the account's rows name.
AccountKeys ==
  (UNION {RowKeys(u) : u \in Rows})
  \cup {Archive(e) : e \in {x \in Export : export[x] = "ready"}}

Active(e) == export[e] \in {"pending", "processing", "ready"}
Building(e) == export[e] \in {"pending", "processing"}
Live(j) == job[j] \in {"queued", "running"}

-----------------------------------------------------------------------------
AccountsTypeOK ==
  /\ user \in {"active", "deletion_pending", "deleted"}
  /\ request \in {"none", "open", "cancelled", "completed"}
  /\ {due, customer, parked} \subseteq BOOLEAN
  /\ export \in [Export -> {"absent", "pending", "processing", "ready", "failed", "expired"}]
  /\ outdated \subseteq {e \in Export : export[e] = "ready"}
  /\ upload \in [Upload -> {"absent", "pending", "uploaded", "consumed", "rejected", "expired"}]
  /\ submitted \subseteq Rows /\ recorded \subseteq submitted /\ swapped \subseteq recorded
  /\ completing \subseteq Rows /\ lapsed \subseteq Rows /\ late \subseteq Rows
  /\ objects \subseteq Keys /\ named \subseteq Keys
  /\ job \in [Job -> {"none", "queued", "running", "succeeded", "dead"}]
  /\ \A j \in Job : tries[j] \in 0 .. MaxTries[j]
  /\ pc \in [Job -> {"idle", "start", "build", "open", "put", "complete", "media", "customer",
                     "remove", "list", "mark", "database", "report", "settle", "fail", "lost"}]
  /\ \A j \in Job : pc[j] = "idle" <=> job[j] # "running"
  /\ hand \in ({"upload", "export", "original"} \X (Upload \cup Export) \X Keys) \cup {Nothing}
  /\ faults \in 0 .. MaxFaults

Init ==
  /\ user = "active" /\ request = "none" /\ due = FALSE /\ customer = TRUE
  /\ export = [e \in Export |-> "absent"] /\ outdated = {}
  /\ upload = [u \in Upload |-> "absent"]
  /\ completing = {} /\ submitted = {} /\ recorded = {} /\ swapped = {} /\ lapsed = {}
  /\ late = {}
  /\ objects = {} /\ named = {}
  /\ job = [j \in Job |-> "none"] /\ tries = [j \in Job |-> 0] /\ parked = FALSE
  /\ pc = [j \in Job |-> "idle"] /\ todo = [j \in Job |-> {}] /\ hand = Nothing
  /\ faults = 0

-----------------------------------------------------------------------------
(* The user's uploads, as far as the objects are concerned.                *)

Enqueue(j) ==
  /\ job' = [job EXCEPT ![j] = "queued"]
  /\ tries' = [tries EXCEPT ![j] = 0]

\* createUpload; the client puts the object with the signed URL.
CreateUpload(u) ==
  /\ user = "active" /\ upload[u] = "absent"
  /\ upload' = [upload EXCEPT ![u] = "pending"]
  /\ named' = named \cup {Original(u)}
  /\ UNCHANGED <<accountVars, exportVars, completing, submitted, recorded, swapped, lapsed, late,
                 objects, queueVars, attemptVars, faults>>

PutObject(u) ==
  /\ upload[u] = "pending" /\ u \notin lapsed /\ Original(u) \notin objects
  /\ objects' = objects \cup {Original(u)}
  /\ UNCHANGED <<accountVars, exportVars, mediaVars, named, queueVars, attemptVars, faults>>

\* completeUpload checks the row and the object, and CompletePaidMediaUpload
\* compares expires_at with the time its transaction began.
BeginComplete(u) ==
  /\ user = "active"
  /\ upload[u] = "pending" /\ u \notin lapsed \cup completing
  /\ Original(u) \in objects
  /\ completing' = completing \cup {u}
  /\ UNCHANGED <<accountVars, exportVars, upload, submitted, recorded, swapped, lapsed, late,
                 storeVars, queueVars, attemptVars, faults>>

FinishComplete(u) ==
  /\ u \in completing
  /\ completing' = completing \ {u}
  /\ IF upload[u] = "pending"
       THEN /\ upload' = [upload EXCEPT ![u] = "uploaded"]
            /\ lapsed' = lapsed \ {u}
            /\ late' = late \cup ({u} \cap lapsed)
       ELSE UNCHANGED <<upload, lapsed, late>>
  /\ UNCHANGED <<accountVars, exportVars, submitted, recorded, swapped,
                 storeVars, queueVars, attemptVars, faults>>

CreateSubmission(u) ==
  /\ user = "active" /\ upload[u] = "uploaded"
  /\ upload' = [upload EXCEPT ![u] = "consumed"]
  /\ submitted' = submitted \cup {u}
  /\ UNCHANGED <<accountVars, exportVars, completing, recorded, swapped, lapsed, late,
                 storeVars, queueVars, attemptVars, faults>>

\* What Analysis does to the row and the store: UpdateMediaInspection names
\* the clip it has put, or RejectMediaUpload.
Inspect(u, outcome) ==
  /\ upload[u] = "consumed" /\ u \notin recorded /\ outcome \in Outcomes
  /\ Original(u) \in objects
  /\ \/ /\ outcome = "processed"
        /\ recorded' = recorded \cup {u}
        /\ objects' = objects \cup {Processed(u)}
        /\ named' = named \cup {Processed(u)}
        /\ UNCHANGED upload
     \/ /\ outcome = "rejected"
        /\ upload' = [upload EXCEPT ![u] = "rejected"]
        /\ UNCHANGED <<recorded, storeVars>>
  /\ UNCHANGED <<accountVars, exportVars, completing, submitted, swapped, lapsed, late,
                 queueVars, attemptVars, faults>>

\* Time passes for an upload: the signed URL of a pending one ends, a rejected
\* or swept one is a week old, and an inspected one outlives its retention and
\* every report and copyright notice about it.
Lapse(u) ==
  /\ u \notin lapsed
  /\ \/ upload[u] \in {"pending", "expired", "rejected"}
     \/ upload[u] = "consumed" /\ u \in recorded
  /\ lapsed' = lapsed \cup {u}
  /\ UNCHANGED <<accountVars, exportVars, upload, completing, submitted, recorded, swapped, late,
                 storeVars, queueVars, attemptVars, faults>>

-----------------------------------------------------------------------------
(* Requests about the account.                                             *)

\* The unique index on active exports makes the INSERT return the export there
\* is; a pending one gets a job again when it has none.
CreateAccountExport(e) ==
  /\ user = "active"
  /\ IF \E x \in Export : Active(x)
       THEN export[e] = "pending" /\ ~Live(e) /\ UNCHANGED export
       ELSE export[e] = "absent" /\ ~Live(e) /\ export' = [export EXCEPT ![e] = "pending"]
  /\ Enqueue(e)
  /\ UNCHANGED <<accountVars, outdated, mediaVars, storeVars, parked, attemptVars, faults>>

OutdateExport(e) ==
  /\ export[e] = "ready" /\ e \notin outdated
  /\ outdated' = outdated \cup {e}
  /\ UNCHANGED <<accountVars, export, mediaVars, storeVars, queueVars, attemptVars, faults>>

\* The handler lets an active user through; a live job row gets the new
\* available_at, also while an attempt of it runs.
RequestAccountDeletion ==
  /\ user = "active"
  /\ request' = "open" /\ due' = FALSE
  /\ user' = "deletion_pending"
  /\ parked' = TRUE
  /\ IF Live(Deletion) THEN UNCHANGED <<job, tries>> ELSE Enqueue(Deletion)
  /\ UNCHANGED <<customer, exportVars, mediaVars, storeVars, attemptVars, faults>>

\* Mutant: a running deletion is not looked at.
CancelAnyTime ==
  /\ user # "deleted" /\ request = "open"
  /\ request' = "cancelled"
  /\ user' = IF user = "deletion_pending" THEN "active" ELSE user
  /\ job' = [job EXCEPT ![Deletion] = IF @ = "queued" THEN "dead" ELSE @]
  /\ UNCHANGED <<due, customer, exportVars, mediaVars, storeVars, tries, parked, attemptVars,
                 faults>>

\* Refused while an attempt runs, accepted even after execute_after.
CancelAccountDeletion ==
  /\ user # "deleted" /\ request = "open" /\ job[Deletion] # "running"
  /\ request' = "cancelled"
  /\ user' = IF user = "deletion_pending" THEN "active" ELSE user
  /\ job' = [job EXCEPT ![Deletion] = IF @ = "queued" THEN "dead" ELSE @]
  /\ UNCHANGED <<due, customer, exportVars, mediaVars, storeVars, tries, parked, attemptVars,
                 faults>>

\* Work a restricted account may still have: it cannot start any.
WorkInProgress ==
  \/ completing # {}
  \/ \E e \in Export : Live(e)
  \/ \E u \in Upload : \/ upload[u] = "pending" /\ u \notin lapsed
                       \/ upload[u] = "consumed" /\ u \notin recorded /\ Original(u) \in objects

\* execute_after passes.  The grace period is days long: what the account had
\* begun before its request is over by then.
BecomeDue ==
  /\ request = "open" /\ ~due /\ ~WorkInProgress
  /\ due' = TRUE /\ parked' = FALSE
  /\ UNCHANGED <<user, request, customer, exportVars, mediaVars, storeVars, job, tries,
                 attemptVars, faults>>

-----------------------------------------------------------------------------
(* The queue: one attempt of a row at a time.                              *)

FirstCall(j) ==
  CASE j \in Export -> "start" [] j = Deletion -> "media" [] OTHER -> "list"

Goto(j, step) == pc' = [pc EXCEPT ![j] = step]

\* Run enqueues the sweep every hour; the dedupe key leaves one live row.
EnqueueCleanup ==
  /\ ~Live(Cleanup)
  /\ Enqueue(Cleanup)
  /\ UNCHANGED <<accountVars, exportVars, mediaVars, storeVars, parked, attemptVars, faults>>

ClaimJob(j) ==
  /\ job[j] = "queued" /\ (j = Deletion => ~parked)
  /\ job' = [job EXCEPT ![j] = "running"]
  /\ tries' = [tries EXCEPT ![j] = @ + 1]
  /\ Goto(j, FirstCall(j))
  /\ UNCHANGED <<accountVars, exportVars, mediaVars, storeVars, parked, todo, hand, faults>>

Requeued(j) == [job EXCEPT ![j] = IF tries[j] < MaxTries[j] THEN "queued" ELSE "dead"]

\* The end of an attempt: nothing of it is left.
Leave(j) ==
  /\ Goto(j, "idle")
  /\ todo' = [todo EXCEPT ![j] = {}]
  /\ hand' = IF j = Cleanup THEN Nothing ELSE hand

CompleteJob(j) ==
  /\ pc[j] = "report"
  /\ job' = [job EXCEPT ![j] = "succeeded"]
  /\ Leave(j)
  /\ UNCHANGED <<accountVars, exportVars, mediaVars, storeVars, tries, parked, faults>>

\* FailJob sets available_at to the end of the backoff, whatever it was.
FailJob(j) ==
  /\ pc[j] = "fail"
  /\ job' = Requeued(j)
  /\ parked' = IF j = Deletion THEN FALSE ELSE parked
  /\ Leave(j)
  /\ UNCHANGED <<accountVars, exportVars, mediaVars, storeVars, tries, faults>>

\* A worker stops, or the report of an attempt is lost.
Stop(j) ==
  /\ pc[j] \notin {"idle", "lost"} /\ faults < MaxFaults
  /\ faults' = faults + 1
  /\ Goto(j, "lost")
  /\ UNCHANGED <<accountVars, exportVars, mediaVars, storeVars, queueVars, todo, hand>>

\* ClaimJob finds the expired lock; nobody tells the export's row.
Recover(j) ==
  /\ pc[j] = "lost"
  /\ job' = Requeued(j)
  /\ Leave(j)
  /\ UNCHANGED <<accountVars, exportVars, mediaVars, storeVars, tries, parked, faults>>

\* Where Run goes with a handler's error: an export's last attempt settles
\* the export first.
OnError(j) == IF j \in Export /\ tries[j] >= MaxTries[j] THEN "settle" ELSE "fail"

\* A call to the database, to the store or to RevenueCat fails.
CallFails(j) ==
  /\ pc[j] \notin {"idle", "report", "settle", "fail", "lost"} /\ faults < MaxFaults
  /\ faults' = faults + 1
  /\ Goto(j, OnError(j))
  /\ UNCHANGED <<accountVars, exportVars, mediaVars, storeVars, queueVars, todo, hand>>

-----------------------------------------------------------------------------
(* exportAccount.                                                          *)

StartAccountExport(e) ==
  /\ pc[e] = "start"
  /\ IF Building(e)
       THEN export' = [export EXCEPT ![e] = "processing"] /\ Goto(e, "build")
       ELSE UNCHANGED export /\ Goto(e, OnError(e))
  /\ UNCHANGED <<accountVars, outdated, mediaVars, storeVars, queueVars, todo, hand, faults>>

\* Every submission's object_key, whatever the status of its upload.
BuildAccountExport(e) ==
  /\ pc[e] = "build"
  /\ todo' = [todo EXCEPT ![e] = {ObjectKey(u) : u \in submitted}]
  /\ Goto(e, "open")
  /\ UNCHANGED <<accountVars, exportVars, mediaVars, storeVars, queueVars, hand, faults>>

\* storage.Open and the copy of one clip.
CopyClip(e) ==
  /\ pc[e] = "open"
  /\ \E k \in todo[e] :
       IF k \in objects
         THEN todo' = [todo EXCEPT ![e] = @ \ {k}] /\ UNCHANGED pc
         ELSE Goto(e, OnError(e)) /\ UNCHANGED todo
  /\ UNCHANGED <<accountVars, exportVars, mediaVars, storeVars, queueVars, hand, faults>>

PutArchive(e) ==
  /\ pc[e] = "open" /\ todo[e] = {}
  /\ objects' = objects \cup {Archive(e)}
  /\ Goto(e, "complete")
  /\ UNCHANGED <<accountVars, exportVars, mediaVars, named, queueVars, todo, hand, faults>>

CompleteAccountExport(e) ==
  /\ pc[e] = "complete"
  /\ IF export[e] = "processing"
       THEN /\ export' = [export EXCEPT ![e] = "ready"]
            /\ named' = named \cup {Archive(e)}
            /\ Goto(e, "report")
       ELSE UNCHANGED <<export, named>> /\ Goto(e, OnError(e))
  /\ UNCHANGED <<accountVars, outdated, mediaVars, objects, queueVars, todo, hand, faults>>

\* Mutant: an export that was started is not failed.
FailPendingExport(e) ==
  /\ pc[e] = "settle"
  /\ export' = [export EXCEPT ![e] = IF @ = "pending" THEN "failed" ELSE @]
  /\ Goto(e, "fail")
  /\ UNCHANGED <<accountVars, outdated, mediaVars, storeVars, queueVars, todo, hand, faults>>

\* The error of this call is ignored.
FailAccountExport(e) ==
  /\ pc[e] = "settle"
  /\ \/ export' = [export EXCEPT ![e] = IF Building(e) THEN "failed" ELSE @] /\ UNCHANGED faults
     \/ faults < MaxFaults /\ faults' = faults + 1 /\ UNCHANGED export
  /\ Goto(e, "fail")
  /\ UNCHANGED <<accountVars, outdated, mediaVars, storeVars, queueVars, todo, hand>>

-----------------------------------------------------------------------------
(* deleteAccount.                                                          *)

\* Mutant: archives of exports are not listed.
MediaWithoutArchives ==
  /\ pc[Deletion] = "media"
  /\ \E passed \in DueArguments :
       IF passed /\ request = "open" /\ due
         THEN /\ todo' = [todo EXCEPT ![Deletion] = UNION {RowKeys(u) : u \in Rows}]
              /\ Goto(Deletion, "customer")
         ELSE UNCHANGED todo /\ Goto(Deletion, "fail")
  /\ UNCHANGED <<accountVars, exportVars, mediaVars, storeVars, queueVars, hand, faults>>

\* Its first query has a $1 and is given no argument, so in the code as it is
\* it always fails (DueArguments = {FALSE}).
AccountDeletionMedia ==
  /\ pc[Deletion] = "media"
  /\ \E passed \in DueArguments :
       IF passed /\ request = "open" /\ due
         THEN /\ todo' = [todo EXCEPT ![Deletion] = AccountKeys]
              /\ Goto(Deletion, "customer")
         ELSE UNCHANGED todo /\ Goto(Deletion, "fail")
  /\ UNCHANGED <<accountVars, exportVars, mediaVars, storeVars, queueVars, hand, faults>>

DeleteCustomer ==
  /\ pc[Deletion] = "customer"
  /\ customer' = FALSE
  /\ Goto(Deletion, "remove")
  /\ UNCHANGED <<user, request, due, exportVars, mediaVars, storeVars, queueVars, todo, hand,
                 faults>>

RemoveForDeletion ==
  /\ pc[Deletion] = "remove"
  /\ \E k \in todo[Deletion] :
       /\ objects' = objects \ {k}
       /\ todo' = [todo EXCEPT ![Deletion] = @ \ {k}]
  /\ UNCHANGED <<accountVars, exportVars, mediaVars, named, queueVars, pc, hand, faults>>

\* One transaction.
CompleteAccountDeletion ==
  /\ pc[Deletion] = "remove" /\ todo[Deletion] = {}
  /\ IF request = "open" /\ due
       THEN /\ export' = [e \in Export |-> "absent"] /\ outdated' = {}
            /\ upload' = [u \in Upload |-> "absent"]
            /\ completing' = {} /\ submitted' = {} /\ recorded' = {} /\ swapped' = {}
            /\ lapsed' = {} /\ late' = {}
            /\ user' = IF user = "deletion_pending" THEN "deleted" ELSE user
            /\ request' = "completed"
            /\ Goto(Deletion, "report")
       ELSE UNCHANGED <<user, request, exportVars, mediaVars>> /\ Goto(Deletion, "fail")
  /\ UNCHANGED <<due, customer, storeVars, queueVars, todo, hand, faults>>

-----------------------------------------------------------------------------
(* cleanup.                                                                *)

Swept(u) == u \in lapsed /\ upload[u] \in {"pending", "expired", "rejected"}

\* Mutant: an original that was swapped already is listed again.
UnguardedOriginals ==
  {<<"original", u, ObjectKey(u)>> : u \in {v \in lapsed \cap recorded : upload[v] = "consumed"}}

\* The originals that retention no longer needs; none while an export is
\* pending or processing.
SweptOriginals ==
  IF \E e \in Export : Building(e)
    THEN {}
    ELSE {<<"original", u, ObjectKey(u)>> :
            u \in {v \in (lapsed \cap recorded) \ swapped : upload[v] = "consumed"}}

ListCleanupObjects ==
  /\ pc[Cleanup] = "list"
  /\ todo' = [todo EXCEPT ![Cleanup] =
       (UNION {{<<"upload", u, k>> : k \in RowKeys(u)} : u \in {v \in Upload : Swept(v)}})
       \cup {<<"export", e, Archive(e)>> : e \in outdated}
       \cup SweptOriginals]
  /\ Goto(Cleanup, "remove")
  /\ UNCHANGED <<accountVars, exportVars, mediaVars, storeVars, queueVars, hand, faults>>

RemoveForCleanup ==
  /\ pc[Cleanup] = "remove"
  /\ \E o \in todo[Cleanup] :
       /\ objects' = objects \ {o[3]}
       /\ hand' = o
       /\ todo' = [todo EXCEPT ![Cleanup] = @ \ {o}]
  /\ Goto(Cleanup, "mark")
  /\ UNCHANGED <<accountVars, exportVars, mediaVars, named, queueVars, faults>>

\* Mutant: a status the schema's CHECK does not know.
MarkSwept(u) ==
  /\ hand[1] = "upload"
  /\ upload' = [upload EXCEPT ![u] = "swept"] /\ lapsed' = lapsed \ {u}
  /\ Goto(Cleanup, "remove")
  /\ UNCHANGED <<exportVars, swapped>>

\* CompleteCleanupObject of the object in hand, by its kind.
MarkUpload(u) ==
  /\ hand[1] = "upload"
  /\ IF upload[u] \in {"pending", "expired", "rejected"}
       THEN upload' = [upload EXCEPT ![u] = "expired"] /\ lapsed' = lapsed \ {u}
       ELSE UNCHANGED <<upload, lapsed>>
  /\ Goto(Cleanup, "remove")
  /\ UNCHANGED <<exportVars, swapped>>

\* Mutant: the status stays as it is.
ForgetKey(e) ==
  /\ hand[1] = "export"
  /\ Goto(Cleanup, "remove")
  /\ UNCHANGED <<export, outdated, upload, lapsed, swapped>>

MarkExport(e) ==
  /\ hand[1] = "export"
  /\ export' = [export EXCEPT ![e] = IF @ = "ready" THEN "expired" ELSE @]
  /\ outdated' = outdated \ {e}
  /\ Goto(Cleanup, "remove")
  /\ UNCHANGED <<upload, lapsed, swapped>>

\* ErrConflict when the row is no longer as it was listed.
MarkOriginal(u) ==
  /\ hand[1] = "original"
  /\ IF upload[u] = "consumed" /\ u \in recorded \ swapped
       THEN swapped' = swapped \cup {u} /\ Goto(Cleanup, "remove")
       ELSE UNCHANGED swapped /\ Goto(Cleanup, "fail")
  /\ UNCHANGED <<upload, lapsed, exportVars>>

CompleteCleanupObject ==
  /\ pc[Cleanup] = "mark"
  /\ MarkUpload(hand[2]) \/ MarkExport(hand[2]) \/ MarkOriginal(hand[2])
  /\ hand' = Nothing
  /\ UNCHANGED <<accountVars, completing, submitted, recorded, late, storeVars, queueVars, todo,
                 faults>>

\* Its rows are tokens, reservations, counters and settled jobs, which have no
\* part here.
CleanupDatabase ==
  /\ pc[Cleanup] = "remove" /\ todo[Cleanup] = {}
  /\ Goto(Cleanup, "report")
  /\ UNCHANGED <<accountVars, exportVars, mediaVars, storeVars, queueVars, todo, hand, faults>>

-----------------------------------------------------------------------------
ClipStep ==
  \E u \in Upload :
    \/ CreateUpload(u) \/ PutObject(u) \/ BeginComplete(u) \/ FinishComplete(u)
    \/ CreateSubmission(u) \/ Lapse(u)
    \/ \E outcome \in Outcomes : Inspect(u, outcome)

AccountStep ==
  \/ \E e \in Export : CreateAccountExport(e) \/ OutdateExport(e)
  \/ RequestAccountDeletion \/ CancelAccountDeletion \/ BecomeDue

\* The calls of an attempt and its report.
AttemptStep(j) ==
  \/ CompleteJob(j) \/ FailJob(j) \/ Recover(j)
  \/ /\ j \in Export
     /\ \/ StartAccountExport(j) \/ BuildAccountExport(j) \/ CopyClip(j)
        \/ PutArchive(j) \/ CompleteAccountExport(j) \/ FailAccountExport(j)
  \/ /\ j = Deletion
     /\ \/ AccountDeletionMedia \/ DeleteCustomer \/ RemoveForDeletion
        \/ CompleteAccountDeletion
  \/ /\ j = Cleanup
     /\ \/ ListCleanupObjects \/ RemoveForCleanup \/ CompleteCleanupObject
        \/ CleanupDatabase

Next ==
  \/ ClipStep \/ AccountStep \/ EnqueueCleanup
  \/ \E j \in Job : ClaimJob(j) \/ AttemptStep(j) \/ Stop(j) \/ CallFails(j)

Spec == Init /\ [][Next]_vars

\* Workers poll and return from their calls, locks expire, the sweep is
\* enqueued every hour.
Fairness ==
  /\ \A j \in Job : WF_vars(ClaimJob(j)) /\ WF_vars(AttemptStep(j))
  /\ WF_vars(EnqueueCleanup)

FairSpec == Spec /\ Fairness

-----------------------------------------------------------------------------
(* Properties.                                                             *)

\* Objects somebody is still entitled to: the archive of an export that can be
\* downloaded, the clip of an upload completed in time, and of a submitted one
\* its original as long as it is retained and its processed clip for good.
Served ==
  {Archive(e) : e \in {x \in Export : export[x] = "ready"} \ outdated}
  \cup {Original(u) : u \in {v \in Upload \ late : upload[v] = "uploaded"}}
  \cup {Original(u) : u \in {v \in Upload \ (swapped \cup lapsed \cup late) : upload[v] = "consumed"}}
  \cup {Processed(u) : u \in {v \in recorded : upload[v] = "consumed"}}

\* The sweep lists objects first and removes them later, one at a time, while
\* uploads are completed, clips submitted and inspected, originals swapped and
\* attempts repeated: until a deletion of the account has begun to remove (it
\* deletes the customer record first), every object served is in the store.
\* The one loss is a completion's that commits after its upload's time was over.
ServedObjectsExist ==
  customer => Served \subseteq objects

\* However the deletion was retried, refused or overtaken by the sweep and by
\* exports, an erased account leaves no row, no customer record and no object
\* that a row has named.
DeletedAccountsLeaveNothing ==
  user = "deleted" =>
    /\ objects \cap named = {}
    /\ \A e \in Export : export[e] = "absent"
    /\ Rows = {} /\ ~customer

\* "DELETE /v1/me/deletion cancels" (README.md:283): an attempt that has begun
\* to delete acts for a request that is still open, so a cancelled deletion
\* deletes nothing more.
DeletionActsForAnOpenRequest ==
  pc[Deletion] \in {"customer", "remove"} => request = "open"

\* "Explain failed and expired states with a retry path"
\* (docs/FRONTEND_GUIDE.md:700), and the index admits one active export: one that
\* has its job and meets no further fault becomes ready or failed, whatever its
\* earlier attempts and the sweep left behind.
ExportsSettle ==
  \A e \in Export :
    (Building(e) /\ job[e] = "queued" /\ faults = MaxFaults) ~> ~Building(e)

\* The index admits one active export, so one that has expired must make room
\* for the next.
ExpiredExportsMakeRoom ==
  \A e \in Export : (e \in outdated) ~> (e \notin outdated)

\* "POST /v1/me/exports creates a ZIP containing account JSON and retained
\* source clips, or standardized MP4 clips after source retention expires"
\* (README.md:279-280): without a fault, no export fails.
ExportsDeliver == \A e \in Export : export[e] # "failed"

\* "Account deletion removes the RevenueCat customer record through the durable
\* worker" (README.md:286): a request that is due is carried out or cancelled.
DeletionsAreCarriedOut == (request = "open" /\ due) ~> (request # "open" \/ ~due)
=============================================================================
