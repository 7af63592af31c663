--------------------------- MODULE AccountsProofs ---------------------------
(***************************************************************************)
(* Proofs about Accounts, for every set of uploads and exports, every      *)
(* retry limit and any number of faults: the types, the objects that are   *)
(* served, the request a deletion acts for, and what an erased account     *)
(* leaves behind.                                                          *)
(***************************************************************************)
EXTENDS Accounts, TLAPS

-----------------------------------------------------------------------------
(* The inductive invariant, in the parts the proofs cite.                  *)

\* What the sweep lists: a kind, a row and one of its keys.
Items == ({"upload", "original"} \X Upload \X Keys) \cup ({"export"} \X Export \X Keys)

\* What the sweep still has to remove, or has removed and not yet marked.
Listed == todo[Cleanup] \cup (IF pc[Cleanup] = "mark" THEN {hand} ELSE {})

ListsAreTyped ==
  /\ todo \in [Job -> SUBSET (Keys \cup Items)]
  /\ \A j \in Job \ {Cleanup} : todo[j] \subseteq Keys
  /\ Listed \subseteq Items

\* A queued row has an attempt left.
QueuedJobsHaveTries == \A j \in Job : job[j] = "queued" => tries[j] < MaxTries[j]

\* The statuses of an upload that was submitted, that was inspected, and that
\* was completed late.
UploadsAdvance ==
  \A u \in Upload :
    /\ upload[u] = "consumed" => u \in submitted
    /\ u \in submitted => upload[u] \in {"consumed", "rejected", "expired"}
    /\ u \in recorded => upload[u] = "consumed"
    /\ u \in late => upload[u] # "pending"

TypeInv ==
  /\ AccountsTypeOK
  /\ tries \in [Job -> Nat]
  /\ ListsAreTyped
  /\ QueuedJobsHaveTries
  /\ UploadsAdvance

\* An open request restricts the account; once it is due, nothing the account
\* had begun is left; and an attempt that deletes acts for such a request.
RequestsRestrict ==
  /\ request = "open" => user = "deletion_pending"
  /\ request = "open" /\ due => ~WorkInProgress
  /\ pc[Deletion] \in {"customer", "remove"} => request = "open" /\ due
  /\ pc[Deletion] = "remove" => ~customer

\* An attempt that builds an archive has its row in processing.
ExportsAreBuilt ==
  \A e \in Export : pc[e] \in {"build", "open", "complete"} => export[e] = "processing"

\* A key that was named and is in no row any more has no object.
KeysHaveRows ==
  user # "deleted" =>
    /\ \A u \in Upload : Original(u) \in named => upload[u] # "absent"
    /\ \A u \in Upload : Processed(u) \in named => u \in recorded
    /\ \A e \in Export : Archive(e) \in named => export[e] \in {"ready", "expired"}
    /\ \A u \in swapped : Original(u) \notin objects
    /\ \A e \in Export : export[e] = "expired" => Archive(e) \notin objects

\* What was listed as an archive or an original may still be removed, and is
\* gone when the sweep comes to mark it.
ListedStays ==
  user # "deleted" =>
    /\ \A o \in Listed :
         /\ o[1] = "export" =>
              o[3] = Archive(o[2]) /\ (o[2] \in outdated \/ export[o[2]] = "expired")
         /\ o[1] = "original" => o[3] = Original(o[2]) /\ o[2] \in recorded \cap lapsed
    /\ pc[Cleanup] = "mark" /\ hand[1] # "upload" => hand[3] \notin objects

\* A deletion that has read its list misses nothing that appears later.
ListIsComplete ==
  pc[Deletion] \in {"customer", "remove"} => objects \cap named \subseteq todo[Deletion]

AccountInv ==
  /\ TypeInv
  /\ RequestsRestrict
  /\ ExportsAreBuilt
  /\ KeysHaveRows
  /\ ListedStays
  /\ ListIsComplete
  /\ DeletedAccountsLeaveNothing

\* The rest of what keeps served objects in the store: an upload being completed
\* in time has its object, what was listed of an upload is the original of one
\* that nobody uses or that was completed late, and an archive is there before
\* its export is ready.
ServedInv ==
  /\ \A u \in completing :
       upload[u] = "pending" /\ u \notin lapsed => Original(u) \in objects
  /\ user # "deleted" =>
       \A o \in Listed : o[1] = "upload" =>
         /\ o[3] = Original(o[2])
         /\ \/ upload[o[2]] \in {"expired", "rejected"}
            \/ upload[o[2]] = "pending" /\ o[2] \in lapsed
            \/ o[2] \in late
  /\ \A e \in Export : pc[e] = "complete" => Archive(e) \in objects
  /\ ServedObjectsExist

-----------------------------------------------------------------------------
(* Which steps touch what.                                                 *)

\* The jobs are distinct, and keys and items have the form they are made of.
LEMMA Jobs ==
  /\ Deletion \in Job /\ Cleanup \in Job /\ Deletion # Cleanup /\ Export \subseteq Job
  /\ \A e \in Export : e # Deletion /\ e # Cleanup
  /\ \A j \in Job : j \in Export \/ j = Deletion \/ j = Cleanup
BY AccountsAssumption DEF Job

\* The steps of the queue: they claim, report, lose, recover and enqueue.
QueueStep ==
  \/ EnqueueCleanup
  \/ \E j \in Job :
       ClaimJob(j) \/ CompleteJob(j) \/ FailJob(j) \/ Recover(j) \/ Stop(j) \/ CallFails(j)

\* Every step is one of the queue's, or one of these.
LEMMA StepCases ==
  ASSUME Next
  PROVE  \/ QueueStep
         \/ \E u \in Upload :
              \/ CreateUpload(u) \/ PutObject(u) \/ BeginComplete(u) \/ FinishComplete(u)
              \/ CreateSubmission(u) \/ Lapse(u)
              \/ \E outcome \in Outcomes : Inspect(u, outcome)
         \/ \E e \in Export :
              \/ CreateAccountExport(e) \/ OutdateExport(e)
              \/ StartAccountExport(e) \/ BuildAccountExport(e) \/ CopyClip(e)
              \/ PutArchive(e) \/ CompleteAccountExport(e) \/ FailAccountExport(e)
         \/ RequestAccountDeletion \/ CancelAccountDeletion \/ BecomeDue
         \/ AccountDeletionMedia \/ DeleteCustomer \/ RemoveForDeletion
         \/ CompleteAccountDeletion
         \/ ListCleanupObjects \/ RemoveForCleanup \/ CompleteCleanupObject
         \/ CleanupDatabase
BY DEF Next, ClipStep, AccountStep, AttemptStep, QueueStep

\* The queue's steps change no row and no object, and leave less to do.
LEMMA QueueFrame ==
  ASSUME QueueStep, TypeInv
  PROVE  /\ UNCHANGED <<accountVars, exportVars, mediaVars, storeVars>>
         /\ \A k \in Job :
              \/ pc'[k] = pc[k] /\ todo'[k] = todo[k]
              \/ pc'[k] \in {"idle", "start", "media", "list", "lost", "settle", "fail"}
         /\ \A k \in Job : todo'[k] = todo[k] \/ todo'[k] = {}
         /\ pc'[Cleanup] = "mark" => pc[Cleanup] = "mark" /\ hand' = hand
         /\ Listed' \subseteq Listed
<1> USE DEF TypeInv, AccountsTypeOK, ListsAreTyped
<1>1. CASE EnqueueCleanup
  BY <1>1 DEF EnqueueCleanup, attemptVars, Listed
<1>2. ASSUME NEW j \in Job, ClaimJob(j) \/ Stop(j) \/ CallFails(j)
      PROVE  /\ UNCHANGED <<accountVars, exportVars, mediaVars, storeVars, todo, hand>>
             /\ \E there \in {"start", "media", "list", "lost", "settle", "fail"} :
                  pc' = [pc EXCEPT ![j] = there]
  BY <1>2 DEF ClaimJob, Stop, CallFails, Goto, FirstCall, OnError
<1>3. ASSUME NEW j \in Job, CompleteJob(j) \/ FailJob(j) \/ Recover(j)
      PROVE  /\ UNCHANGED <<accountVars, exportVars, mediaVars, storeVars>>
             /\ pc' = [pc EXCEPT ![j] = "idle"] /\ todo' = [todo EXCEPT ![j] = {}]
             /\ hand' = IF j = Cleanup THEN Nothing ELSE hand
  BY <1>3 DEF CompleteJob, FailJob, Recover, Leave, Goto
<1>4. ASSUME NEW j \in Job, ClaimJob(j) \/ Stop(j) \/ CallFails(j)
      PROVE  /\ \A k \in Job :
                  pc'[k] = pc[k] \/ pc'[k] \in {"idle", "start", "media", "list", "lost", "settle", "fail"}
             /\ pc'[Cleanup] = "mark" => pc[Cleanup] = "mark"
             /\ Listed' \subseteq Listed
  BY <1>2, <1>4, Jobs DEF Listed
<1>5. ASSUME NEW j \in Job, CompleteJob(j) \/ FailJob(j) \/ Recover(j)
      PROVE  /\ \A k \in Job : todo'[k] = todo[k] \/ todo'[k] = {}
             /\ \A k \in Job : (pc'[k] = pc[k] /\ todo'[k] = todo[k]) \/ pc'[k] = "idle"
             /\ pc'[Cleanup] = "mark" => pc[Cleanup] = "mark" /\ hand' = hand
             /\ Listed' \subseteq Listed
  BY <1>3, <1>5, Jobs DEF Listed
<1>6. CASE \E j \in Job : ClaimJob(j) \/ Stop(j) \/ CallFails(j)
  BY <1>2, <1>4, <1>6
<1>7. CASE \E j \in Job : CompleteJob(j) \/ FailJob(j) \/ Recover(j)
  BY <1>3, <1>5, <1>7
<1> QED
  BY <1>1, <1>6, <1>7 DEF QueueStep, attemptVars

\* Who changes the account, its exports, its uploads and the store.
LEMMA Frames ==
  ASSUME [Next]_vars, TypeInv
  PROVE  /\ \/ UNCHANGED accountVars
            \/ RequestAccountDeletion \/ CancelAccountDeletion \/ BecomeDue
            \/ DeleteCustomer \/ CompleteAccountDeletion
         /\ \/ UNCHANGED exportVars
            \/ \E e \in Export : \/ CreateAccountExport(e) \/ OutdateExport(e)
                                 \/ StartAccountExport(e) \/ CompleteAccountExport(e)
                                 \/ FailAccountExport(e)
            \/ CompleteCleanupObject \/ CompleteAccountDeletion
         /\ \/ UNCHANGED mediaVars
            \/ \E u \in Upload : \/ CreateUpload(u) \/ BeginComplete(u) \/ FinishComplete(u)
                                 \/ CreateSubmission(u) \/ Lapse(u)
                                 \/ \E outcome \in Outcomes : Inspect(u, outcome)
            \/ CompleteCleanupObject \/ CompleteAccountDeletion
         /\ \/ UNCHANGED storeVars
            \/ \E u \in Upload : \/ CreateUpload(u) \/ PutObject(u)
                                 \/ \E outcome \in Outcomes : Inspect(u, outcome)
            \/ \E e \in Export : PutArchive(e) \/ CompleteAccountExport(e)
            \/ RemoveForDeletion \/ RemoveForCleanup
<1>1. CASE QueueStep
  BY <1>1, QueueFrame
<1>2. CASE UNCHANGED vars
  BY <1>2 DEF vars
<1>3. ASSUME NEW u \in Upload,
             \/ CreateUpload(u) \/ PutObject(u) \/ BeginComplete(u) \/ FinishComplete(u)
             \/ CreateSubmission(u) \/ Lapse(u)
             \/ \E outcome \in Outcomes : Inspect(u, outcome)
      PROVE  /\ UNCHANGED <<accountVars, exportVars>>
             /\ PutObject(u) => UNCHANGED mediaVars
             /\ \/ CreateUpload(u) \/ PutObject(u) \/ UNCHANGED storeVars
                \/ \E outcome \in Outcomes : Inspect(u, outcome)
  BY <1>3 DEF CreateUpload, PutObject, BeginComplete, FinishComplete, CreateSubmission, Lapse,
     Inspect
<1>4. ASSUME NEW e \in Export,
             \/ CreateAccountExport(e) \/ OutdateExport(e)
             \/ StartAccountExport(e) \/ BuildAccountExport(e) \/ CopyClip(e)
             \/ PutArchive(e) \/ CompleteAccountExport(e) \/ FailAccountExport(e)
      PROVE  /\ UNCHANGED <<accountVars, mediaVars>>
             /\ BuildAccountExport(e) \/ CopyClip(e) \/ PutArchive(e) => UNCHANGED exportVars
             /\ PutArchive(e) \/ CompleteAccountExport(e) \/ UNCHANGED storeVars
  BY <1>4 DEF CreateAccountExport, OutdateExport, StartAccountExport, BuildAccountExport, CopyClip,
     PutArchive, CompleteAccountExport, FailAccountExport, exportVars
<1>5. ASSUME RequestAccountDeletion \/ CancelAccountDeletion \/ BecomeDue
      PROVE  UNCHANGED <<exportVars, mediaVars, storeVars>>
  BY <1>5 DEF RequestAccountDeletion, CancelAccountDeletion, BecomeDue
<1>6. ASSUME \/ AccountDeletionMedia \/ DeleteCustomer \/ RemoveForDeletion
             \/ CompleteAccountDeletion
      PROVE  /\ AccountDeletionMedia \/ RemoveForDeletion => UNCHANGED accountVars
             /\ CompleteAccountDeletion \/ UNCHANGED <<exportVars, mediaVars>>
             /\ RemoveForDeletion \/ UNCHANGED storeVars
  BY <1>6 DEF AccountDeletionMedia, DeleteCustomer, RemoveForDeletion, CompleteAccountDeletion
<1>7. ASSUME \/ ListCleanupObjects \/ RemoveForCleanup \/ CompleteCleanupObject
             \/ CleanupDatabase
      PROVE  /\ UNCHANGED accountVars
             /\ CompleteCleanupObject \/ UNCHANGED <<exportVars, mediaVars>>
             /\ RemoveForCleanup \/ UNCHANGED storeVars
  BY <1>7 DEF ListCleanupObjects, RemoveForCleanup, CompleteCleanupObject, CleanupDatabase
<1> QED
  BY <1>1, <1>2, <1>3, <1>4, <1>5, <1>6, <1>7, StepCases

\* Who advances the deletion, an export and the sweep, and what else there is
\* to remove.
LEMMA AttemptFrames ==
  ASSUME [Next]_vars, TypeInv
  PROVE  /\ \/ pc'[Deletion] = pc[Deletion] /\ todo'[Deletion] = todo[Deletion]
            \/ pc'[Deletion] \notin {"customer", "remove"}
            \/ AccountDeletionMedia \/ DeleteCustomer \/ RemoveForDeletion
         /\ \A e \in Export :
              \/ pc'[e] = pc[e] \/ pc'[e] \notin {"build", "open", "complete"}
              \/ StartAccountExport(e) \/ BuildAccountExport(e) \/ PutArchive(e)
         /\ \/ Listed' \subseteq Listed /\ (pc'[Cleanup] = "mark" => pc[Cleanup] = "mark" /\ hand' = hand)
            \/ ListCleanupObjects \/ RemoveForCleanup
         /\ \A e \in Export : job'[e] \in {"queued", "running"} => Live(e) \/ CreateAccountExport(e)
<1> USE Jobs DEF TypeInv, AccountsTypeOK, ListsAreTyped
<1> DEFINE Same(j) == pc'[j] = pc[j] /\ todo'[j] = todo[j]
           D == \/ Same(Deletion) \/ pc'[Deletion] \notin {"customer", "remove"}
                \/ AccountDeletionMedia \/ DeleteCustomer \/ RemoveForDeletion
           E == \A e \in Export :
                  \/ pc'[e] = pc[e] \/ pc'[e] \notin {"build", "open", "complete"}
                  \/ StartAccountExport(e) \/ BuildAccountExport(e) \/ PutArchive(e)
           C == \/ /\ Listed' \subseteq Listed
                   /\ pc'[Cleanup] = "mark" => pc[Cleanup] = "mark" /\ hand' = hand
                \/ ListCleanupObjects \/ RemoveForCleanup
           J == \A e \in Export :
                  job'[e] \in {"queued", "running"} => Live(e) \/ CreateAccountExport(e)
<1>1. CASE QueueStep
  <2>1. D /\ E /\ C
    BY <1>1, QueueFrame
  <2>2. ASSUME EnqueueCleanup PROVE J
    BY <2>2 DEF EnqueueCleanup, Enqueue, Live
  <2>3. ASSUME NEW j \in Job, ClaimJob(j) \/ Stop(j) \/ CallFails(j) \/ CompleteJob(j)
        PROVE  J
    BY <2>3 DEF ClaimJob, Stop, CallFails, CompleteJob, queueVars, Live
  <2>4. ASSUME NEW j \in Job, FailJob(j) \/ Recover(j) PROVE J
    <3>1. job[j] = "running" /\ \A k \in Job \ {j} : job'[k] = job[k]
      BY <2>4 DEF FailJob, Recover, Requeued
    <3> QED
      BY <3>1 DEF Live
  <2> QED
    BY <1>1, <2>1, <2>2, <2>3, <2>4 DEF QueueStep
<1>2. CASE UNCHANGED <<pc, todo, hand>>
  <2>1. D /\ E /\ C
    BY <1>2 DEF Listed
  <2>2. J
    <3>1. CASE UNCHANGED job
      BY <3>1 DEF Live
    <3>2. ASSUME NEW e \in Export, CreateAccountExport(e) PROVE J
      BY <3>2 DEF CreateAccountExport, Enqueue, Live
    <3>3. CASE RequestAccountDeletion \/ CancelAccountDeletion
      BY <3>3 DEF RequestAccountDeletion, CancelAccountDeletion, Enqueue, Live
    <3>4. CASE QueueStep
      BY <1>1, <3>4
    <3>5. ASSUME NEW u \in Upload,
                 \/ CreateUpload(u) \/ PutObject(u) \/ BeginComplete(u) \/ FinishComplete(u)
                 \/ CreateSubmission(u) \/ Lapse(u)
                 \/ \E outcome \in Outcomes : Inspect(u, outcome)
          PROVE  UNCHANGED job
      BY <3>5 DEF CreateUpload, PutObject, BeginComplete, FinishComplete, CreateSubmission, Lapse,
         Inspect, queueVars
    <3>6. ASSUME NEW e \in Export,
                 \/ OutdateExport(e) \/ StartAccountExport(e) \/ BuildAccountExport(e)
                 \/ CopyClip(e) \/ PutArchive(e) \/ CompleteAccountExport(e)
                 \/ FailAccountExport(e)
          PROVE  UNCHANGED job
      BY <3>6 DEF OutdateExport, StartAccountExport, BuildAccountExport, CopyClip,
         PutArchive, CompleteAccountExport, FailAccountExport, queueVars
    <3>7. ASSUME \/ BecomeDue \/ AccountDeletionMedia \/ DeleteCustomer \/ RemoveForDeletion
                 \/ CompleteAccountDeletion
                 \/ ListCleanupObjects \/ RemoveForCleanup \/ CompleteCleanupObject
                 \/ CleanupDatabase \/ UNCHANGED vars
          PROVE  UNCHANGED job
      BY <3>7 DEF BecomeDue, AccountDeletionMedia, DeleteCustomer, RemoveForDeletion,
         CompleteAccountDeletion, ListCleanupObjects, RemoveForCleanup, CompleteCleanupObject,
         CleanupDatabase, vars, queueVars
    <3> QED
      BY <3>1, <3>2, <3>3, <3>4, <3>5, <3>6, <3>7, StepCases
  <2> QED
    BY <2>1, <2>2
<1>3. ASSUME \/ \E u \in Upload :
                  \/ CreateUpload(u) \/ PutObject(u) \/ BeginComplete(u) \/ FinishComplete(u)
                  \/ CreateSubmission(u) \/ Lapse(u)
                  \/ \E outcome \in Outcomes : Inspect(u, outcome)
             \/ \E e \in Export : CreateAccountExport(e) \/ OutdateExport(e)
             \/ RequestAccountDeletion \/ CancelAccountDeletion \/ BecomeDue
             \/ UNCHANGED vars
      PROVE  UNCHANGED <<pc, todo, hand>>
  BY <1>3 DEF CreateUpload, PutObject, BeginComplete, FinishComplete, CreateSubmission, Lapse,
     Inspect, CreateAccountExport, OutdateExport, RequestAccountDeletion, CancelAccountDeletion,
     BecomeDue, vars, attemptVars
<1>4. ASSUME NEW e \in Export,
             \/ StartAccountExport(e) \/ BuildAccountExport(e) \/ CopyClip(e)
             \/ PutArchive(e) \/ CompleteAccountExport(e) \/ FailAccountExport(e)
      PROVE  D /\ E /\ C /\ J
  <2>1. /\ \A j \in Job \ {e} : Same(j)
        /\ UNCHANGED <<hand, job>>
        /\ \/ pc'[e] = pc[e] \/ pc'[e] \notin {"build", "open", "complete"}
           \/ StartAccountExport(e) \/ BuildAccountExport(e) \/ PutArchive(e)
    BY <1>4 DEF StartAccountExport, BuildAccountExport, CopyClip, PutArchive,
       CompleteAccountExport, FailAccountExport, Goto, OnError, queueVars
  <2> QED
    BY <2>1 DEF Listed, Live
<1>5. ASSUME \/ AccountDeletionMedia \/ DeleteCustomer \/ RemoveForDeletion
             \/ CompleteAccountDeletion
      PROVE  D /\ E /\ C /\ J
  <2>1. /\ \A j \in Job \ {Deletion} : Same(j)
        /\ UNCHANGED <<hand, job>>
        /\ CompleteAccountDeletion => pc'[Deletion] \in {"report", "fail"}
    BY <1>5 DEF AccountDeletionMedia, DeleteCustomer, RemoveForDeletion, CompleteAccountDeletion,
       Goto, queueVars
  <2> QED
    BY <1>5, <2>1 DEF Listed, Live
<1>6. ASSUME \/ ListCleanupObjects \/ RemoveForCleanup \/ CompleteCleanupObject
             \/ CleanupDatabase
      PROVE  D /\ E /\ C /\ J
  <2>1. /\ \A j \in Job \ {Cleanup} : Same(j)
        /\ UNCHANGED job
    BY <1>6 DEF ListCleanupObjects, RemoveForCleanup, CompleteCleanupObject, MarkUpload,
       MarkExport, MarkOriginal, CleanupDatabase, Goto, queueVars
  <2>2. CASE CompleteCleanupObject \/ CleanupDatabase
    <3>1. pc'[Cleanup] # "mark" /\ UNCHANGED todo
      BY <2>2 DEF CompleteCleanupObject, MarkUpload, MarkExport, MarkOriginal, CleanupDatabase, Goto
    <3> QED
      BY <2>1, <3>1 DEF Listed, Live
  <2> QED
    BY <1>6, <2>1, <2>2 DEF Live
<1> QED
  BY <1>1, <1>2, <1>3, <1>4, <1>5, <1>6, StepCases

\* The form of what the sweep has in its hand or on its list.
LEMMA ItemShape ==
  ASSUME TypeInv, NEW o \in Listed
  PROVE  /\ o[1] \in {"upload", "export", "original"} /\ o[3] \in Keys
         /\ o[1] = "export" => o[2] \in Export
         /\ o[1] # "export" => o[2] \in Upload
BY DEF TypeInv, ListsAreTyped, Items

\* What marking a swept object changes, by its kind.
LEMMA MarkCases ==
  ASSUME TypeInv, CompleteCleanupObject
  PROVE  /\ hand \in Listed /\ pc[Cleanup] = "mark" /\ pc'[Cleanup] \in {"remove", "fail"}
         /\ UNCHANGED <<completing, submitted, recorded, late, storeVars, accountVars>>
         /\ \/ /\ hand[1] = "upload" /\ UNCHANGED <<exportVars, swapped>>
               /\ \/ UNCHANGED <<upload, lapsed>>
                  \/ /\ upload[hand[2]] \in {"pending", "expired", "rejected"}
                     /\ upload' = [upload EXCEPT ![hand[2]] = "expired"]
                     /\ lapsed' = lapsed \ {hand[2]}
            \/ /\ hand[1] = "export" /\ UNCHANGED <<upload, lapsed, swapped>>
               /\ export' = [export EXCEPT ![hand[2]] = IF @ = "ready" THEN "expired" ELSE @]
               /\ outdated' = outdated \ {hand[2]}
            \/ /\ hand[1] = "original" /\ UNCHANGED <<exportVars, upload, lapsed>>
               /\ \/ UNCHANGED swapped
                  \/ /\ upload[hand[2]] = "consumed" /\ hand[2] \in recorded
                     /\ swapped' = swapped \cup {hand[2]}
<1>1. /\ pc[Cleanup] = "mark" /\ pc'[Cleanup] \in {"remove", "fail"}
      /\ UNCHANGED <<completing, submitted, recorded, late, storeVars, accountVars>>
  BY Jobs DEF CompleteCleanupObject, MarkUpload, MarkExport, MarkOriginal, Goto, TypeInv,
     AccountsTypeOK
<1>2. hand \in Listed
  BY <1>1 DEF Listed
<1>3. CASE MarkUpload(hand[2])
  BY <1>1, <1>2, <1>3 DEF MarkUpload
<1>4. CASE MarkExport(hand[2])
  BY <1>1, <1>2, <1>4 DEF MarkExport
<1>5. CASE MarkOriginal(hand[2])
  BY <1>1, <1>2, <1>5 DEF MarkOriginal
<1> QED
  BY <1>3, <1>4, <1>5 DEF CompleteCleanupObject

\* Completing a deletion, in the two ways it can end.
LEMMA DeletionCases ==
  ASSUME TypeInv, CompleteAccountDeletion
  PROVE  /\ pc[Deletion] = "remove" /\ todo[Deletion] = {} /\ pc'[Deletion] \in {"report", "fail"}
         /\ UNCHANGED <<due, customer, storeVars>>
         /\ \/ /\ request = "open" /\ due /\ request' = "completed"
               /\ user' = IF user = "deletion_pending" THEN "deleted" ELSE user
               /\ export' = [e \in Export |-> "absent"] /\ upload' = [u \in Upload |-> "absent"]
               /\ outdated' = {} /\ completing' = {} /\ submitted' = {} /\ recorded' = {}
               /\ swapped' = {} /\ lapsed' = {} /\ late' = {}
            \/ ~(request = "open" /\ due) /\ UNCHANGED <<user, request, exportVars, mediaVars>>
BY Jobs DEF CompleteAccountDeletion, Goto, TypeInv, AccountsTypeOK

\* A request restricts the account until it is cancelled or carried out, and no
\* attempt deletes after either.
LEMMA RequestsStep ==
  ASSUME TypeInv, RequestsRestrict, [Next]_vars
  PROVE  RequestsRestrict'
<1> USE DEF RequestsRestrict
<1>type. pc \in [Job -> {"idle", "start", "build", "open", "put", "complete", "media", "customer",
                         "remove", "list", "mark", "database", "report", "settle", "fail", "lost"}]
         /\ \A j \in Job : pc[j] = "idle" <=> job[j] # "running"
  BY DEF TypeInv, AccountsTypeOK
<1>1. request' = "open" => user' = "deletion_pending"
  <2>1. CASE UNCHANGED accountVars
    BY <2>1 DEF accountVars
  <2>2. CASE RequestAccountDeletion \/ CancelAccountDeletion \/ BecomeDue \/ DeleteCustomer
    BY <2>2 DEF RequestAccountDeletion, CancelAccountDeletion, BecomeDue, DeleteCustomer
  <2>3. CASE CompleteAccountDeletion
    BY <2>3, DeletionCases
  <2> QED
    BY <2>1, <2>2, <2>3, Frames
<1>2. pc'[Deletion] \in {"customer", "remove"} => request' = "open" /\ due'
  <2> SUFFICES ASSUME pc'[Deletion] \in {"customer", "remove"} PROVE request' = "open" /\ due'
    OBVIOUS
  <2>1. CASE pc'[Deletion] = pc[Deletion]
    <3>1. request = "open" /\ due
      BY <2>1
    <3>2. CASE UNCHANGED accountVars
      BY <3>1, <3>2 DEF accountVars
    <3>3. CASE BecomeDue \/ DeleteCustomer
      BY <3>1, <3>3 DEF BecomeDue, DeleteCustomer
    <3>4. ASSUME RequestAccountDeletion PROVE FALSE
      BY <3>1, <3>4 DEF RequestAccountDeletion
    <3>5. ASSUME CancelAccountDeletion PROVE FALSE
      BY <1>type, <2>1, <3>5, Jobs DEF CancelAccountDeletion
    <3>6. ASSUME CompleteAccountDeletion PROVE FALSE
      BY <3>6, DeletionCases
    <3> QED
      BY <3>2, <3>3, <3>4, <3>5, <3>6, Frames
  <2>2. CASE AccountDeletionMedia
    <3>1. UNCHANGED accountVars
      BY <2>2 DEF AccountDeletionMedia
    <3>2. request = "open" /\ due
      BY <1>type, <2>2, Jobs DEF AccountDeletionMedia, Goto
    <3> QED
      BY <3>1, <3>2 DEF accountVars
  <2>3. CASE DeleteCustomer \/ RemoveForDeletion
    BY <2>3 DEF DeleteCustomer, RemoveForDeletion, accountVars
  <2> QED
    BY <2>1, <2>2, <2>3, AttemptFrames
<1>3. pc'[Deletion] = "remove" => ~customer'
  <2>1. ~customer => ~customer'
    <3>1. CASE UNCHANGED accountVars
      BY <3>1 DEF accountVars
    <3>2. CASE RequestAccountDeletion \/ CancelAccountDeletion \/ BecomeDue \/ DeleteCustomer
      BY <3>2 DEF RequestAccountDeletion, CancelAccountDeletion, BecomeDue, DeleteCustomer
    <3>3. CASE CompleteAccountDeletion
      BY <3>3, DeletionCases
    <3> QED
      BY <3>1, <3>2, <3>3, Frames
  <2>2. CASE pc'[Deletion] = pc[Deletion]
    BY <2>1, <2>2
  <2>3. CASE AccountDeletionMedia
    BY <1>type, <2>3, Jobs DEF AccountDeletionMedia, Goto
  <2>4. CASE DeleteCustomer
    BY <2>4 DEF DeleteCustomer
  <2>5. CASE RemoveForDeletion
    BY <2>1, <2>5 DEF RemoveForDeletion
  <2> QED
    BY <2>2, <2>3, <2>4, <2>5, AttemptFrames
<1>4. request' = "open" /\ due' => ~WorkInProgress'
  <2> SUFFICES ASSUME request' = "open", due' PROVE ~WorkInProgress'
    OBVIOUS
  <2>1. CASE BecomeDue
    BY <2>1 DEF BecomeDue, WorkInProgress, mediaVars, storeVars, Live
  <2>2. CASE request = "open" /\ due
    <3>1. ~WorkInProgress /\ user # "active"
      BY <2>2
    <3>2. ASSUME NEW e \in Export, Live(e)' PROVE FALSE
      BY <3>1, <3>2, AttemptFrames DEF Live, WorkInProgress, CreateAccountExport
    <3> DEFINE Settled == /\ completing' = {}
                          /\ \A u \in Upload : /\ upload'[u] = "pending" => u \in lapsed'
                                               /\ upload'[u] = "consumed" =>
                                                    u \in recorded' \/ Original(u) \notin objects'
    <3>arrivals. \A u \in Upload : Original(u) \in objects' => Original(u) \in objects
      <4>1. CASE UNCHANGED storeVars
        BY <4>1 DEF storeVars
      <4>2. ASSUME NEW u \in Upload,
                   \/ CreateUpload(u) \/ PutObject(u)
                   \/ \E outcome \in Outcomes : Inspect(u, outcome)
            PROVE  FALSE
        BY <3>1, <4>2 DEF WorkInProgress, CreateUpload, PutObject, Inspect
      <4>3. ASSUME NEW e \in Export, PutArchive(e) PROVE FALSE
        BY <1>type, <3>1, <4>3, Jobs DEF WorkInProgress, PutArchive, Live
      <4>4. ASSUME NEW e \in Export, CompleteAccountExport(e) PROVE UNCHANGED objects
        BY <4>4 DEF CompleteAccountExport
      <4>5. CASE RemoveForDeletion \/ RemoveForCleanup
        BY <4>5 DEF RemoveForDeletion, RemoveForCleanup
      <4> QED
        BY <4>1, <4>2, <4>3, <4>4, <4>5, Frames
    <3>3. Settled
      <4>1. CASE UNCHANGED mediaVars
        BY <3>1, <3>arrivals, <4>1 DEF WorkInProgress, mediaVars
      <4>2. ASSUME NEW u \in Upload, Lapse(u) PROVE Settled
        BY <3>1, <3>arrivals, <4>2 DEF WorkInProgress, Lapse
      <4>3. ASSUME NEW u \in Upload,
                   \/ CreateUpload(u) \/ BeginComplete(u) \/ FinishComplete(u)
                   \/ CreateSubmission(u) \/ \E outcome \in Outcomes : Inspect(u, outcome)
            PROVE  FALSE
        BY <3>1, <4>3 DEF WorkInProgress, CreateUpload, BeginComplete, FinishComplete,
           CreateSubmission, Inspect
      <4>4. CASE CompleteCleanupObject
        BY <3>1, <3>arrivals, <4>4, MarkCases DEF WorkInProgress, TypeInv, AccountsTypeOK
      <4>5. CASE CompleteAccountDeletion
        BY <2>2, <4>5, DeletionCases
      <4> QED
        BY <4>1, <4>2, <4>3, <4>4, <4>5, Frames
    <3> QED
      BY <3>2, <3>3 DEF WorkInProgress
  <2>3. BecomeDue \/ (request = "open" /\ due)
    <3>1. CASE UNCHANGED accountVars
      BY <3>1 DEF accountVars
    <3>2. CASE RequestAccountDeletion \/ CancelAccountDeletion \/ DeleteCustomer
      BY <3>2 DEF RequestAccountDeletion, CancelAccountDeletion, DeleteCustomer
    <3>3. CASE CompleteAccountDeletion
      BY <3>3, DeletionCases
    <3> QED
      BY <3>1, <3>2, <3>3, Frames
  <2> QED
    BY <2>1, <2>2, <2>3
<1> QED
  BY <1>1, <1>2, <1>3, <1>4

-----------------------------------------------------------------------------
(* Types.                                                                  *)

\* The values of pc.
Calls == {"idle", "start", "build", "open", "put", "complete", "media", "customer", "remove",
          "list", "mark", "database", "report", "settle", "fail", "lost"}

\* The types of what each component of the state holds.
AccountTypes ==
  /\ user \in {"active", "deletion_pending", "deleted"}
  /\ request \in {"none", "open", "cancelled", "completed"}
  /\ due \in BOOLEAN /\ customer \in BOOLEAN

ExportTypes ==
  /\ export \in [Export -> {"absent", "pending", "processing", "ready", "failed", "expired"}]
  /\ outdated \subseteq {e \in Export : export[e] = "ready"}

MediaTypes ==
  /\ upload \in [Upload -> {"absent", "pending", "uploaded", "consumed", "rejected", "expired"}]
  /\ submitted \subseteq Rows /\ recorded \subseteq submitted /\ swapped \subseteq recorded
  /\ completing \subseteq Rows /\ lapsed \subseteq Rows /\ late \subseteq Rows

QueueTypes ==
  /\ job \in [Job -> {"none", "queued", "running", "succeeded", "dead"}]
  /\ tries \in [Job -> Nat] /\ \A j \in Job : tries[j] \in 0 .. MaxTries[j]
  /\ parked \in BOOLEAN
  /\ pc \in [Job -> Calls]
  /\ \A j \in Job : pc[j] = "idle" <=> job[j] # "running"
  /\ faults \in 0 .. MaxFaults

\* The account's own columns.
LEMMA AccountTypesStep == ASSUME TypeInv, AccountTypes, [Next]_vars PROVE AccountTypes'
<1> USE DEF AccountTypes
<1>1. CASE UNCHANGED accountVars
  BY <1>1 DEF accountVars
<1>2. CASE RequestAccountDeletion \/ CancelAccountDeletion \/ BecomeDue \/ DeleteCustomer
  BY <1>2 DEF RequestAccountDeletion, CancelAccountDeletion, BecomeDue, DeleteCustomer
<1>3. CASE CompleteAccountDeletion
  BY <1>3, DeletionCases
<1> QED
  BY <1>1, <1>2, <1>3, Frames

\* Export rows; only one that can be downloaded is outdated.
LEMMA ExportTypesStep == ASSUME TypeInv, [Next]_vars PROVE ExportTypes'
<1> USE DEF ExportTypes, TypeInv, AccountsTypeOK
<1>1. CASE UNCHANGED exportVars
  BY <1>1 DEF exportVars
<1>2. ASSUME NEW e \in Export,
             \/ CreateAccountExport(e) \/ OutdateExport(e) \/ StartAccountExport(e)
             \/ CompleteAccountExport(e) \/ FailAccountExport(e)
      PROVE  ExportTypes'
  BY <1>2 DEF CreateAccountExport, OutdateExport, StartAccountExport, CompleteAccountExport,
     FailAccountExport, Building
<1>3. CASE CompleteCleanupObject
  BY <1>3, MarkCases DEF exportVars
<1>4. CASE CompleteAccountDeletion
  BY <1>4, DeletionCases DEF exportVars
<1> QED
  BY <1>1, <1>2, <1>3, <1>4, Frames

\* Upload rows with their submissions, inspections and swaps.
LEMMA MediaTypesStep ==
  ASSUME TypeInv, [Next]_vars
  PROVE  MediaTypes' /\ UploadsAdvance'
<1> USE DEF MediaTypes, TypeInv, AccountsTypeOK, UploadsAdvance, Rows
<1>1. CASE UNCHANGED mediaVars
  BY <1>1 DEF mediaVars
<1>2. ASSUME NEW u \in Upload, CreateUpload(u) \/ BeginComplete(u) \/ FinishComplete(u)
      PROVE  MediaTypes' /\ UploadsAdvance'
  BY <1>2 DEF CreateUpload, BeginComplete, FinishComplete
<1>3. ASSUME NEW u \in Upload, CreateSubmission(u) \/ Lapse(u)
      PROVE  MediaTypes' /\ UploadsAdvance'
  BY <1>3 DEF CreateSubmission, Lapse
<1>4. ASSUME NEW u \in Upload, NEW outcome \in Outcomes, Inspect(u, outcome)
      PROVE  MediaTypes' /\ UploadsAdvance'
  BY <1>4 DEF Inspect
<1>5. CASE CompleteCleanupObject
  <2>1. hand[1] # "export" => hand[2] \in Upload
    BY <1>5, MarkCases, ItemShape
  <2> QED
    BY <1>5, <2>1, MarkCases
<1>6. CASE CompleteAccountDeletion
  BY <1>6, DeletionCases DEF mediaVars
<1> QED
  BY <1>1, <1>2, <1>3, <1>4, <1>5, <1>6, Frames

\* Keys in the store and keys that were named.
LEMMA StoreTypesStep ==
  ASSUME TypeInv, [Next]_vars
  PROVE  objects' \subseteq Keys /\ named' \subseteq Keys
<1> USE DEF TypeInv, AccountsTypeOK
<1>1. /\ \A u \in Upload : Original(u) \in Keys /\ Processed(u) \in Keys
      /\ \A e \in Export : Archive(e) \in Keys
  BY DEF Keys, Original, Processed, Archive
<1>2. CASE UNCHANGED storeVars
  BY <1>2 DEF storeVars
<1>3. ASSUME NEW u \in Upload,
             \/ CreateUpload(u) \/ PutObject(u) \/ \E outcome \in Outcomes : Inspect(u, outcome)
      PROVE  objects' \subseteq Keys /\ named' \subseteq Keys
  BY <1>1, <1>3 DEF CreateUpload, PutObject, Inspect, storeVars
<1>4. ASSUME NEW e \in Export, PutArchive(e) \/ CompleteAccountExport(e)
      PROVE  objects' \subseteq Keys /\ named' \subseteq Keys
  BY <1>1, <1>4 DEF PutArchive, CompleteAccountExport
<1>5. CASE RemoveForDeletion \/ RemoveForCleanup
  BY <1>5 DEF RemoveForDeletion, RemoveForCleanup
<1> QED
  BY <1>2, <1>3, <1>4, <1>5, Frames

\* The rows of the queue and the attempts: a row is running exactly as long as
\* it has an attempt, and is queued again only with one left.
LEMMA QueueTypesStep ==
  ASSUME TypeInv, QueueTypes, [Next]_vars
  PROVE  QueueTypes' /\ QueuedJobsHaveTries'
<1> USE Jobs DEF QueueTypes, QueuedJobsHaveTries, Calls
<1>tries. \A j \in Job : MaxTries[j] \in Nat \ {0}
  BY AccountsAssumption
<1>max. MaxFaults \in Nat
  BY AccountsAssumption
<1>inv. QueuedJobsHaveTries
  BY DEF TypeInv
<1>1. CASE UNCHANGED <<queueVars, pc, faults>>
  BY <1>1, <1>inv DEF queueVars
<1>enqueue. ASSUME NEW j \in Job, ~Live(j), Enqueue(j), UNCHANGED <<parked, pc, faults>>
            PROVE  QueueTypes' /\ QueuedJobsHaveTries'
  BY <1>enqueue, <1>tries, <1>inv DEF Enqueue, Live
<1>2. CASE EnqueueCleanup
  BY <1>2, <1>enqueue DEF EnqueueCleanup, attemptVars
<1>3. ASSUME NEW e \in Export, CreateAccountExport(e)
      PROVE  QueueTypes' /\ QueuedJobsHaveTries'
  BY <1>3, <1>enqueue DEF CreateAccountExport, attemptVars
<1>4. ASSUME NEW j \in Job, ClaimJob(j) PROVE QueueTypes' /\ QueuedJobsHaveTries'
  <2>1. /\ job[j] = "queued" /\ tries[j] < MaxTries[j]
        /\ job' = [job EXCEPT ![j] = "running"] /\ tries' = [tries EXCEPT ![j] = @ + 1]
        /\ pc' = [pc EXCEPT ![j] = FirstCall(j)] /\ UNCHANGED <<parked, faults>>
    BY <1>4, <1>inv DEF ClaimJob, Goto
  <2>2. FirstCall(j) \in {"start", "media", "list"}
    BY DEF FirstCall
  <2>3. tries' \in [Job -> Nat] /\ \A k \in Job : tries'[k] \in 0 .. MaxTries[k]
    BY <1>tries, <2>1
  <2>4. pc' \in [Job -> Calls] /\ pc'[j] # "idle"
    BY <2>1, <2>2
  <2> QED
    BY <1>inv, <2>1, <2>3, <2>4
<1>5. ASSUME NEW j \in Job, CompleteJob(j) \/ FailJob(j) \/ Recover(j)
      PROVE  QueueTypes' /\ QueuedJobsHaveTries'
  <2>1. /\ pc' = [pc EXCEPT ![j] = "idle"] /\ UNCHANGED <<tries, faults>>
        /\ \/ \E s \in {"succeeded", "dead"} : job' = [job EXCEPT ![j] = s]
           \/ tries[j] < MaxTries[j] /\ job' = [job EXCEPT ![j] = "queued"]
    BY <1>5 DEF CompleteJob, FailJob, Recover, Leave, Goto, Requeued
  <2>2. parked' \in BOOLEAN
    BY <1>5 DEF CompleteJob, FailJob, Recover
  <2> QED
    BY <1>inv, <2>1, <2>2
<1>6. ASSUME NEW j \in Job, Stop(j) \/ CallFails(j)
      PROVE  QueueTypes' /\ QueuedJobsHaveTries'
  <2>1. /\ pc[j] # "idle" /\ UNCHANGED queueVars /\ faults < MaxFaults /\ faults' = faults + 1
        /\ \E there \in {"lost", "settle", "fail"} : pc' = [pc EXCEPT ![j] = there]
    BY <1>6 DEF Stop, CallFails, Goto, OnError
  <2> QED
    BY <1>max, <1>inv, <2>1 DEF queueVars
<1>7. CASE RequestAccountDeletion
  <2>1. parked' = TRUE /\ UNCHANGED <<pc, faults>>
    BY <1>7 DEF RequestAccountDeletion, attemptVars
  <2>2. \/ UNCHANGED <<job, tries>>
        \/ ~Live(Deletion) /\ Enqueue(Deletion)
    BY <1>7 DEF RequestAccountDeletion
  <2> QED
    BY <1>tries, <1>inv, <2>1, <2>2 DEF Enqueue, Live
<1>8. CASE CancelAccountDeletion
  BY <1>8, <1>inv DEF CancelAccountDeletion, attemptVars
<1>9. CASE BecomeDue
  BY <1>9, <1>inv DEF BecomeDue, attemptVars
<1>10. ASSUME \/ \E u \in Upload :
                   \/ CreateUpload(u) \/ PutObject(u) \/ BeginComplete(u) \/ FinishComplete(u)
                   \/ CreateSubmission(u) \/ Lapse(u)
                   \/ \E outcome \in Outcomes : Inspect(u, outcome)
              \/ \E e \in Export : OutdateExport(e)
       PROVE  UNCHANGED <<queueVars, pc, faults>>
  BY <1>10 DEF CreateUpload, PutObject, BeginComplete, FinishComplete, CreateSubmission, Lapse,
     Inspect, OutdateExport, attemptVars
<1>call. ASSUME NEW j \in Job, pc[j] # "idle", NEW there \in Calls \ {"idle"},
                pc' = [pc EXCEPT ![j] = there] \/ UNCHANGED pc, UNCHANGED queueVars,
                faults' = faults \/ (faults < MaxFaults /\ faults' = faults + 1)
         PROVE  QueueTypes' /\ QueuedJobsHaveTries'
  BY <1>call, <1>max, <1>inv DEF queueVars
<1>11. ASSUME NEW e \in Export,
              \/ StartAccountExport(e) \/ BuildAccountExport(e) \/ CopyClip(e)
              \/ PutArchive(e) \/ CompleteAccountExport(e) \/ FailAccountExport(e)
       PROVE  QueueTypes' /\ QueuedJobsHaveTries'
  <2>1. /\ pc[e] # "idle" /\ UNCHANGED queueVars
        /\ faults' = faults \/ (faults < MaxFaults /\ faults' = faults + 1)
        /\ UNCHANGED pc \/ \E there \in Calls \ {"idle"} : pc' = [pc EXCEPT ![e] = there]
    BY <1>11 DEF StartAccountExport, BuildAccountExport, CopyClip, PutArchive,
       CompleteAccountExport, FailAccountExport, Goto, OnError
  <2> QED
    BY <1>call, <2>1
<1>12. ASSUME \/ AccountDeletionMedia \/ DeleteCustomer \/ RemoveForDeletion
              \/ CompleteAccountDeletion
       PROVE  QueueTypes' /\ QueuedJobsHaveTries'
  <2>1. /\ pc[Deletion] # "idle" /\ UNCHANGED <<queueVars, faults>>
        /\ UNCHANGED pc \/ \E there \in Calls \ {"idle"} : pc' = [pc EXCEPT ![Deletion] = there]
    BY <1>12 DEF AccountDeletionMedia, DeleteCustomer, RemoveForDeletion,
       CompleteAccountDeletion, Goto
  <2> QED
    BY <1>call, <2>1
<1>13. ASSUME ListCleanupObjects \/ RemoveForCleanup \/ CompleteCleanupObject \/ CleanupDatabase
       PROVE  QueueTypes' /\ QueuedJobsHaveTries'
  <2>1. /\ pc[Cleanup] # "idle" /\ UNCHANGED <<queueVars, faults>>
        /\ \E there \in Calls \ {"idle"} : pc' = [pc EXCEPT ![Cleanup] = there]
    BY <1>13 DEF ListCleanupObjects, RemoveForCleanup, CompleteCleanupObject, MarkUpload,
       MarkExport, MarkOriginal, CleanupDatabase, Goto
  <2> QED
    BY <1>call, <2>1
<1>14. CASE UNCHANGED vars
  BY <1>1, <1>14 DEF vars, attemptVars
<1> QED
  BY <1>1, <1>2, <1>3, <1>4, <1>5, <1>6, <1>7, <1>8, <1>9, <1>10, <1>11, <1>12, <1>13, <1>14,
     StepCases DEF QueueStep

\* Keys are in the store's key space, and different ones name different objects.
LEMMA KeyForms ==
  /\ \A u \in Upload : Original(u) \in Keys /\ Processed(u) \in Keys
  /\ \A e \in Export : Archive(e) \in Keys
  /\ \A k \in Keys : \/ \E u \in Upload : k = Original(u) \/ k = Processed(u)
                     \/ \E e \in Export : k = Archive(e)
  /\ \A u, v : Original(u) # Processed(v) /\ Original(u) # Archive(v) /\ Processed(u) # Archive(v)
  /\ \A u, v : (Original(u) = Original(v) \/ Processed(u) = Processed(v)
                \/ Archive(u) = Archive(v)) => u = v
BY DEF Keys, Original, Processed, Archive

\* The keys of rows are keys.
LEMMA RowKeysAreKeys ==
  ASSUME TypeInv
  PROVE  AccountKeys \subseteq Keys /\ \A u \in Upload : ObjectKey(u) \in Keys /\ RowKeys(u) \subseteq Keys
<1>1. \A u \in Upload : ObjectKey(u) \in Keys
  BY KeyForms DEF ObjectKey
<1>2. \A u \in Upload : RowKeys(u) \subseteq Keys
  BY <1>1, KeyForms DEF RowKeys
<1> QED
  BY <1>1, <1>2, KeyForms DEF AccountKeys, Rows

\* What the sweep lists, item by item.
LEMMA CleanupItems ==
  ASSUME TypeInv, ListCleanupObjects
  PROVE  /\ pc'[Cleanup] = "remove" /\ UNCHANGED <<accountVars, exportVars, mediaVars, storeVars>>
         /\ \A o \in todo'[Cleanup] :
              \/ \E u \in Upload : Swept(u) /\ \E k \in RowKeys(u) : o = <<"upload", u, k>>
              \/ \E e \in outdated : o = <<"export", e, Archive(e)>>
              \/ \E u \in (lapsed \cap recorded) \ swapped :
                   upload[u] = "consumed" /\ o = <<"original", u, ObjectKey(u)>>
         /\ \E items : todo' = [todo EXCEPT ![Cleanup] = items]
<1>1. pc'[Cleanup] = "remove" /\ UNCHANGED <<accountVars, exportVars, mediaVars, storeVars>>
  BY Jobs DEF ListCleanupObjects, Goto, TypeInv, AccountsTypeOK
<1>2. todo' = [todo EXCEPT ![Cleanup] =
         (UNION {{<<"upload", u, k>> : k \in RowKeys(u)} : u \in {v \in Upload : Swept(v)}})
         \cup {<<"export", e, Archive(e)>> : e \in outdated}
         \cup SweptOriginals]
  BY DEF ListCleanupObjects
<1>3. todo'[Cleanup] =
         (UNION {{<<"upload", u, k>> : k \in RowKeys(u)} : u \in {v \in Upload : Swept(v)}})
         \cup {<<"export", e, Archive(e)>> : e \in outdated}
         \cup SweptOriginals
  BY <1>2, Jobs DEF TypeInv, ListsAreTyped
<1>4. \A o \in SweptOriginals : \E u \in (lapsed \cap recorded) \ swapped :
         upload[u] = "consumed" /\ o = <<"original", u, ObjectKey(u)>>
  BY DEF SweptOriginals
<1>5. ASSUME NEW o \in todo'[Cleanup]
      PROVE  \/ \E u \in Upload : Swept(u) /\ \E k \in RowKeys(u) : o = <<"upload", u, k>>
             \/ \E e \in outdated : o = <<"export", e, Archive(e)>>
             \/ \E u \in (lapsed \cap recorded) \ swapped :
                  upload[u] = "consumed" /\ o = <<"original", u, ObjectKey(u)>>
  <2>1. CASE o \in UNION {{<<"upload", u, k>> : k \in RowKeys(u)} : u \in {v \in Upload : Swept(v)}}
    BY <2>1
  <2>2. CASE o \in {<<"export", e, Archive(e)>> : e \in outdated}
    BY <2>2
  <2>3. CASE o \in SweptOriginals
    BY <1>4, <2>3
  <2> QED
    BY <1>3, <2>1, <2>2, <2>3
<1>6. \E items : todo' = [todo EXCEPT ![Cleanup] = items]
  BY <1>2
<1> QED
  BY <1>1, <1>5, <1>6

\* What a step does to the list of an attempt.
LEMMA TodoStep ==
  ASSUME TypeInv, [Next]_vars
  PROVE  \/ UNCHANGED todo
         \/ \E j \in Job : \E s \in SUBSET (Keys \cup Items) :
              todo' = [todo EXCEPT ![j] = s] /\ (j # Cleanup => s \subseteq Keys)
<1> DEFINE Goal == \/ UNCHANGED todo
                   \/ \E j \in Job : \E s \in SUBSET (Keys \cup Items) :
                        todo' = [todo EXCEPT ![j] = s] /\ (j # Cleanup => s \subseteq Keys)
<1>lists. /\ todo \in [Job -> SUBSET (Keys \cup Items)]
          /\ \A j \in Job \ {Cleanup} : todo[j] \subseteq Keys
  BY DEF TypeInv, ListsAreTyped
<1>1. ASSUME NEW j \in Job, CompleteJob(j) \/ FailJob(j) \/ Recover(j) PROVE Goal
  BY <1>1 DEF CompleteJob, FailJob, Recover, Leave
<1>2. ASSUME NEW j \in Job, ClaimJob(j) \/ Stop(j) \/ CallFails(j) PROVE Goal
  BY <1>2 DEF ClaimJob, Stop, CallFails
<1>3. ASSUME \/ \E u \in Upload :
                  \/ CreateUpload(u) \/ PutObject(u) \/ BeginComplete(u) \/ FinishComplete(u)
                  \/ CreateSubmission(u) \/ Lapse(u)
                  \/ \E outcome \in Outcomes : Inspect(u, outcome)
             \/ \E e \in Export : CreateAccountExport(e) \/ OutdateExport(e)
             \/ RequestAccountDeletion \/ CancelAccountDeletion \/ BecomeDue \/ EnqueueCleanup
             \/ UNCHANGED vars
      PROVE  UNCHANGED todo
  BY <1>3 DEF CreateUpload, PutObject, BeginComplete, FinishComplete, CreateSubmission, Lapse,
     Inspect, CreateAccountExport, OutdateExport, RequestAccountDeletion, CancelAccountDeletion,
     BecomeDue, EnqueueCleanup, vars, attemptVars
<1>4. ASSUME NEW e \in Export,
             \/ StartAccountExport(e) \/ PutArchive(e) \/ CompleteAccountExport(e)
             \/ FailAccountExport(e)
      PROVE  UNCHANGED todo
  BY <1>4 DEF StartAccountExport, PutArchive, CompleteAccountExport, FailAccountExport
<1>5. ASSUME NEW e \in Export, BuildAccountExport(e) PROVE Goal
  <2>1. {ObjectKey(u) : u \in submitted} \subseteq Keys
    BY RowKeysAreKeys DEF TypeInv, AccountsTypeOK, Rows
  <2>2. todo' = [todo EXCEPT ![e] = {ObjectKey(u) : u \in submitted}]
    BY <1>5 DEF BuildAccountExport
  <2> QED
    BY <2>1, <2>2, Jobs
<1>6. ASSUME NEW e \in Export, CopyClip(e) PROVE Goal
  <2>1. UNCHANGED todo \/ \E k : todo' = [todo EXCEPT ![e] = @ \ {k}]
    BY <1>6 DEF CopyClip
  <2> QED
    BY <1>lists, <2>1, Jobs
<1>7. ASSUME AccountDeletionMedia PROVE Goal
  <2>1. UNCHANGED todo \/ todo' = [todo EXCEPT ![Deletion] = AccountKeys]
    BY <1>7 DEF AccountDeletionMedia
  <2> QED
    BY <2>1, RowKeysAreKeys, Jobs
<1>8. ASSUME RemoveForDeletion PROVE Goal
  <2>1. \E k : todo' = [todo EXCEPT ![Deletion] = @ \ {k}]
    BY <1>8 DEF RemoveForDeletion
  <2> QED
    BY <1>lists, <2>1, Jobs
<1>9. ASSUME DeleteCustomer \/ CompleteAccountDeletion \/ CompleteCleanupObject \/ CleanupDatabase
      PROVE  UNCHANGED todo
  BY <1>9 DEF DeleteCustomer, CompleteAccountDeletion, CompleteCleanupObject, CleanupDatabase
<1>10. ASSUME ListCleanupObjects PROVE Goal
  <2>1. PICK items : todo' = [todo EXCEPT ![Cleanup] = items]
    BY <1>10, CleanupItems
  <2>2. items = todo'[Cleanup]
    BY <1>lists, <2>1, Jobs
  <2>3. items \subseteq Items
    BY <1>10, <2>2, CleanupItems, RowKeysAreKeys, KeyForms DEF Items, TypeInv, AccountsTypeOK, Rows
  <2> QED
    BY <2>1, <2>3, Jobs
<1>11. ASSUME RemoveForCleanup PROVE Goal
  <2>1. \E o : todo' = [todo EXCEPT ![Cleanup] = @ \ {o}]
    BY <1>11 DEF RemoveForCleanup
  <2> QED
    BY <1>lists, <2>1, Jobs
<1> QED
  BY <1>1, <1>2, <1>3, <1>4, <1>5, <1>6, <1>7, <1>8, <1>9, <1>10, <1>11, StepCases DEF QueueStep

\* Lists hold keys, the sweep's hold items of their row and key.
LEMMA ListsStep ==
  ASSUME TypeInv, [Next]_vars
  PROVE  /\ ListsAreTyped'
         /\ hand' \in ({"upload", "export", "original"} \X (Upload \cup Export) \X Keys) \cup {Nothing}
<1>lists. /\ todo \in [Job -> SUBSET (Keys \cup Items)]
          /\ \A j \in Job \ {Cleanup} : todo[j] \subseteq Keys
          /\ Listed \subseteq Items
          /\ hand \in ({"upload", "export", "original"} \X (Upload \cup Export) \X Keys) \cup {Nothing}
  BY DEF TypeInv, ListsAreTyped, AccountsTypeOK
<1>1. /\ todo' \in [Job -> SUBSET (Keys \cup Items)]
      /\ \A j \in Job \ {Cleanup} : todo'[j] \subseteq Keys
  BY <1>lists, TodoStep
<1>2. CASE ListCleanupObjects
  <2>1. pc'[Cleanup] = "remove" /\ UNCHANGED hand
    BY <1>2, CleanupItems DEF ListCleanupObjects
  <2>2. todo'[Cleanup] \subseteq Items
    BY <1>2, CleanupItems, RowKeysAreKeys, KeyForms DEF Items, TypeInv, AccountsTypeOK, Rows
  <2> QED
    BY <1>lists, <1>1, <2>1, <2>2 DEF ListsAreTyped, Listed
<1>3. CASE RemoveForCleanup
  <2>1. PICK o \in todo[Cleanup] : hand' = o /\ todo' = [todo EXCEPT ![Cleanup] = @ \ {o}]
    BY <1>3 DEF RemoveForCleanup
  <2>2. o \in Items /\ Listed' \subseteq Listed \cup {o}
    BY <1>lists, <2>1, Jobs DEF Listed
  <2> QED
    BY <1>lists, <1>1, <2>1, <2>2 DEF ListsAreTyped, Items
<1>4. CASE ~ListCleanupObjects /\ ~RemoveForCleanup
  <2>1. hand' = hand \/ hand' = Nothing
    <3>1. CASE QueueStep
      BY <3>1 DEF QueueStep, EnqueueCleanup, ClaimJob, CompleteJob, FailJob, Recover, Stop,
         CallFails, Leave, attemptVars
    <3>2. ASSUME \/ \E u \in Upload :
                      \/ CreateUpload(u) \/ PutObject(u) \/ BeginComplete(u) \/ FinishComplete(u)
                      \/ CreateSubmission(u) \/ Lapse(u)
                      \/ \E outcome \in Outcomes : Inspect(u, outcome)
                 \/ \E e \in Export : CreateAccountExport(e) \/ OutdateExport(e)
                 \/ RequestAccountDeletion \/ CancelAccountDeletion \/ BecomeDue
                 \/ UNCHANGED vars
          PROVE  UNCHANGED hand
      BY <3>2 DEF CreateUpload, PutObject, BeginComplete, FinishComplete, CreateSubmission, Lapse,
         Inspect, CreateAccountExport, OutdateExport, RequestAccountDeletion,
         CancelAccountDeletion, BecomeDue, vars, attemptVars
    <3>3. ASSUME NEW e \in Export,
                 \/ StartAccountExport(e) \/ BuildAccountExport(e) \/ CopyClip(e)
                 \/ PutArchive(e) \/ CompleteAccountExport(e) \/ FailAccountExport(e)
          PROVE  UNCHANGED hand
      BY <3>3 DEF StartAccountExport, BuildAccountExport, CopyClip, PutArchive,
         CompleteAccountExport, FailAccountExport
    <3>4. ASSUME \/ AccountDeletionMedia \/ DeleteCustomer \/ RemoveForDeletion
                 \/ CompleteAccountDeletion \/ CompleteCleanupObject \/ CleanupDatabase
          PROVE  hand' = hand \/ hand' = Nothing
      BY <3>4 DEF AccountDeletionMedia, DeleteCustomer, RemoveForDeletion,
         CompleteAccountDeletion, CompleteCleanupObject, CleanupDatabase
    <3> QED
      BY <1>4, <3>1, <3>2, <3>3, <3>4, StepCases
  <2>2. Listed' \subseteq Listed
    BY <1>4, AttemptFrames
  <2> QED
    BY <1>lists, <1>1, <2>1, <2>2 DEF ListsAreTyped
<1> QED
  BY <1>2, <1>3, <1>4

\* The types are kept by every step.
LEMMA TypeStep == ASSUME TypeInv, [Next]_vars PROVE TypeInv'
<1>1. AccountTypes
  BY DEF TypeInv, AccountsTypeOK, AccountTypes
<1>2. QueueTypes
  BY DEF TypeInv, AccountsTypeOK, QueueTypes, Calls
<1>3. AccountTypes'
  BY <1>1, AccountTypesStep
<1>4. QueueTypes' /\ QueuedJobsHaveTries'
  BY <1>2, QueueTypesStep
<1>5. ExportTypes' /\ MediaTypes' /\ UploadsAdvance'
  BY ExportTypesStep, MediaTypesStep
<1>6. objects' \subseteq Keys /\ named' \subseteq Keys
  BY StoreTypesStep
<1>7. ListsAreTyped' /\ hand' \in ({"upload", "export", "original"} \X (Upload \cup Export) \X Keys) \cup {Nothing}
  BY ListsStep
<1>8. {due', customer', parked'} \subseteq BOOLEAN
  BY <1>3, <1>4 DEF AccountTypes, QueueTypes
<1>9. AccountsTypeOK'
  BY <1>3, <1>4, <1>5, <1>6, <1>7, <1>8
  DEF AccountsTypeOK, AccountTypes, ExportTypes, MediaTypes, QueueTypes, Calls
<1> QED
  BY <1>4, <1>5, <1>7, <1>9 DEF TypeInv, QueueTypes

\* Nothing has happened to the account yet.
LEMMA TypeInit == ASSUME Init PROVE TypeInv
<1> USE Jobs DEF Init
<1>1. AccountsTypeOK
  <2>1. {due, customer, parked} \subseteq BOOLEAN
    OBVIOUS
  <2>2. \A j \in Job : tries[j] \in 0 .. MaxTries[j]
    BY AccountsAssumption
  <2>3. faults \in 0 .. MaxFaults
    BY AccountsAssumption
  <2>4. /\ submitted \subseteq Rows /\ recorded \subseteq submitted /\ swapped \subseteq recorded
        /\ completing \subseteq Rows /\ lapsed \subseteq Rows /\ late \subseteq Rows
    OBVIOUS
  <2> QED
    BY <2>1, <2>2, <2>3, <2>4 DEF AccountsTypeOK
<1>2. ListsAreTyped
  BY DEF ListsAreTyped, Listed
<1> QED
  BY <1>1, <1>2 DEF TypeInv, QueuedJobsHaveTries, UploadsAdvance

\* Every column of the account, its exports, uploads and jobs, the store and
\* the attempts keep to the values the schema and the handlers give them.
THEOREM AccountsTypes == Spec => []AccountsTypeOK
<1>1. TypeInv /\ [Next]_vars => TypeInv'
  BY TypeStep
<1>2. Spec => []TypeInv
  BY <1>1, TypeInit, PTL DEF Spec
<1> QED
  BY <1>2, PTL DEF TypeInv

\* However a request is repeated, cancelled, retried or carried out, an attempt
\* that has begun to delete acts for a request that is open.
THEOREM DeletionsActForARequest == Spec => []DeletionActsForAnOpenRequest
<1>1. Init => TypeInv /\ RequestsRestrict
  <2> SUFFICES ASSUME Init PROVE TypeInv /\ RequestsRestrict
    OBVIOUS
  <2> QED
    BY TypeInit, Jobs DEF Init, RequestsRestrict
<1>2. (TypeInv /\ RequestsRestrict) /\ [Next]_vars => (TypeInv /\ RequestsRestrict)'
  BY TypeStep, RequestsStep
<1>3. RequestsRestrict => DeletionActsForAnOpenRequest
  BY DEF RequestsRestrict, DeletionActsForAnOpenRequest
<1> QED
  BY <1>1, <1>2, <1>3, PTL DEF Spec

-----------------------------------------------------------------------------
(* What the rows say of the objects, and what the sweep may still remove.  *)

\* A deleted account stays deleted, and becomes it only by a deletion that
\* removes its rows; a customer record is never made again.
LEMMA UserStays ==
  ASSUME TypeInv, [Next]_vars
  PROVE  /\ user = "deleted" => user' = "deleted"
         /\ user' = "deleted" => \/ user = "deleted"
                                 \/ CompleteAccountDeletion /\ request = "open" /\ due
         /\ customer' => customer
<1>1. CASE UNCHANGED accountVars
  BY <1>1 DEF accountVars
<1>2. CASE RequestAccountDeletion \/ CancelAccountDeletion \/ BecomeDue \/ DeleteCustomer
  BY <1>2 DEF RequestAccountDeletion, CancelAccountDeletion, BecomeDue, DeleteCustomer, TypeInv,
     AccountsTypeOK
<1>3. CASE CompleteAccountDeletion
  BY <1>3, DeletionCases
<1> QED
  BY <1>1, <1>2, <1>3, Frames

\* While the account is not deleted, no deletion has removed its rows.
LEMMA RowsStay ==
  ASSUME TypeInv, RequestsRestrict, CompleteAccountDeletion, user' # "deleted"
  PROVE  UNCHANGED <<exportVars, mediaVars, storeVars>>
BY DeletionCases DEF RequestsRestrict

\* An attempt that is at a call of its handler has a running row.
LEMMA AtWork ==
  ASSUME TypeInv, NEW e \in Export, pc[e] # "idle"
  PROVE  Live(e) /\ WorkInProgress
BY Jobs DEF TypeInv, AccountsTypeOK, Live, WorkInProgress

\* An export's row is in processing as long as an attempt builds its archive.
LEMMA ExportsAreBuiltStep ==
  ASSUME TypeInv, RequestsRestrict, ExportsAreBuilt, [Next]_vars
  PROVE  ExportsAreBuilt'
<1> SUFFICES ASSUME NEW e \in Export, pc'[e] \in {"build", "open", "complete"}
             PROVE  export'[e] = "processing"
  BY DEF ExportsAreBuilt
<1>type. /\ export \in [Export -> {"absent", "pending", "processing", "ready", "failed", "expired"}]
         /\ pc[e] = "idle" <=> job[e] # "running"
         /\ pc \in [Job -> Calls]
  BY Jobs DEF TypeInv, AccountsTypeOK, Calls
<1>1. CASE StartAccountExport(e)
  BY <1>type, <1>1, Jobs DEF StartAccountExport, Goto, OnError
<1>2. CASE BuildAccountExport(e) \/ PutArchive(e)
  BY <1>2 DEF ExportsAreBuilt, BuildAccountExport, PutArchive, exportVars
<1>3. CASE pc'[e] = pc[e]
  <2>1. export[e] = "processing"
    BY <1>3 DEF ExportsAreBuilt
  <2>2. CASE UNCHANGED exportVars
    BY <2>1, <2>2 DEF exportVars
  <2>3. ASSUME NEW x \in Export, CreateAccountExport(x) \/ OutdateExport(x)
        PROVE  export'[e] = "processing"
    BY <1>type, <2>1, <2>3 DEF CreateAccountExport, OutdateExport
  <2>4. ASSUME NEW x \in Export, StartAccountExport(x) PROVE export'[e] = "processing"
    BY <1>type, <2>1, <2>4 DEF StartAccountExport
  <2>5. ASSUME NEW x \in Export, CompleteAccountExport(x) PROVE export'[e] = "processing"
    <3>1. x # e
      BY <1>type, <1>3, <2>5, Jobs DEF CompleteAccountExport, Goto, OnError
    <3> QED
      BY <1>type, <2>1, <2>5, <3>1 DEF CompleteAccountExport
  <2>6. ASSUME NEW x \in Export, FailAccountExport(x) PROVE export'[e] = "processing"
    <3>1. x # e
      BY <1>3, <2>6 DEF FailAccountExport
    <3> QED
      BY <1>type, <2>1, <2>6, <3>1 DEF FailAccountExport
  <2>7. CASE CompleteCleanupObject
    BY <1>type, <2>1, <2>7, MarkCases DEF exportVars
  <2>8. CASE CompleteAccountDeletion
    <3>1. ~(request = "open" /\ due)
      BY <1>3, AtWork DEF RequestsRestrict
    <3> QED
      BY <2>1, <2>8, <3>1, DeletionCases DEF exportVars
  <2> QED
    BY <2>2, <2>3, <2>4, <2>5, <2>6, <2>7, <2>8, Frames
<1> QED
  BY <1>1, <1>2, <1>3, AttemptFrames

\* Statuses and marks that last as long as the account: of an upload that
\* exists, of one that was inspected, of an export whose time is over.
LEMMA RowsLast ==
  ASSUME TypeInv, RequestsRestrict, [Next]_vars, user' # "deleted"
  PROVE  /\ \A u \in Upload : upload[u] # "absent" => upload'[u] # "absent"
         /\ recorded \subseteq recorded' /\ recorded \cap lapsed \subseteq lapsed'
         /\ \A e \in Export :
              /\ export[e] \in {"ready", "expired"} => export'[e] \in {"ready", "expired"}
              /\ export[e] = "expired" => export'[e] = "expired"
              /\ e \in outdated => e \in outdated' \/ export'[e] = "expired"
<1> DEFINE M == /\ \A u \in Upload : upload[u] # "absent" => upload'[u] # "absent"
                /\ recorded \subseteq recorded' /\ recorded \cap lapsed \subseteq lapsed'
           X == \A e \in Export :
                  /\ export[e] \in {"ready", "expired"} => export'[e] \in {"ready", "expired"}
                  /\ export[e] = "expired" => export'[e] = "expired"
                  /\ e \in outdated => e \in outdated' \/ export'[e] = "expired"
<1>type. /\ upload \in [Upload -> {"absent", "pending", "uploaded", "consumed", "rejected", "expired"}]
         /\ export \in [Export -> {"absent", "pending", "processing", "ready", "failed", "expired"}]
         /\ outdated \subseteq {e \in Export : export[e] = "ready"}
         /\ \A u \in recorded : upload[u] = "consumed"
  BY DEF TypeInv, AccountsTypeOK, UploadsAdvance, Rows
<1>1. CASE CompleteAccountDeletion
  BY <1>1, RowsStay DEF exportVars, mediaVars
<1>2. CASE ~CompleteAccountDeletion
  <2>1. M
    <3>1. CASE UNCHANGED mediaVars
      BY <3>1 DEF mediaVars
    <3>2. ASSUME NEW u \in Upload,
                 \/ CreateUpload(u) \/ BeginComplete(u) \/ FinishComplete(u)
                 \/ CreateSubmission(u) \/ Lapse(u)
                 \/ \E outcome \in Outcomes : Inspect(u, outcome)
          PROVE  M
      BY <1>type, <3>2 DEF CreateUpload, BeginComplete, FinishComplete, CreateSubmission, Lapse,
         Inspect
    <3>3. CASE CompleteCleanupObject
      BY <1>type, <3>3, MarkCases
    <3> QED
      BY <1>2, <3>1, <3>2, <3>3, Frames
  <2>2. X
    <3>1. CASE UNCHANGED exportVars
      BY <3>1 DEF exportVars
    <3>2. ASSUME NEW e \in Export,
                 \/ CreateAccountExport(e) \/ OutdateExport(e) \/ StartAccountExport(e)
                 \/ CompleteAccountExport(e) \/ FailAccountExport(e)
          PROVE  X
      BY <1>type, <3>2 DEF CreateAccountExport, OutdateExport, StartAccountExport,
         CompleteAccountExport, FailAccountExport, Building
    <3>3. CASE CompleteCleanupObject
      BY <1>type, <3>3, MarkCases DEF exportVars
    <3> QED
      BY <1>2, <3>1, <3>2, <3>3, Frames
  <2> QED
    BY <2>1, <2>2
<1> QED
  BY <1>1, <1>2

\* Which objects appear, and of which rows.
LEMMA Arrivals ==
  ASSUME TypeInv, ExportsAreBuilt, [Next]_vars, NEW k \in objects' \ objects
  PROVE  \/ \E u \in Upload : k = Original(u) /\ PutObject(u) /\ upload[u] = "pending"
         \/ \E u \in Upload : /\ k = Processed(u) /\ u \notin recorded /\ upload[u] = "consumed"
                              /\ \E outcome \in Outcomes : Inspect(u, outcome)
         \/ \E e \in Export : /\ k = Archive(e) /\ PutArchive(e) /\ pc[e] = "open"
                              /\ export[e] = "processing"
<1>1. CASE UNCHANGED storeVars
  BY <1>1 DEF storeVars
<1>2. ASSUME NEW u \in Upload, CreateUpload(u) PROVE FALSE
  BY <1>2 DEF CreateUpload
<1>3. ASSUME NEW u \in Upload, PutObject(u) PROVE k = Original(u) /\ upload[u] = "pending"
  BY <1>3 DEF PutObject
<1>4. ASSUME NEW u \in Upload, NEW outcome \in Outcomes, Inspect(u, outcome)
      PROVE  k = Processed(u) /\ u \notin recorded /\ upload[u] = "consumed"
  BY <1>4 DEF Inspect, storeVars
<1>5. ASSUME NEW e \in Export, PutArchive(e)
      PROVE  k = Archive(e) /\ pc[e] = "open" /\ export[e] = "processing"
  BY <1>5 DEF PutArchive, ExportsAreBuilt
<1>6. ASSUME NEW e \in Export, CompleteAccountExport(e) PROVE FALSE
  BY <1>6 DEF CompleteAccountExport
<1>7. ASSUME RemoveForDeletion \/ RemoveForCleanup PROVE FALSE
  BY <1>7 DEF RemoveForDeletion, RemoveForCleanup
<1> QED
  BY <1>1, <1>2, <1>3, <1>4, <1>5, <1>6, <1>7, Frames

\* Which keys are named, and by which rows.
LEMMA Namings ==
  ASSUME TypeInv, [Next]_vars, NEW k \in named' \ named
  PROVE  \/ \E u \in Upload : k = Original(u) /\ CreateUpload(u) /\ upload'[u] = "pending"
         \/ \E u \in Upload : /\ k = Processed(u) /\ u \in recorded' /\ u \notin recorded
                              /\ \E outcome \in Outcomes : Inspect(u, outcome)
         \/ \E e \in Export : /\ k = Archive(e) /\ CompleteAccountExport(e)
                              /\ export'[e] = "ready" /\ pc[e] = "complete"
<1>type. /\ export \in [Export -> {"absent", "pending", "processing", "ready", "failed", "expired"}]
         /\ upload \in [Upload -> {"absent", "pending", "uploaded", "consumed", "rejected", "expired"}]
  BY DEF TypeInv, AccountsTypeOK
<1>1. CASE UNCHANGED storeVars
  BY <1>1 DEF storeVars
<1>2. ASSUME NEW u \in Upload, CreateUpload(u) PROVE k = Original(u) /\ upload'[u] = "pending"
  BY <1>type, <1>2 DEF CreateUpload
<1>3. ASSUME NEW u \in Upload, PutObject(u) PROVE FALSE
  BY <1>3 DEF PutObject
<1>4. ASSUME NEW u \in Upload, NEW outcome \in Outcomes, Inspect(u, outcome)
      PROVE  k = Processed(u) /\ u \in recorded' /\ u \notin recorded
  BY <1>4 DEF Inspect, storeVars
<1>5. ASSUME NEW e \in Export, PutArchive(e) PROVE FALSE
  BY <1>5 DEF PutArchive
<1>6. ASSUME NEW e \in Export, CompleteAccountExport(e)
      PROVE  k = Archive(e) /\ export'[e] = "ready" /\ pc[e] = "complete"
  BY <1>type, <1>6 DEF CompleteAccountExport
<1>7. ASSUME RemoveForDeletion \/ RemoveForCleanup PROVE FALSE
  BY <1>7 DEF RemoveForDeletion, RemoveForCleanup
<1> QED
  BY <1>1, <1>2, <1>3, <1>4, <1>5, <1>6, <1>7, Frames

\* A named key keeps its row as long as it may have an object.
LEMMA KeysHaveRowsStep ==
  ASSUME TypeInv, RequestsRestrict, ExportsAreBuilt, KeysHaveRows, ListedStays, [Next]_vars
  PROVE  KeysHaveRows'
<1> SUFFICES ASSUME user' # "deleted"
             PROVE  /\ \A u \in Upload : Original(u) \in named' => upload'[u] # "absent"
                    /\ \A u \in Upload : Processed(u) \in named' => u \in recorded'
                    /\ \A e \in Export : Archive(e) \in named' => export'[e] \in {"ready", "expired"}
                    /\ \A u \in swapped' : Original(u) \notin objects'
                    /\ \A e \in Export : export'[e] = "expired" => Archive(e) \notin objects'
  BY DEF KeysHaveRows, Original, Processed, Archive
<1>1. user # "deleted"
  BY UserStays
<1>rows. /\ \A u \in Upload : Original(u) \in named => upload[u] # "absent"
         /\ \A u \in Upload : Processed(u) \in named => u \in recorded
         /\ \A e \in Export : Archive(e) \in named => export[e] \in {"ready", "expired"}
         /\ \A u \in swapped : Original(u) \notin objects
         /\ \A e \in Export : export[e] = "expired" => Archive(e) \notin objects
  BY <1>1 DEF KeysHaveRows
<1>type. /\ export \in [Export -> {"absent", "pending", "processing", "ready", "failed", "expired"}]
         /\ \A u \in recorded : upload[u] = "consumed"
         /\ recorded \subseteq Upload /\ swapped \subseteq recorded
         /\ outdated \subseteq {e \in Export : export[e] = "ready"}
  BY DEF TypeInv, AccountsTypeOK, UploadsAdvance, Rows
<1>2. \A u \in Upload : Original(u) \in named' => upload'[u] # "absent"
  BY <1>rows, Namings, RowsLast, KeyForms
<1>3. \A u \in Upload : Processed(u) \in named' => u \in recorded'
  BY <1>rows, Namings, RowsLast, KeyForms
<1>4. ASSUME NEW e \in Export, Archive(e) \in named' PROVE export'[e] \in {"ready", "expired"}
  <2>1. CASE Archive(e) \in named
    BY <1>rows, <2>1, RowsLast
  <2>2. CASE Archive(e) \notin named
    <3>1. \E x \in Export : Archive(e) = Archive(x) /\ export'[x] = "ready"
      BY <1>4, <2>2, Namings, KeyForms
    <3> QED
      BY <3>1, KeyForms
  <2> QED
    BY <2>1, <2>2
<1>5. ASSUME NEW u \in swapped' PROVE Original(u) \notin objects'
  <2>1. CASE u \in swapped
    BY <1>rows, <1>type, <2>1, Arrivals, KeyForms
  <2>2. CASE u \notin swapped
    <3>1. CompleteCleanupObject
      <4>1. CASE UNCHANGED mediaVars
        BY <2>2, <4>1 DEF mediaVars
      <4>2. ASSUME NEW v \in Upload,
                   \/ CreateUpload(v) \/ BeginComplete(v) \/ FinishComplete(v)
                   \/ CreateSubmission(v) \/ Lapse(v)
                   \/ \E outcome \in Outcomes : Inspect(v, outcome)
            PROVE  FALSE
        BY <2>2, <4>2 DEF CreateUpload, BeginComplete, FinishComplete, CreateSubmission, Lapse,
           Inspect
      <4>3. ASSUME CompleteAccountDeletion PROVE FALSE
        BY <2>2, <4>3, DeletionCases DEF mediaVars
      <4> QED
        BY <4>1, <4>2, <4>3, Frames
    <3>2. /\ hand[1] = "original" /\ u = hand[2] /\ hand \in Listed /\ pc[Cleanup] = "mark"
          /\ UNCHANGED objects
      BY <2>2, <3>1, MarkCases DEF storeVars
    <3> QED
      BY <1>1, <3>2 DEF ListedStays
  <2> QED
    BY <2>1, <2>2
<1>6. ASSUME NEW e \in Export, export'[e] = "expired" PROVE Archive(e) \notin objects'
  <2>1. CASE export[e] = "expired"
    BY <1>rows, <2>1, Arrivals, KeyForms
  <2>2. CASE export[e] # "expired"
    <3>1. CompleteCleanupObject
      <4>1. CASE UNCHANGED exportVars
        BY <1>6, <2>2, <4>1 DEF exportVars
      <4>2. ASSUME NEW x \in Export,
                   \/ CreateAccountExport(x) \/ OutdateExport(x) \/ StartAccountExport(x)
                   \/ CompleteAccountExport(x) \/ FailAccountExport(x)
            PROVE  FALSE
        BY <1>6, <1>type, <2>2, <4>2 DEF CreateAccountExport, OutdateExport, StartAccountExport,
           CompleteAccountExport, FailAccountExport
      <4>3. ASSUME CompleteAccountDeletion PROVE FALSE
        BY <1>6, <2>2, <4>3, DeletionCases DEF exportVars
      <4> QED
        BY <4>1, <4>2, <4>3, Frames
    <3>2. /\ hand[1] = "export" /\ e = hand[2] /\ hand \in Listed /\ pc[Cleanup] = "mark"
          /\ UNCHANGED objects
      BY <1>6, <1>type, <2>2, <3>1, MarkCases DEF storeVars, exportVars
    <3> QED
      BY <1>1, <3>2 DEF ListedStays
  <2> QED
    BY <2>1, <2>2
<1> QED
  BY <1>2, <1>3, <1>4, <1>5, <1>6

\* The sweep's list keeps to rows that may be swept, and what it has removed
\* and not yet marked does not come back.
LEMMA ListedStaysStep ==
  ASSUME TypeInv, RequestsRestrict, ExportsAreBuilt, KeysHaveRows, ListedStays, [Next]_vars
  PROVE  ListedStays'
<1> DEFINE Sound(o) ==
      /\ o[1] = "export" =>
           o[3] = Archive(o[2]) /\ (o[2] \in outdated' \/ export'[o[2]] = "expired")
      /\ o[1] = "original" => o[3] = Original(o[2]) /\ o[2] \in recorded' \cap lapsed'
<1> SUFFICES ASSUME user' # "deleted"
             PROVE  /\ \A o \in Listed' : Sound(o)
                    /\ pc'[Cleanup] = "mark" /\ hand'[1] # "upload" => hand'[3] \notin objects'
  BY DEF ListedStays, Original, Archive
<1>1. user # "deleted"
  BY UserStays
<1>2. /\ \A o \in Listed :
           /\ o[1] = "export" =>
                o[3] = Archive(o[2]) /\ (o[2] \in outdated \/ export[o[2]] = "expired")
           /\ o[1] = "original" => o[3] = Original(o[2]) /\ o[2] \in recorded \cap lapsed
      /\ pc[Cleanup] = "mark" /\ hand[1] # "upload" => hand[3] \notin objects
  BY <1>1 DEF ListedStays
<1>3. \A o \in Listed : Sound(o)
  BY <1>2, ItemShape, RowsLast
<1>4. CASE ListCleanupObjects
  <2>1. pc'[Cleanup] = "remove" /\ UNCHANGED <<exportVars, mediaVars>>
    BY <1>4, CleanupItems
  <2>2. ASSUME NEW o \in todo'[Cleanup] PROVE Sound(o)
    <3>1. ASSUME NEW u \in Upload, NEW k \in RowKeys(u), o = <<"upload", u, k>> PROVE Sound(o)
      BY <3>1
    <3>2. ASSUME NEW e \in outdated, o = <<"export", e, Archive(e)>> PROVE Sound(o)
      BY <2>1, <3>2 DEF exportVars
    <3>3. ASSUME NEW u \in (lapsed \cap recorded) \ swapped, o = <<"original", u, ObjectKey(u)>>
          PROVE  Sound(o)
      BY <2>1, <3>3 DEF ObjectKey, mediaVars
    <3> QED
      BY <1>4, <3>1, <3>2, <3>3, CleanupItems
  <2> QED
    BY <2>1, <2>2 DEF Listed
<1>5. CASE RemoveForCleanup
  <2>1. PICK o \in todo[Cleanup] : /\ hand' = o /\ objects' = objects \ {o[3]}
                                   /\ todo' = [todo EXCEPT ![Cleanup] = @ \ {o}]
    BY <1>5 DEF RemoveForCleanup
  <2>2. Listed' \subseteq Listed
    BY <2>1, Jobs DEF Listed, TypeInv, ListsAreTyped
  <2> QED
    BY <1>3, <2>1, <2>2
<1>6. CASE ~ListCleanupObjects /\ ~RemoveForCleanup
  <2>1. /\ Listed' \subseteq Listed
        /\ pc'[Cleanup] = "mark" => pc[Cleanup] = "mark" /\ hand' = hand
    BY <1>6, AttemptFrames
  <2>2. ASSUME pc[Cleanup] = "mark", hand[1] # "upload", hand[3] \in objects' PROVE FALSE
    <3>1. hand \in Listed /\ hand[3] \in objects' \ objects
      BY <1>2, <2>2 DEF Listed
    <3>2. /\ \A u \in recorded : upload[u] = "consumed"
          /\ outdated \subseteq {e \in Export : export[e] = "ready"}
      BY DEF TypeInv, AccountsTypeOK, UploadsAdvance, Rows
    <3>3. CASE hand[1] = "export"
      <4>1. hand[3] = Archive(hand[2]) /\ export[hand[2]] \in {"ready", "expired"}
        BY <1>2, <3>1, <3>2, <3>3
      <4>2. \E e \in Export : hand[3] = Archive(e) /\ export[e] = "processing"
        BY <3>1, <4>1, Arrivals, KeyForms
      <4> QED
        BY <4>1, <4>2, KeyForms
    <3>4. CASE hand[1] = "original"
      <4>1. hand[3] = Original(hand[2]) /\ upload[hand[2]] = "consumed"
        BY <1>2, <3>1, <3>2, <3>4
      <4>2. \E u \in Upload : hand[3] = Original(u) /\ upload[u] = "pending"
        BY <3>1, <4>1, Arrivals, KeyForms
      <4> QED
        BY <4>1, <4>2, KeyForms
    <3> QED
      BY <2>2, <3>1, <3>3, <3>4, ItemShape
  <2> QED
    BY <1>3, <2>1, <2>2
<1> QED
  BY <1>4, <1>5, <1>6

-----------------------------------------------------------------------------
(* Deletion.                                                               *)

\* The rows of an account that is not deleted name every object a row of it
\* has ever named.
LEMMA ListNamesAll ==
  ASSUME TypeInv, KeysHaveRows, user # "deleted"
  PROVE  objects \cap named \subseteq AccountKeys
<1>type. /\ recorded \subseteq Rows /\ Rows \subseteq Upload
         /\ named \subseteq Keys
  BY DEF TypeInv, AccountsTypeOK, Rows
<1>1. ASSUME NEW u \in Rows PROVE RowKeys(u) \subseteq AccountKeys
  BY <1>1 DEF AccountKeys
<1>2. ASSUME NEW u \in Upload, Original(u) \in objects \cap named PROVE Original(u) \in AccountKeys
  <2>1. u \in Rows /\ u \notin swapped
    BY <1>2 DEF KeysHaveRows, Rows
  <2> QED
    BY <1>1, <2>1 DEF RowKeys, ObjectKey
<1>3. ASSUME NEW u \in Upload, Processed(u) \in objects \cap named PROVE Processed(u) \in AccountKeys
  <2>1. u \in recorded
    BY <1>3 DEF KeysHaveRows
  <2> QED
    BY <1>1, <1>type, <2>1 DEF RowKeys
<1>4. ASSUME NEW e \in Export, Archive(e) \in objects \cap named PROVE Archive(e) \in AccountKeys
  <2>1. export[e] = "ready"
    BY <1>4 DEF KeysHaveRows
  <2> QED
    BY <2>1 DEF AccountKeys
<1> QED
  BY <1>type, <1>2, <1>3, <1>4, KeyForms

\* While a deletion removes what it has listed, nothing is added to the store
\* and no key is named: its request is due, so nothing is in progress.
LEMMA NothingIsAdded ==
  ASSUME TypeInv, RequestsRestrict, ExportsAreBuilt, [Next]_vars, request = "open", due
  PROVE  objects' \subseteq objects /\ named' \subseteq named
<1>1. ~WorkInProgress /\ user = "deletion_pending"
  BY DEF RequestsRestrict
<1>2. \A e \in Export : pc[e] = "idle"
  BY <1>1, AtWork
<1>3. ASSUME NEW u \in Upload, PutObject(u) \/ CreateUpload(u) PROVE FALSE
  BY <1>1, <1>3 DEF PutObject, CreateUpload, WorkInProgress
<1>4. ASSUME NEW u \in Upload, NEW outcome \in Outcomes, Inspect(u, outcome) PROVE FALSE
  BY <1>1, <1>4 DEF Inspect, WorkInProgress
<1>5. \A k : k \notin objects' \ objects
  BY <1>2, <1>3, <1>4, Arrivals
<1>6. \A k : k \notin named' \ named
  BY <1>2, <1>3, <1>4, Namings
<1> QED
  BY <1>5, <1>6

\* The list an attempt has read stays complete until it has removed all of it.
LEMMA ListIsCompleteStep ==
  ASSUME TypeInv, RequestsRestrict, ExportsAreBuilt, KeysHaveRows, ListIsComplete, [Next]_vars
  PROVE  ListIsComplete'
<1> SUFFICES ASSUME pc'[Deletion] \in {"customer", "remove"}
             PROVE  objects' \cap named' \subseteq todo'[Deletion]
  BY DEF ListIsComplete
<1>type. /\ pc \in [Job -> Calls]
         /\ todo \in [Job -> SUBSET (Keys \cup Items)]
  BY DEF TypeInv, AccountsTypeOK, ListsAreTyped, Calls
<1>1. CASE AccountDeletionMedia
  <2>1. /\ request = "open" /\ UNCHANGED storeVars
        /\ todo' = [todo EXCEPT ![Deletion] = AccountKeys]
    BY <1>type, <1>1, Jobs DEF AccountDeletionMedia, Goto
  <2>2. objects \cap named \subseteq AccountKeys
    BY <2>1, ListNamesAll DEF RequestsRestrict
  <2> QED
    BY <1>type, <2>1, <2>2, Jobs DEF storeVars
<1>2. CASE DeleteCustomer
  BY <1>2 DEF ListIsComplete, DeleteCustomer, storeVars
<1>3. CASE RemoveForDeletion
  <2>1. PICK k \in todo[Deletion] : /\ objects' = objects \ {k} /\ UNCHANGED named
                                    /\ todo' = [todo EXCEPT ![Deletion] = @ \ {k}]
    BY <1>3 DEF RemoveForDeletion
  <2>2. objects \cap named \subseteq todo[Deletion]
    BY <1>3 DEF ListIsComplete, RemoveForDeletion
  <2>3. todo'[Deletion] = todo[Deletion] \ {k}
    BY <1>type, <2>1, Jobs
  <2> QED
    BY <2>1, <2>2, <2>3
<1>4. CASE pc'[Deletion] = pc[Deletion] /\ todo'[Deletion] = todo[Deletion]
  <2>1. objects' \subseteq objects /\ named' \subseteq named
    BY <1>4, NothingIsAdded DEF RequestsRestrict
  <2> QED
    BY <1>4, <2>1 DEF ListIsComplete
<1> QED
  BY <1>1, <1>2, <1>3, <1>4, AttemptFrames

\* An account becomes deleted with an empty list, and gets nothing after that.
LEMMA DeletedStep ==
  ASSUME AccountInv, [Next]_vars
  PROVE  DeletedAccountsLeaveNothing'
<1> SUFFICES ASSUME user' = "deleted"
             PROVE  /\ objects' \cap named' = {}
                    /\ \A e \in Export : export'[e] = "absent"
                    /\ \A u \in Upload : upload'[u] = "absent"
                    /\ ~customer'
  BY DEF DeletedAccountsLeaveNothing, Rows
<1> USE DEF AccountInv
<1>1. CASE user = "deleted"
  <2>1. /\ objects \cap named = {} /\ ~customer
        /\ \A e \in Export : export[e] = "absent"
        /\ \A u \in Upload : upload[u] = "absent"
    BY <1>1 DEF DeletedAccountsLeaveNothing, Rows
  <2>2. ~customer'
    BY <2>1, UserStays DEF TypeInv, AccountsTypeOK
  <2>3. request # "open"
    BY <1>1 DEF RequestsRestrict
  <2>type. /\ export \in [Export -> {"absent", "pending", "processing", "ready", "failed", "expired"}]
           /\ outdated = {} /\ recorded = {} /\ completing = {}
    BY <2>1 DEF TypeInv, AccountsTypeOK, Rows
  <2>4. \A k : k \notin objects' \ objects
    BY <2>1, Arrivals
  <2>5. \A e \in Export : export'[e] = "absent"
    <3>1. CASE UNCHANGED exportVars
      BY <2>1, <3>1 DEF exportVars
    <3>2. ASSUME NEW e \in Export,
                 \/ CreateAccountExport(e) \/ OutdateExport(e) \/ StartAccountExport(e)
                 \/ CompleteAccountExport(e) \/ FailAccountExport(e)
          PROVE  \A x \in Export : export'[x] = "absent"
      BY <1>1, <2>1, <2>type, <3>2 DEF CreateAccountExport, OutdateExport, StartAccountExport,
         CompleteAccountExport, FailAccountExport, Building
    <3>3. CASE CompleteCleanupObject
      BY <2>1, <2>type, <3>3, MarkCases DEF exportVars
    <3>4. CASE CompleteAccountDeletion
      BY <2>1, <2>3, <3>4, DeletionCases DEF exportVars
    <3> QED
      BY <3>1, <3>2, <3>3, <3>4, Frames
  <2>6. \A u \in Upload : upload'[u] = "absent"
    <3>1. CASE UNCHANGED mediaVars
      BY <2>1, <3>1 DEF mediaVars
    <3>2. ASSUME NEW u \in Upload,
                 \/ CreateUpload(u) \/ BeginComplete(u) \/ FinishComplete(u)
                 \/ CreateSubmission(u) \/ Lapse(u)
                 \/ \E outcome \in Outcomes : Inspect(u, outcome)
          PROVE  FALSE
      BY <1>1, <2>1, <2>type, <3>2 DEF CreateUpload, BeginComplete, FinishComplete,
         CreateSubmission, Lapse, Inspect
    <3>3. CASE CompleteCleanupObject
      <4>1. hand[1] = "upload" => hand[2] \in Upload
        BY <3>3, MarkCases, ItemShape
      <4>2. UNCHANGED upload
        BY <2>1, <3>3, <4>1, MarkCases
      <4> QED
        BY <2>1, <4>2
    <3>4. CASE CompleteAccountDeletion
      BY <2>1, <2>3, <3>4, DeletionCases DEF mediaVars
    <3> QED
      BY <3>1, <3>2, <3>3, <3>4, Frames
  <2>7. \A k : k \notin named' \ named
    <3> SUFFICES ASSUME NEW k \in named' \ named PROVE FALSE
      OBVIOUS
    <3>1. \A u \in Upload : upload'[u] # "pending"
      BY <2>6
    <3>2. \A e \in Export : export'[e] # "ready"
      BY <2>5
    <3>3. PICK u \in Upload : \E outcome \in Outcomes : Inspect(u, outcome)
      BY <3>1, <3>2, Namings
    <3> QED
      BY <2>1, <3>3 DEF Inspect
  <2> QED
    BY <2>1, <2>2, <2>4, <2>5, <2>6, <2>7
<1>2. CASE user # "deleted"
  <2>1. CompleteAccountDeletion /\ request = "open" /\ due
    BY <1>2, UserStays
  <2>2. pc[Deletion] = "remove" /\ todo[Deletion] = {} /\ UNCHANGED <<storeVars, customer>>
    BY <2>1, DeletionCases
  <2>3. ~customer /\ objects \cap named = {}
    BY <2>2 DEF RequestsRestrict, ListIsComplete
  <2>4. /\ export' = [e \in Export |-> "absent"] /\ upload' = [u \in Upload |-> "absent"]
    BY <2>1, DeletionCases
  <2> QED
    BY <2>2, <2>3, <2>4 DEF storeVars
<1> QED
  BY <1>1, <1>2

\* The parts of the invariant hold together.
LEMMA AccountStepInv == ASSUME AccountInv, [Next]_vars PROVE AccountInv'
BY TypeStep, RequestsStep, ExportsAreBuiltStep, KeysHaveRowsStep, ListedStaysStep,
   ListIsCompleteStep, DeletedStep DEF AccountInv

\* A new account has nothing.
LEMMA AccountInit == ASSUME Init PROVE AccountInv
<1>1. TypeInv
  BY TypeInit
<1>2. RequestsRestrict /\ ExportsAreBuilt /\ ListIsComplete
  BY Jobs DEF Init, RequestsRestrict, ExportsAreBuilt, ListIsComplete
<1>3. KeysHaveRows
  BY DEF Init, KeysHaveRows
<1>4. ListedStays /\ DeletedAccountsLeaveNothing
  BY Jobs DEF Init, ListedStays, Listed, DeletedAccountsLeaveNothing
<1> QED
  BY <1>1, <1>2, <1>3, <1>4 DEF AccountInv

\* However often a deletion is retried, refused, cancelled or overtaken by the
\* sweep and by exports, a deleted account leaves no row, no customer record
\* and no object that a row of it has ever named.
THEOREM DeletionsAreComplete == Spec => []DeletedAccountsLeaveNothing
<1>1. AccountInv /\ [Next]_vars => AccountInv'
  BY AccountStepInv
<1>2. Spec => []AccountInv
  BY <1>1, AccountInit, PTL DEF Spec
<1>3. AccountInv => DeletedAccountsLeaveNothing
  BY DEF AccountInv
<1> QED
  BY <1>2, <1>3, PTL

-----------------------------------------------------------------------------
(* What is served stays in the store.                                      *)

\* Only listing adds to what the sweep may remove.
LEMMA ListedLater ==
  ASSUME TypeInv, [Next]_vars, NEW o \in Listed', o \notin Listed
  PROVE  ListCleanupObjects
<1>1. ASSUME RemoveForCleanup PROVE Listed' \subseteq Listed
  <2>1. PICK x \in todo[Cleanup] : hand' = x /\ todo' = [todo EXCEPT ![Cleanup] = @ \ {x}]
    BY <1>1 DEF RemoveForCleanup
  <2> QED
    BY <2>1, Jobs DEF Listed, TypeInv, ListsAreTyped
<1> QED
  BY <1>1, AttemptFrames

\* The sweep's items in the words of the rows they came from, for an account
\* that is not deleted: none is the object of a row in use, but of a late one.
LEMMA SweptItems ==
  ASSUME AccountInv, ServedInv, user # "deleted", NEW o \in Listed
  PROVE  \/ /\ o[2] \in Upload /\ o[3] = Original(o[2])
            /\ \/ upload[o[2]] \in {"expired", "rejected"}
               \/ upload[o[2]] = "pending" /\ o[2] \in lapsed
               \/ upload[o[2]] = "consumed" /\ o[2] \in lapsed
               \/ o[2] \in late
         \/ /\ o[2] \in Export /\ o[3] = Archive(o[2])
            /\ o[2] \in outdated \/ export[o[2]] = "expired"
<1>1. TypeInv /\ ListedStays
  BY DEF AccountInv
<1>2. CASE o[1] = "upload"
  BY <1>1, <1>2, ItemShape DEF ServedInv
<1>3. CASE o[1] = "export"
  BY <1>1, <1>3, ItemShape DEF ListedStays
<1>4. CASE o[1] = "original"
  BY <1>1, <1>4, ItemShape DEF ListedStays, TypeInv, UploadsAdvance
<1> QED
  BY <1>1, <1>2, <1>3, <1>4, ItemShape

\* Which objects go, and when.
LEMMA Departures ==
  ASSUME AccountInv, [Next]_vars, NEW k \in objects \ objects'
  PROVE  \/ request = "open" /\ due /\ ~customer
         \/ \E o \in Listed : k = o[3]
<1>1. CASE RemoveForDeletion
  BY <1>1 DEF RemoveForDeletion, AccountInv, RequestsRestrict
<1>2. CASE RemoveForCleanup
  BY <1>2 DEF RemoveForCleanup, Listed
<1>3. CASE UNCHANGED storeVars
  BY <1>3 DEF storeVars
<1>4. ASSUME \/ \E u \in Upload : \/ CreateUpload(u) \/ PutObject(u)
                                  \/ \E outcome \in Outcomes : Inspect(u, outcome)
             \/ \E e \in Export : PutArchive(e) \/ CompleteAccountExport(e)
      PROVE  FALSE
  BY <1>4 DEF CreateUpload, PutObject, Inspect, PutArchive, CompleteAccountExport, storeVars
<1> QED
  BY <1>1, <1>2, <1>3, <1>4, Frames DEF AccountInv

\* An upload that is being completed keeps its object until its time is over.
LEMMA CompletionsStep ==
  ASSUME AccountInv, ServedInv, [Next]_vars,
         NEW u \in completing', upload'[u] = "pending", u \notin lapsed'
  PROVE  Original(u) \in objects'
<1>type. /\ TypeInv
         /\ upload \in [Upload -> {"absent", "pending", "uploaded", "consumed", "rejected", "expired"}]
         /\ completing \subseteq Upload /\ lapsed \subseteq Upload /\ late \subseteq Upload
         /\ \A v \in completing \cup late : upload[v] # "absent"
         /\ outdated \subseteq Export
  BY DEF AccountInv, TypeInv, AccountsTypeOK, Rows
<1>1. u \in Upload /\ upload[u] = "pending" /\ u \notin lapsed /\ Original(u) \in objects
  <2> DEFINE Goal == /\ u \in Upload
                     /\ upload[u] = "pending" /\ u \notin lapsed /\ Original(u) \in objects
  <2>0. u \in completing /\ upload[u] = "pending" /\ u \notin lapsed => Original(u) \in objects
    BY DEF ServedInv
  <2>1. CASE UNCHANGED mediaVars
    BY <1>type, <2>0, <2>1 DEF mediaVars
  <2>2. ASSUME NEW v \in Upload, BeginComplete(v) PROVE Goal
    BY <1>type, <2>0, <2>2 DEF BeginComplete
  <2>3. ASSUME NEW v \in Upload, Lapse(v) PROVE Goal
    BY <1>type, <2>0, <2>3 DEF Lapse
  <2>4. ASSUME NEW v \in Upload, CreateUpload(v) \/ FinishComplete(v) PROVE Goal
    BY <1>type, <2>0, <2>4 DEF CreateUpload, FinishComplete
  <2>5. ASSUME NEW v \in Upload,
               CreateSubmission(v) \/ \E outcome \in Outcomes : Inspect(v, outcome)
        PROVE  Goal
    BY <1>type, <2>0, <2>5 DEF CreateSubmission, Inspect
  <2>6. CASE CompleteCleanupObject
    BY <1>type, <2>0, <2>6, MarkCases
  <2>7. CASE CompleteAccountDeletion
    BY <1>type, <2>0, <2>7, DeletionCases DEF mediaVars
  <2> QED
    BY <1>type, <2>1, <2>2, <2>3, <2>4, <2>5, <2>6, <2>7, Frames
<1>2. Original(u) \in objects'
  <2> SUFFICES ASSUME Original(u) \notin objects' PROVE FALSE
    OBVIOUS
  <2>1. user # "deleted"
    BY <1>1 DEF AccountInv, DeletedAccountsLeaveNothing, Rows
  <2>2. ~(request = "open" /\ due)
    BY <1>1 DEF AccountInv, RequestsRestrict, WorkInProgress
  <2>3. PICK o \in Listed : Original(u) = o[3]
    BY <1>1, <2>2, Departures
  <2>4. u \notin late
    BY <1>1 DEF AccountInv, TypeInv, UploadsAdvance
  <2> QED
    BY <1>1, <2>1, <2>3, <2>4, SweptItems, KeyForms
<1> QED
  BY <1>1, <1>2

\* What the sweep has listed for an upload it may still remove.
LEMMA UploadItemsStep ==
  ASSUME AccountInv, ServedInv, [Next]_vars, user' # "deleted",
         NEW o \in Listed', o[1] = "upload"
  PROVE  /\ o[3] = Original(o[2])
         /\ \/ upload'[o[2]] \in {"expired", "rejected"}
            \/ upload'[o[2]] = "pending" /\ o[2] \in lapsed'
            \/ o[2] \in late'
<1>type. /\ TypeInv
         /\ upload \in [Upload -> {"absent", "pending", "uploaded", "consumed", "rejected", "expired"}]
         /\ \A u \in recorded : upload[u] = "consumed"
         /\ swapped \subseteq recorded /\ recorded \subseteq Upload
         /\ RequestsRestrict
  BY DEF AccountInv, TypeInv, AccountsTypeOK, Rows, UploadsAdvance
<1>1. user # "deleted"
  BY <1>type, UserStays
<1>2. CASE o \in Listed
  <2>1. /\ o[2] \in Upload /\ o[3] = Original(o[2])
        /\ \/ upload[o[2]] \in {"expired", "rejected"}
           \/ upload[o[2]] = "pending" /\ o[2] \in lapsed
           \/ o[2] \in late
    BY <1>type, <1>1, <1>2, ItemShape DEF ServedInv
  <2> DEFINE Goal == \/ upload'[o[2]] \in {"expired", "rejected"}
                     \/ upload'[o[2]] = "pending" /\ o[2] \in lapsed'
                     \/ o[2] \in late'
  <2>2. CASE UNCHANGED mediaVars
    BY <2>1, <2>2 DEF mediaVars
  <2>3. ASSUME NEW u \in Upload, FinishComplete(u) PROVE Goal
    BY <1>type, <2>1, <2>3 DEF FinishComplete
  <2>4. ASSUME NEW u \in Upload,
               CreateUpload(u) \/ BeginComplete(u) \/ CreateSubmission(u) \/ Lapse(u)
        PROVE  Goal
    BY <1>type, <2>1, <2>4 DEF CreateUpload, BeginComplete, CreateSubmission, Lapse
  <2>5. ASSUME NEW u \in Upload, NEW outcome \in Outcomes, Inspect(u, outcome) PROVE Goal
    BY <1>type, <2>1, <2>5 DEF Inspect
  <2>6. CASE CompleteCleanupObject
    BY <1>type, <2>1, <2>6, MarkCases
  <2>7. CASE CompleteAccountDeletion
    BY <1>type, <2>1, <2>7, RowsStay DEF mediaVars
  <2> QED
    BY <1>type, <2>1, <2>2, <2>3, <2>4, <2>5, <2>6, <2>7, Frames
<1>3. CASE o \notin Listed
  <2>1. ListCleanupObjects
    BY <1>type, <1>3, ListedLater
  <2>2. o \in todo'[Cleanup] /\ UNCHANGED mediaVars
    BY <1>type, <2>1, CleanupItems DEF Listed
  <2>3. PICK u \in Upload : Swept(u) /\ \E k \in RowKeys(u) : o = <<"upload", u, k>>
    BY <1>type, <2>1, <2>2, CleanupItems
  <2>4. RowKeys(u) = {Original(u)}
    BY <1>type, <2>3 DEF Swept, RowKeys, ObjectKey
  <2> QED
    BY <2>2, <2>3, <2>4 DEF Swept, mediaVars
<1> QED
  BY <1>2, <1>3

\* An archive stays until its attempt completes the export.
LEMMA ArchivesStep ==
  ASSUME AccountInv, ServedInv, [Next]_vars, NEW e \in Export, pc'[e] = "complete"
  PROVE  Archive(e) \in objects'
<1>type. TypeInv /\ pc \in [Job -> Calls] /\ outdated \subseteq {x \in Export : export[x] = "ready"}
  BY DEF AccountInv, TypeInv, AccountsTypeOK, Calls
<1>1. CASE PutArchive(e)
  BY <1>1 DEF PutArchive
<1>2. ASSUME StartAccountExport(e) \/ BuildAccountExport(e) PROVE FALSE
  BY <1>2, <1>type, Jobs DEF StartAccountExport, BuildAccountExport, Goto, OnError
<1>3. CASE pc'[e] = pc[e]
  <2> SUFFICES ASSUME Archive(e) \notin objects' PROVE FALSE
    OBVIOUS
  <2>1. export[e] = "processing" /\ Archive(e) \in objects
    BY <1>3 DEF AccountInv, ExportsAreBuilt, ServedInv
  <2>2. user # "deleted"
    BY <2>1 DEF AccountInv, DeletedAccountsLeaveNothing
  <2>3. ~(request = "open" /\ due)
    BY <1>3, <1>type, AtWork DEF AccountInv, RequestsRestrict
  <2>4. PICK o \in Listed : Archive(e) = o[3]
    BY <2>1, <2>3, Departures
  <2>5. o[3] = Archive(o[2]) /\ (o[2] \in outdated \/ export[o[2]] = "expired")
    BY <2>2, <2>4, SweptItems, KeyForms
  <2>6. o[2] = e
    BY <2>4, <2>5, KeyForms
  <2> QED
    BY <1>type, <2>1, <2>5, <2>6
<1> QED
  BY <1>type, <1>1, <1>2, <1>3, AttemptFrames

\* What is served and is not an original: archives until they expire, and the
\* clips that were made of uploads.
Lasting ==
  {Archive(e) : e \in {x \in Export : export[x] = "ready"} \ outdated}
  \cup {Processed(u) : u \in {v \in recorded : upload[v] = "consumed"}}

\* An object that lasts did so before, or is in the store by now.
LEMMA NewlyLasting ==
  ASSUME AccountInv, ServedInv, [Next]_vars, NEW k \in Lasting'
  PROVE  k \in Lasting \/ k \in objects'
<1> DEFINE Goal == k \in Lasting \/ k \in objects'
<1>type. /\ TypeInv /\ RequestsRestrict
         /\ upload \in [Upload -> {"absent", "pending", "uploaded", "consumed", "rejected", "expired"}]
         /\ export \in [Export -> {"absent", "pending", "processing", "ready", "failed", "expired"}]
         /\ outdated \subseteq {x \in Export : export[x] = "ready"}
         /\ \A u \in recorded : upload[u] = "consumed"
         /\ swapped \subseteq recorded /\ recorded \subseteq Upload
  BY DEF AccountInv, TypeInv, AccountsTypeOK, Rows, UploadsAdvance
<1>1. ASSUME NEW e \in Export, k = Archive(e), export'[e] = "ready", e \notin outdated' PROVE Goal
  <2>1. CASE export[e] = "ready" /\ e \notin outdated
    BY <1>1, <2>1 DEF Lasting
  <2>2. CASE ~(export[e] = "ready" /\ e \notin outdated)
    <3>1. CompleteAccountExport(e)
      <4>1. CASE UNCHANGED exportVars
        BY <1>1, <2>2, <4>1 DEF exportVars
      <4>2. ASSUME NEW x \in Export,
                   \/ CreateAccountExport(x) \/ OutdateExport(x) \/ StartAccountExport(x)
                   \/ CompleteAccountExport(x) \/ FailAccountExport(x)
            PROVE  CompleteAccountExport(e)
        BY <1>1, <1>type, <2>2, <4>2 DEF CreateAccountExport, OutdateExport, StartAccountExport,
           CompleteAccountExport, FailAccountExport
      <4>3. ASSUME CompleteCleanupObject PROVE FALSE
        BY <1>1, <1>type, <2>2, <4>3, MarkCases DEF exportVars
      <4>4. ASSUME CompleteAccountDeletion PROVE FALSE
        BY <1>1, <1>type, <2>2, <4>4, DeletionCases DEF exportVars
      <4> QED
        BY <1>type, <4>1, <4>2, <4>3, <4>4, Frames
    <3> QED
      BY <1>1, <3>1 DEF CompleteAccountExport, ServedInv
  <2> QED
    BY <2>1, <2>2
<1>2. ASSUME NEW u \in recorded', k = Processed(u), upload'[u] = "consumed" PROVE Goal
  <2>1. CASE u \in recorded
    BY <1>2, <1>type, <2>1 DEF Lasting
  <2>2. CASE u \notin recorded
    <3>1. Processed(u) \in objects'
      <4>1. CASE UNCHANGED mediaVars
        BY <1>2, <2>2, <4>1 DEF mediaVars
      <4>2. ASSUME NEW v \in Upload,
                   \/ CreateUpload(v) \/ BeginComplete(v) \/ FinishComplete(v)
                   \/ CreateSubmission(v) \/ Lapse(v)
            PROVE  FALSE
        BY <1>2, <2>2, <4>2 DEF CreateUpload, BeginComplete, FinishComplete, CreateSubmission,
           Lapse
      <4>3. ASSUME NEW v \in Upload, NEW outcome \in Outcomes, Inspect(v, outcome)
            PROVE  Processed(u) \in objects'
        BY <1>2, <2>2, <4>3 DEF Inspect
      <4>4. ASSUME CompleteCleanupObject PROVE FALSE
        BY <1>2, <1>type, <2>2, <4>4, MarkCases
      <4>5. ASSUME CompleteAccountDeletion PROVE FALSE
        BY <1>2, <1>type, <2>2, <4>5, DeletionCases DEF mediaVars
      <4> QED
        BY <1>type, <4>1, <4>2, <4>3, <4>4, <4>5, Frames
    <3> QED
      BY <1>2, <3>1
  <2> QED
    BY <2>1, <2>2
<1> QED
  BY <1>1, <1>2 DEF Lasting

\* An object that is served was served before, or is in the store by now.
LEMMA NewlyServed ==
  ASSUME AccountInv, ServedInv, [Next]_vars, customer, NEW k \in Served'
  PROVE  k \in Served \/ k \in objects'
<1> DEFINE Goal == k \in Served \/ k \in objects'
<1>type. /\ TypeInv /\ RequestsRestrict
         /\ upload \in [Upload -> {"absent", "pending", "uploaded", "consumed", "rejected", "expired"}]
         /\ export \in [Export -> {"absent", "pending", "processing", "ready", "failed", "expired"}]
         /\ outdated \subseteq {x \in Export : export[x] = "ready"}
         /\ \A u \in recorded : upload[u] = "consumed"
         /\ swapped \subseteq recorded /\ recorded \subseteq Upload
  BY DEF AccountInv, TypeInv, AccountsTypeOK, Rows, UploadsAdvance
<1>2. ASSUME NEW u \in Upload \ late', k = Original(u), upload'[u] = "uploaded" PROVE Goal
  <2>0. u \notin late
    <3>1. CASE UNCHANGED mediaVars
      BY <1>2, <3>1 DEF mediaVars
    <3>2. ASSUME NEW v \in Upload,
                 \/ CreateUpload(v) \/ BeginComplete(v) \/ FinishComplete(v)
                 \/ CreateSubmission(v) \/ Lapse(v)
                 \/ \E outcome \in Outcomes : Inspect(v, outcome)
          PROVE  u \notin late
      BY <1>2, <3>2 DEF CreateUpload, BeginComplete, FinishComplete, CreateSubmission, Lapse,
         Inspect
    <3>3. CASE CompleteCleanupObject
      BY <1>2, <1>type, <3>3, MarkCases
    <3>4. CASE CompleteAccountDeletion
      BY <1>2, <1>type, <3>4, DeletionCases DEF mediaVars
    <3> QED
      BY <1>type, <3>1, <3>2, <3>3, <3>4, Frames
  <2>1. CASE upload[u] = "uploaded"
    BY <1>2, <2>0, <2>1 DEF Served
  <2>2. CASE upload[u] # "uploaded"
    <3>1. u \in completing \ lapsed /\ upload[u] = "pending" /\ UNCHANGED objects
      <4>1. CASE UNCHANGED mediaVars
        BY <1>2, <2>2, <4>1 DEF mediaVars
      <4>2. ASSUME NEW v \in Upload,
                   \/ CreateUpload(v) \/ BeginComplete(v) \/ FinishComplete(v)
                   \/ CreateSubmission(v) \/ Lapse(v)
                   \/ \E outcome \in Outcomes : Inspect(v, outcome)
            PROVE  u \in completing \ lapsed /\ upload[u] = "pending" /\ UNCHANGED objects
        BY <1>2, <1>type, <2>2, <4>2 DEF CreateUpload, BeginComplete, FinishComplete,
           CreateSubmission, Lapse, Inspect, storeVars
      <4>3. ASSUME CompleteCleanupObject PROVE FALSE
        BY <1>2, <1>type, <2>2, <4>3, MarkCases
      <4>4. ASSUME CompleteAccountDeletion PROVE FALSE
        BY <1>2, <1>type, <2>2, <4>4, DeletionCases DEF mediaVars
      <4> QED
        BY <1>type, <4>1, <4>2, <4>3, <4>4, Frames
    <3> QED
      BY <1>2, <3>1 DEF ServedInv
  <2> QED
    BY <2>1, <2>2
<1>3. ASSUME NEW u \in Upload, k = Original(u), upload'[u] = "consumed",
             u \notin swapped' \cup lapsed' \cup late'
      PROVE  Goal
  <2>1. /\ u \notin late
        /\ \/ upload[u] = "uploaded"
           \/ upload[u] = "consumed" /\ u \notin swapped \cup lapsed
    <3>1. CASE UNCHANGED mediaVars
      BY <1>3, <3>1 DEF mediaVars
    <3>2. ASSUME NEW v \in Upload,
                 \/ CreateUpload(v) \/ BeginComplete(v) \/ FinishComplete(v)
                 \/ CreateSubmission(v) \/ Lapse(v)
                 \/ \E outcome \in Outcomes : Inspect(v, outcome)
          PROVE  /\ u \notin late
                 /\ \/ upload[u] = "uploaded"
                    \/ upload[u] = "consumed" /\ u \notin swapped \cup lapsed
      BY <1>3, <1>type, <3>2 DEF CreateUpload, BeginComplete, FinishComplete,
         CreateSubmission, Lapse, Inspect
    <3>3. CASE CompleteCleanupObject
      BY <1>3, <1>type, <3>3, MarkCases
    <3>4. CASE CompleteAccountDeletion
      BY <1>3, <1>type, <3>4, DeletionCases DEF mediaVars
    <3> QED
      BY <1>type, <3>1, <3>2, <3>3, <3>4, Frames
  <2> QED
    BY <1>3, <2>1 DEF Served
<1>4. ASSUME k \in Lasting' PROVE Goal
  <2>1. k \in Lasting \/ k \in objects'
    BY <1>4, NewlyLasting
  <2> QED
    BY <2>1 DEF Lasting, Served
<1> QED
  BY <1>2, <1>3, <1>4 DEF Served, Lasting

\* While the account has its customer record, nothing that is served leaves the
\* store, and nothing is served that is not there.
LEMMA ServedStep ==
  ASSUME AccountInv, ServedInv, [Next]_vars
  PROVE  ServedInv'
<1>type. /\ TypeInv /\ \A u \in recorded : upload[u] = "consumed"
         /\ outdated \subseteq {x \in Export : export[x] = "ready"}
         /\ recorded \subseteq Upload
  BY DEF AccountInv, TypeInv, AccountsTypeOK, Rows, UploadsAdvance
<1>1. ASSUME NEW k \in Served', customer' PROVE k \in objects'
  <2>1. customer
    BY <1>type, <1>1, UserStays
  <2> SUFFICES ASSUME k \in Served, k \notin objects' PROVE FALSE
    BY <2>1, NewlyServed
  <2>2. k \in objects
    BY <2>1 DEF ServedInv, ServedObjectsExist
  <2>3. user # "deleted"
    BY <2>1 DEF AccountInv, DeletedAccountsLeaveNothing
  <2>4. PICK o \in Listed : k = o[3]
    BY <2>1, <2>2, Departures
  <2>5. CASE /\ o[2] \in Upload /\ o[3] = Original(o[2])
             /\ \/ upload[o[2]] \in {"expired", "rejected", "pending"}
                \/ upload[o[2]] = "consumed" /\ o[2] \in lapsed
                \/ o[2] \in late
    <3>1. \E u \in Upload : /\ Original(o[2]) = Original(u)
                            /\ u \notin late
                            /\ \/ upload[u] = "uploaded"
                               \/ upload[u] = "consumed" /\ u \notin lapsed
      BY <2>4, <2>5, KeyForms DEF Served
    <3> QED
      BY <2>5, <3>1, KeyForms
  <2>6. CASE /\ o[2] \in Export /\ o[3] = Archive(o[2])
             /\ o[2] \in outdated \/ export[o[2]] = "expired"
    <3>0. \A u \in Upload : k # Original(u) /\ k # Processed(u)
      BY <2>4, <2>6, KeyForms
    <3>1. \E e \in Export : Archive(o[2]) = Archive(e) /\ export[e] = "ready" /\ e \notin outdated
      BY <1>type, <2>4, <2>6, <3>0 DEF Served
    <3> QED
      BY <2>6, <3>1, KeyForms
  <2> QED
    BY <2>3, <2>5, <2>6, SweptItems
<1>2. \A u \in completing' :
        upload'[u] = "pending" /\ u \notin lapsed' => Original(u) \in objects'
  BY CompletionsStep
<1>3. user' # "deleted" =>
        \A o \in Listed' : o[1] = "upload" =>
          /\ o[3] = Original(o[2])
          /\ \/ upload'[o[2]] \in {"expired", "rejected"}
             \/ upload'[o[2]] = "pending" /\ o[2] \in lapsed'
             \/ o[2] \in late'
  BY UploadItemsStep
<1>4. \A e \in Export : pc'[e] = "complete" => Archive(e) \in objects'
  BY ArchivesStep
<1>5. ServedObjectsExist'
  BY <1>1 DEF ServedObjectsExist
<1> QED
  BY <1>2, <1>3, <1>4, <1>5 DEF ServedInv, Original, Archive

\* Until a deletion has begun to remove, every object that somebody is still
\* entitled to is in the store: the sweep, which lists first and removes later,
\* takes none but the original of an upload whose completion committed late.
THEOREM ServedObjectsStay == Spec => []ServedObjectsExist
<1>1. Init => AccountInv /\ ServedInv
  <2> SUFFICES ASSUME Init PROVE AccountInv /\ ServedInv
    OBVIOUS
  <2>1. Served = {} /\ Listed = {}
    BY Jobs DEF Init, Served, Listed
  <2>2. ServedInv
    BY <2>1, Jobs DEF Init, ServedInv, ServedObjectsExist
  <2> QED
    BY <2>2, AccountInit
<1>2. (AccountInv /\ ServedInv) /\ [Next]_vars => (AccountInv /\ ServedInv)'
  BY AccountStepInv, ServedStep
<1>3. ServedInv => ServedObjectsExist
  BY DEF ServedInv
<1> QED
  BY <1>1, <1>2, <1>3, PTL DEF Spec
=============================================================================
