------------------------------ MODULE Analysis ------------------------------
(***************************************************************************)
(* The automated analysis of a clip: the submission.analyze handler        *)
(* (analyzeSubmission in internal/worker/worker.go), run by the workers of *)
(* JobQueue, which this module extends.  A handler is a sequence of calls  *)
(* to object storage, to the OpenAI API and to the database; a crash, a    *)
(* timeout or a second worker may come between any two of them, and a      *)
(* retry starts again from the first.                                      *)
(*                                                                         *)
(* Moderators act on the same submission rows at any time.  The rules of   *)
(* their own actions are the subject of Enforcement; here they are writers *)
(* of moderation_status and verification_status.                           *)
(***************************************************************************)
EXTENDS JobQueue

CONSTANTS
  Submission,      \* submission.analyze jobs, each named as its submission
  Overlap,         \* whether a handler step may still succeed after its lock
                   \* expired: its context starts after locked_at, so for the
                   \* length of a round trip it may
  RoutingMayFail,  \* whether the write of MarkAnalysisForManualReview may fail
  Decisions,       \* moderation statuses moderators set in the instance
  AuditTyped       \* whether the database accepts the audit INSERT of
                   \* UpdateVerification, whose $3 has no type; PostgreSQL
                   \* refuses it ("could not determine data type")

ASSUME AnalysisAssumption ==
  /\ Submission \subseteq Job
  /\ Submission \cap (Recurring \cup Deferrable) = {}
  /\ Decisions \subseteq {"approved", "rejected", "removed"}
  /\ {Overlap, RoutingMayFail, AuditTyped} \subseteq BOOLEAN

VARIABLES
  verification,  \* submissions.verification_status, "none" before the INSERT
  moderation,    \* submissions.moderation_status
  published,     \* submissions with published_at set
  upload,        \* media_uploads.status of the submission's upload
  objects,       \* the upload's objects in storage
  recorded,      \* uploads with scanned_at and the processed keys set
  alerted,       \* submissions with an urgent safety alert enqueued
  step,          \* Worker -> the handler's next call
  verdict        \* Worker -> what the handler has decided

rowVars == <<verification, moderation, published, upload, recorded>>
clipVars == <<rowVars, objects, alerted>>
handlerVars == <<step, verdict>>
analysisVars == <<clipVars, handlerVars>>
allVars == <<vars, analysisVars>>

Verification == {"none", "pending", "manual_review", "passed", "failed"}
Undecided == {"pending", "manual_review"}
Moderation == {"pending", "approved", "rejected", "removed"}
Step == {"idle", "inspect", "reject", "rejectVerdict", "putVideo", "putThumb",
         "dropVideo", "dropBoth", "record", "ask", "alert", "decide", "route"}

\* What CompleteAutomatedAnalysis is asked to write.
NoVerdict  == [verification |-> "pending",       moderation |-> "pending"]
Rejected   == [verification |-> "failed",        moderation |-> "rejected"]
ToReview   == [verification |-> "manual_review", moderation |-> "pending"]
Passed     == [verification |-> "passed",        moderation |-> "approved"]
NotPassed  == [verification |-> "failed",        moderation |-> "approved"]
Verdict == {NoVerdict, Rejected, ToReview, Passed, NotPassed}

AnalysisTypeOK ==
  /\ TypeOK
  /\ verification \in [Submission -> Verification]
  /\ moderation \in [Submission -> Moderation]
  /\ published \subseteq Submission
  /\ upload \in [Submission -> {"consumed", "rejected", "expired"}]
  /\ objects \in [Submission -> SUBSET {"original", "processed", "thumbnail"}]
  /\ recorded \subseteq Submission
  /\ alerted \subseteq Submission
  /\ step \in [Worker -> Step]
  /\ verdict \in [Worker -> Verdict]

AnalysisInit ==
  /\ Init
  /\ verification = [s \in Submission |-> "none"]
  /\ moderation = [s \in Submission |-> "pending"]
  /\ published = {}
  /\ upload = [s \in Submission |-> "consumed"]
  /\ objects = [s \in Submission |-> {"original"}]
  /\ recorded = {}
  /\ alerted = {}
  /\ step = [w \in Worker |-> "idle"]
  /\ verdict = [w \in Worker |-> NoVerdict]

-----------------------------------------------------------------------------
(* The queue's own steps, for submissions and for every other job.         *)

\* CreateSubmission inserts the submission and its job in one transaction;
\* nothing ever enqueues an analysis of the submission again.
Create(j) ==
  /\ Enqueue(j)
  /\ IF j \in Submission
       THEN /\ verification[j] = "none"
            /\ verification' = [verification EXCEPT ![j] = "pending"]
       ELSE UNCHANGED verification
  /\ UNCHANGED <<moderation, published, upload, recorded, objects, alerted, handlerVars>>

Elapse(j) ==
  /\ Postpone(j) \/ Cancel(j) \/ Purge(j) \/ BecomeAvailable(j) \/ LockExpires(j)
  /\ UNCHANGED analysisVars

\* Mutant: the recovery buries the job and routes nothing.
NothingRouted == {}

\* Mutant: the recovery routes whatever the submission's verdict is.
AllBuried == Submission \cap Buried

\* ClaimJob buries an analysis whose last lock expired and in the same
\* transaction hands its submission to the moderators, if still pending.
RoutedByRecovery == {s \in Submission \cap Buried : verification[s] = "pending"}

ClaimAndRoute(w, j) ==
  /\ Claim(w, j)
  /\ verification' = [s \in Submission |->
       IF s \in RoutedByRecovery THEN "manual_review" ELSE verification[s]]
  /\ moderation' = [s \in Submission |->
       IF s \in RoutedByRecovery THEN "pending" ELSE moderation[s]]
  /\ step' = [step EXCEPT ![w] = IF j \in Submission THEN "inspect" ELSE "idle"]
  /\ verdict' = [verdict EXCEPT ![w] = NoVerdict]
  /\ UNCHANGED <<published, upload, recorded, objects, alerted>>

\* The handlers of other jobs do nothing a submission can see.
OtherHandlerReturns(w) ==
  /\ step[w] = "idle"
  /\ Return(w)
  /\ UNCHANGED analysisVars

\* Run reports only after it routed the submission of a last attempt.
ReportOutcome(w) ==
  /\ step[w] # "route"
  /\ Report(w) \/ LoseReport(w)
  /\ UNCHANGED analysisVars

StopOrStart(w) ==
  /\ Crash(w) \/ Restart(w)
  /\ step' = [step EXCEPT ![w] = "idle"]
  /\ verdict' = [verdict EXCEPT ![w] = NoVerdict]
  /\ UNCHANGED clipVars

-----------------------------------------------------------------------------
(* The handler, one action per call it makes.                              *)

Clip(w) == hand[w]
At(w, here) == pc[w] = "handling" /\ step[w] = here

\* A call of the handler can succeed while its context is alive.
InTime(w) == Overlap \/ (HoldsLock(w) /\ Clip(w) \notin stale)

Proceed(w, there) ==
  /\ step' = [step EXCEPT ![w] = there]
  /\ UNCHANGED vars

\* Mutant: the loop goes on after a handler without reporting its result.
SucceedUnreported(w) ==
  /\ pc[w] = "handling" /\ NextPoll(w)
  /\ step' = [step EXCEPT ![w] = "idle"]
  /\ UNCHANGED <<tableVars, faults>>

Succeed(w) ==
  /\ HandlerReturns(w, "succeeded")
  /\ step' = [step EXCEPT ![w] = "idle"]

\* Run routes the submission to manual review after the last attempt failed.
Fail(w) ==
  /\ HandlerReturns(w, "failed")
  /\ step' = [step EXCEPT ![w] =
       IF claimed[w] >= MaxAttempts[Clip(w)] THEN "route" ELSE "idle"]

\* GetSubmissionAnalysisInput, Open and Process.  The scan and ffprobe may
\* reject the clip; ffprobe does also when it is killed by a timeout.
Inspect(w) ==
  /\ At(w, "inspect") /\ InTime(w)
  /\ "original" \in objects[Clip(w)]
  /\ \E there \in {"putVideo", "reject"} : Proceed(w, there)
  /\ UNCHANGED <<clipVars, verdict>>

\* RejectMediaUpload looks at nothing but the upload's id.
Reject(w) ==
  /\ At(w, "reject") /\ InTime(w)
  /\ upload' = [upload EXCEPT ![Clip(w)] = "rejected"]
  /\ verdict' = [verdict EXCEPT ![w] = Rejected]
  /\ Proceed(w, "rejectVerdict")
  /\ UNCHANGED <<verification, moderation, published, recorded, objects, alerted>>

PutVideo(w) ==
  /\ At(w, "putVideo") /\ InTime(w)
  /\ objects' = [objects EXCEPT ![Clip(w)] = @ \cup {"processed"}]
  /\ Proceed(w, "putThumb")
  /\ UNCHANGED <<rowVars, alerted, verdict>>

PutThumb(w) ==
  /\ At(w, "putThumb") /\ InTime(w)
  /\ objects' = [objects EXCEPT ![Clip(w)] = @ \cup {"thumbnail"}]
  /\ Proceed(w, "record")
  /\ UNCHANGED <<rowVars, alerted, verdict>>

\* Mutant: the analysis is asked for without recording the inspection.
SkipRecord(w) ==
  /\ At(w, "record") /\ InTime(w)
  /\ Proceed(w, "ask")
  /\ UNCHANGED <<clipVars, verdict>>

\* UpdateMediaInspection sets scanned_at and the two object keys.
Record(w) ==
  /\ At(w, "record") /\ InTime(w)
  /\ recorded' = recorded \cup {Clip(w)}
  /\ Proceed(w, "ask")
  /\ UNCHANGED <<verification, moderation, published, upload, objects, alerted, verdict>>

\* The model's answer: nothing it says is promised to be the same next time.
Ask(w) ==
  /\ At(w, "ask") /\ InTime(w)
  /\ \E v \in {Passed, NotPassed, ToReview} : verdict' = [verdict EXCEPT ![w] = v]
  /\ \/ Proceed(w, "decide")
     \/ verdict'[w] = ToReview /\ Proceed(w, "alert")   \* an urgent category
  /\ UNCHANGED clipVars

Alert(w) ==
  /\ At(w, "alert") /\ InTime(w)
  /\ alerted' = alerted \cup {Clip(w)}
  /\ Proceed(w, "decide")
  /\ UNCHANGED <<rowVars, objects, verdict>>

\* The UPDATE of CompleteAutomatedAnalysis.
Write(s, v) ==
  /\ verification' = [verification EXCEPT ![s] = v.verification]
  /\ moderation' = [moderation EXCEPT ![s] = v.moderation]
  /\ published' = IF v = Passed THEN published \cup {s} ELSE published \ {s}
  /\ UNCHANGED <<upload, recorded>>

Decide(w) ==
  /\ At(w, "decide") \/ At(w, "rejectVerdict")
  /\ InTime(w)
  /\ verification[Clip(w)] \in Undecided
  /\ Write(Clip(w), verdict[w])
  /\ Succeed(w)
  /\ UNCHANGED <<objects, alerted, verdict>>

\* Any call may fail, or return when the context has expired; Decide fails
\* with ErrConflict when the submission already has its verdict.
CallFails(w) ==
  /\ \E here \in {"inspect", "reject", "rejectVerdict", "putVideo", "ask", "alert", "decide"} :
       At(w, here)
  /\ Fail(w)
  /\ UNCHANGED <<clipVars, verdict>>

PutThumbFails(w) ==
  /\ At(w, "putThumb")
  /\ Proceed(w, "dropVideo")
  /\ UNCHANGED <<clipVars, verdict>>

RecordFails(w) ==
  /\ At(w, "record")
  /\ Proceed(w, "dropBoth")
  /\ UNCHANGED <<clipVars, verdict>>

\* removeOrphan has a context of its own, so it runs after a timeout as well;
\* a failing Remove is only logged.
Drop(w) ==
  LET orphans == IF step[w] = "dropVideo" THEN {"processed"} ELSE {"processed", "thumbnail"}
  IN /\ At(w, "dropVideo") \/ At(w, "dropBoth")
     /\ \E removed \in SUBSET orphans :
          objects' = [objects EXCEPT ![Clip(w)] = @ \ removed]
     /\ Fail(w)
     /\ UNCHANGED <<rowVars, alerted, verdict>>

\* Mutant: Run reports the last failure without routing the submission.
RouteNot(w) ==
  /\ step[w] = "route"
  /\ Proceed(w, "idle")
  /\ UNCHANGED <<clipVars, verdict>>

\* Mutant: a verdict the schema's CHECK does not know.
RouteAsUnavailable(w) ==
  /\ step[w] = "route"
  /\ verification' = [verification EXCEPT ![Clip(w)] = "unavailable"]
  /\ Proceed(w, "idle")
  /\ UNCHANGED <<moderation, published, upload, recorded, objects, alerted, verdict>>

\* MarkAnalysisForManualReview: CompleteAutomatedAnalysis without an answer.
Route(w) ==
  /\ step[w] = "route"
  /\ IF verification[Clip(w)] \in Undecided
       THEN Write(Clip(w), ToReview)
       ELSE UNCHANGED rowVars
  /\ Proceed(w, "idle")
  /\ UNCHANGED <<objects, alerted, verdict>>

\* An error of the routing write is logged, and the job is failed regardless.
RouteFails(w) ==
  /\ step[w] = "route" /\ RoutingMayFail
  /\ Proceed(w, "idle")
  /\ UNCHANGED <<clipVars, verdict>>

Call(w) ==
  \/ Inspect(w) \/ Reject(w) \/ PutVideo(w) \/ PutThumb(w) \/ Record(w) \/ Ask(w)
  \/ Alert(w) \/ Decide(w) \/ CallFails(w) \/ PutThumbFails(w) \/ RecordFails(w)
  \/ Drop(w) \/ Route(w) \/ RouteFails(w)

-----------------------------------------------------------------------------
(* Moderators and the retention sweep.                                     *)

\* The submission part of CreateModerationAction, ReviewAppeal and
\* ReviewCopyrightNotice; only approval touches published_at.
Moderate(s, m) ==
  /\ verification[s] # "none"
  /\ moderation' = [moderation EXCEPT ![s] = m]
  /\ published' = IF m # "approved" THEN published
                  ELSE IF verification[s] = "passed" THEN published \cup {s}
                  ELSE published \ {s}
  /\ UNCHANGED <<verification, upload, recorded, objects, alerted, handlerVars, vars>>

\* The gate: a clip nobody scanned cannot be passed by hand.
UpdateVerification(s, v) ==
  /\ AuditTyped
  /\ verification[s] # "none" /\ (v # "passed" \/ s \in recorded)
  /\ verification' = [verification EXCEPT ![s] = v]
  /\ published' = IF v = "passed" /\ moderation[s] = "approved"
                     THEN published \cup {s} ELSE published \ {s}
  /\ UNCHANGED <<moderation, upload, recorded, objects, alerted, handlerVars, vars>>

\* ListCleanupObjects and CompleteCleanupObject, seven days after a rejection:
\* no attempt of the analysis is left by then.
SweepRejected(s) ==
  /\ upload[s] = "rejected"
  /\ status[s] \notin Active /\ \A w \in Worker : hand[w] # s
  /\ objects' = [objects EXCEPT ![s] = {}]
  /\ upload' = [upload EXCEPT ![s] = "expired"]
  /\ UNCHANGED <<verification, moderation, published, recorded, alerted, handlerVars, vars>>

-----------------------------------------------------------------------------
AnalysisNext ==
  \/ \E j \in Job : Create(j) \/ Elapse(j)
  \/ \E w \in Worker :
       \/ \E j \in Job : ClaimAndRoute(w, j)
       \/ OtherHandlerReturns(w) \/ ReportOutcome(w) \/ StopOrStart(w) \/ Call(w)
  \/ \E s \in Submission :
       \/ \E m \in Decisions : Moderate(s, m)
       \/ \E v \in Verification \ {"none"} : UpdateVerification(s, v)
       \/ SweepRejected(s)

\* The fairness of JobQueue, for the steps of the handlers too.
AnalysisFairness ==
  /\ \A j \in Job :
       /\ WF_allVars(BecomeAvailable(j) /\ UNCHANGED analysisVars)
       /\ WF_allVars(LockExpires(j) /\ UNCHANGED analysisVars)
  /\ \A j \in Recurring :
       /\ WF_allVars(Create(j))
       /\ WF_allVars(Purge(j) /\ UNCHANGED analysisVars)
  /\ \A w \in Worker :
       /\ WF_allVars(\E j \in Job : ClaimAndRoute(w, j))
       /\ WF_allVars(OtherHandlerReturns(w) \/ Call(w))
       /\ WF_allVars(step[w] # "route" /\ Report(w) /\ UNCHANGED analysisVars)
       /\ WF_allVars(StopOrStart(w) /\ pc[w] = "down")

AnalysisSpec == AnalysisInit /\ [][AnalysisNext]_allVars
FairAnalysisSpec == AnalysisSpec /\ AnalysisFairness

-----------------------------------------------------------------------------
(* Properties.                                                             *)

\* submissions.go:211: what the feed, share links and votes take as public.
Visible(s) == verification[s] = "passed" /\ moderation[s] = "approved"

\* No interleaving of attempts, moderators and recoveries shows the public a
\* clip whose upload was not scanned and inspected (submissions.go:385).
OnlyScannedClipsPass ==
  \A s \in Submission : verification[s] = "passed" => s \in recorded

\* An analysis whose job is buried has been decided or handed to the
\* moderators, as long as the database takes the routing write: the two places
\* that bury jobs both route first (jobs.go:78, worker.go:137).
DeadAnalysisIsReviewed ==
  \A s \in Submission : status[s] = "dead" => verification[s] # "pending"

\* Retries, recoveries and late handlers never change a verdict that has been
\* reached; only a moderator does.
VerdictSurvivesRetries ==
  [][\A s \in Submission :
       verification[s] \in {"passed", "failed"} /\ verification'[s] # verification[s]
         => \E v \in Verification : UpdateVerification(s, v)]_allVars

\* Each submission gets an answer or a place in the moderators' queue.
SubmissionsAreAnswered ==
  \A s \in Submission : verification[s] = "pending" ~> verification[s] # "pending"

\* The workers' treatment of jobs is one JobQueue allows, so its theorems hold
\* for the analysis as well.
UsesTheQueue == Spec
=============================================================================
