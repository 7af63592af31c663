--------------------------- MODULE AnalysisProofs ---------------------------
(***************************************************************************)
(* Proofs about Analysis, for every set of jobs, submissions and workers,  *)
(* every retry limit and any number of faults: the handlers use the queue  *)
(* as JobQueue allows, only scanned clips pass, a verdict outlives         *)
(* retries, and a buried analysis is in the moderators' hands.             *)
(***************************************************************************)
EXTENDS Analysis, JobQueueProofs

\* A step of the analysis is a step of the queue, or does not touch it.
LEMMA QueueStep == [AnalysisNext]_allVars => [Next]_vars
<1> SUFFICES ASSUME AnalysisNext PROVE [Next]_vars
  BY DEF allVars
<1>1. ASSUME NEW j \in Job, Create(j) \/ Elapse(j) PROVE Next
  BY <1>1 DEF Create, Elapse, Next
<1>2. ASSUME NEW w \in Worker, NEW j \in Job, ClaimAndRoute(w, j) PROVE Next
  BY <1>2 DEF ClaimAndRoute, Next, Poll
<1>3. ASSUME NEW w \in Worker, OtherHandlerReturns(w) \/ ReportOutcome(w) \/ StopOrStart(w)
      PROVE  Next
  BY <1>3 DEF OtherHandlerReturns, ReportOutcome, StopOrStart, Next
<1>4. ASSUME NEW w \in Worker, Call(w) PROVE [Next]_vars
  <2>1. Return(w) => Next
    BY DEF Next
  <2>2. CASE CallFails(w) \/ Drop(w) \/ Decide(w)
    BY <2>1, <2>2 DEF CallFails, Drop, Decide, Fail, Succeed, Return
  <2>3. CASE ~(CallFails(w) \/ Drop(w) \/ Decide(w))
    BY <1>4, <2>3 DEF Call, Inspect, Reject, PutVideo, PutThumb, Record, Ask, Alert,
       PutThumbFails, RecordFails, Route, RouteFails, Proceed
  <2> QED
    BY <2>2, <2>3
<1>5. ASSUME NEW s \in Submission,
             \/ \E m \in Decisions : Moderate(s, m)
             \/ \E v \in Verification \ {"none"} : UpdateVerification(s, v)
             \/ SweepRejected(s)
      PROVE  UNCHANGED vars
  BY <1>5 DEF Moderate, UpdateVerification, SweepRejected
<1> QED
  BY <1>1, <1>2, <1>3, <1>4, <1>5 DEF AnalysisNext

\* Analysis implements JobQueue: whatever handlers, moderators and sweeps do,
\* the job table and the workers see only steps of the queue.
THEOREM AnalysisUsesTheQueue == AnalysisSpec => UsesTheQueue
<1>1. AnalysisInit => Init
  BY DEF AnalysisInit
<1> QED
  BY <1>1, QueueStep, PTL DEF AnalysisSpec, UsesTheQueue, Spec

\* The invariant of the queue, and with it all its theorems, hold for it too.
THEOREM AnalysisKeepsQueueInv == AnalysisSpec => []QueueInv
BY AnalysisUsesTheQueue, QueueIsConsistent, PTL DEF UsesTheQueue

\* An analysis that was enqueued is owed until it is done or was tried in full,
\* whatever its handler does between two calls.
THEOREM AnalysesAreDurable == AnalysisSpec => KeepsPromise
BY AnalysisUsesTheQueue, QueueKeepsPromise, PTL DEF UsesTheQueue

-----------------------------------------------------------------------------
(* Where a handler is.                                                     *)

\* A handler between two calls works on a submission, and only the write that
\* follows a failed last attempt comes after it returned.
HandlersWork ==
  \A w \in Worker :
    /\ step[w] # "idle" => hand[w] \in Submission
    /\ step[w] \notin {"idle", "route"} => pc[w] = "handling"
    /\ step[w] = "route" => pc[w] = "failed"
    /\ pc[w] = "handling" /\ hand[w] \in Submission => step[w] # "idle"

\* What a handler has done and decided by the time of its later calls.
HandlersAreConsistent ==
  \A w \in Worker :
    /\ step[w] \in {"ask", "alert", "decide"} => hand[w] \in recorded
    /\ step[w] = "rejectVerdict" => verdict[w] = Rejected
    /\ step[w] \in {"alert", "decide"} => verdict[w] \in {Passed, NotPassed, ToReview}

HandlerInv == AnalysisTypeOK /\ HandlersWork /\ HandlersAreConsistent

\* Every call of a handler leaves the queue alone or returns from the handler;
\* it moves its own step only.
LEMMA CallShape ==
  ASSUME NEW w \in Worker, Call(w)
  PROVE  \/ /\ UNCHANGED vars
            /\ \E there \in Step \ {"inspect"} : step' = [step EXCEPT ![w] = there]
         \/ Succeed(w)
         \/ Fail(w)
<1>1. CASE CallFails(w) \/ Drop(w) \/ Decide(w)
  BY <1>1 DEF CallFails, Drop, Decide
<1>2. CASE ~(CallFails(w) \/ Drop(w) \/ Decide(w))
  BY <1>2 DEF Call, Inspect, Reject, PutVideo, PutThumb, Record, Ask, Alert,
     PutThumbFails, RecordFails, Route, RouteFails, Proceed, Step
<1> QED
  BY <1>1, <1>2

\* Handlers, like the rows, keep to their declared values.
LEMMA AnalysisTypeStep ==
  ASSUME AnalysisTypeOK, HandlersWork, [AnalysisNext]_allVars
  PROVE  AnalysisTypeOK'
<1> USE DEF AnalysisTypeOK, rowVars, clipVars, handlerVars, analysisVars
<1>type. TypeOK'
  BY QueueStep, TypeStep
<1>verdicts. /\ \A v \in Verdict : v.verification \in Verification /\ v.moderation \in Moderation
             /\ {NoVerdict, Rejected, ToReview, Passed, NotPassed} \subseteq Verdict
  BY DEF Verdict, NoVerdict, Rejected, ToReview, Passed, NotPassed, Verification, Moderation
<1>1. CASE UNCHANGED allVars
  BY <1>type, <1>1 DEF allVars
<1>2. ASSUME NEW j \in Job, Create(j) \/ Elapse(j) PROVE AnalysisTypeOK'
  BY <1>type, <1>2 DEF Create, Elapse, Verification
<1>3. ASSUME NEW w \in Worker, NEW j \in Job, ClaimAndRoute(w, j) PROVE AnalysisTypeOK'
  <2>1. verification' \in [Submission -> Verification] /\ moderation' \in [Submission -> Moderation]
    BY <1>3 DEF ClaimAndRoute, Verification, Moderation
  <2>2. step' \in [Worker -> Step] /\ verdict' \in [Worker -> Verdict]
    BY <1>3, <1>verdicts DEF ClaimAndRoute, Step
  <2> QED
    BY <1>type, <1>3, <2>1, <2>2 DEF ClaimAndRoute
<1>4. ASSUME NEW w \in Worker, OtherHandlerReturns(w) \/ ReportOutcome(w) \/ StopOrStart(w)
      PROVE  AnalysisTypeOK'
  BY <1>type, <1>verdicts, <1>4 DEF OtherHandlerReturns, ReportOutcome, StopOrStart, Step
<1>5. ASSUME NEW w \in Worker, Call(w) PROVE AnalysisTypeOK'
  <2>1. step' \in [Worker -> Step]
    BY <1>5, CallShape DEF Succeed, Fail, Step
  <2>2. verdict' \in [Worker -> Verdict]
    BY <1>verdicts, <1>5 DEF Call, Inspect, Reject, PutVideo, PutThumb, Record, Ask, Alert, Decide,
       CallFails, PutThumbFails, RecordFails, Drop, Route, RouteFails
  <2>3. /\ verification' \in [Submission -> Verification]
        /\ moderation' \in [Submission -> Moderation]
    BY <1>verdicts, <1>5 DEF Call, Inspect, Reject, PutVideo, PutThumb, Record, Ask, Alert, Decide,
       CallFails, PutThumbFails, RecordFails, Drop, Route, RouteFails, Write
  <2>4. published' \subseteq Submission
    BY <1>5 DEF Call, Inspect, Reject, PutVideo, PutThumb, Record, Ask, Alert, Decide,
       CallFails, PutThumbFails, RecordFails, Drop, Route, RouteFails, Write, At, HandlersWork, Clip
  <2>5. recorded' \subseteq Submission /\ alerted' \subseteq Submission
    BY <1>5 DEF Call, Inspect, Reject, PutVideo, PutThumb, Record, Ask, Alert, Decide,
       CallFails, PutThumbFails, RecordFails, Drop, Route, RouteFails, Write, At, HandlersWork, Clip
  <2>6. upload' \in [Submission -> {"consumed", "rejected", "expired"}]
    BY <1>5 DEF Call, Inspect, Reject, PutVideo, PutThumb, Record, Ask, Alert, Decide,
       CallFails, PutThumbFails, RecordFails, Drop, Route, RouteFails, Write
  <2>7. objects' \in [Submission -> SUBSET {"original", "processed", "thumbnail"}]
    <3>1. CASE PutVideo(w) \/ PutThumb(w)
      BY <3>1 DEF PutVideo, PutThumb
    <3>2. CASE Drop(w)
      <4>1. PICK removed : objects' = [objects EXCEPT ![Clip(w)] = @ \ removed]
        BY <3>2 DEF Drop
      <4> QED
        BY <4>1
    <3>3. CASE UNCHANGED objects
      BY <3>3
    <3> QED
      BY <1>5, <3>1, <3>2, <3>3 DEF Call, Inspect, Reject, Record, Ask, Alert, Decide,
         CallFails, PutThumbFails, RecordFails, Route, RouteFails
  <2> QED
    BY <1>type, <2>1, <2>2, <2>3, <2>4, <2>5, <2>6, <2>7
<1>6. ASSUME NEW s \in Submission, NEW m \in Decisions, Moderate(s, m) PROVE AnalysisTypeOK'
  <2>1. m \in Moderation
    BY AnalysisAssumption DEF Moderation
  <2> QED
    BY <1>type, <1>6, <2>1 DEF Moderate
<1>7. ASSUME NEW s \in Submission, NEW v \in Verification, UpdateVerification(s, v)
      PROVE  AnalysisTypeOK'
  BY <1>type, <1>7 DEF UpdateVerification
<1>8. ASSUME NEW s \in Submission, SweepRejected(s) PROVE AnalysisTypeOK'
  BY <1>type, <1>8 DEF SweepRejected
<1> QED
  BY <1>1, <1>2, <1>3, <1>4, <1>5, <1>6, <1>7, <1>8 DEF AnalysisNext

\* A handler enters its first call at the claim, ends at its return, at the
\* routing write or with the process, and nobody else moves it.
LEMMA HandlersWorkStep ==
  ASSUME AnalysisTypeOK, HandlersWork, [AnalysisNext]_allVars
  PROVE  HandlersWork'
<1> USE DEF HandlersWork
<1>type. /\ pc \in [Worker -> WorkerPc] /\ hand \in [Worker -> Job \cup {NoJob}]
         /\ step \in [Worker -> Step]
         /\ NoJob \notin Submission
  BY JobQueueAssumption, AnalysisAssumption DEF AnalysisTypeOK, TypeOK
<1>1. CASE UNCHANGED <<pc, hand, step>>
  BY <1>1
<1>2. ASSUME NEW j \in Job, Create(j) \/ Elapse(j) PROVE UNCHANGED <<pc, hand, step>>
  BY <1>2 DEF Create, Elapse, Enqueue, Postpone, Cancel, Purge, BecomeAvailable, LockExpires,
     workerVars, handlerVars, analysisVars
<1>3. ASSUME NEW w \in Worker, NEW j \in Job, ClaimAndRoute(w, j) PROVE HandlersWork'
  <2>1. /\ pc' = [pc EXCEPT ![w] = "handling"] /\ hand' = [hand EXCEPT ![w] = j]
        /\ step' = [step EXCEPT ![w] = IF j \in Submission THEN "inspect" ELSE "idle"]
    BY <1>3 DEF ClaimAndRoute, Claim
  <2> QED
    BY <1>type, <2>1
<1>4. ASSUME NEW w \in Worker, OtherHandlerReturns(w) PROVE HandlersWork'
  BY <1>type, <1>4 DEF OtherHandlerReturns, Return, HandlerReturns, analysisVars, handlerVars
<1>5. ASSUME NEW w \in Worker, ReportOutcome(w) PROVE HandlersWork'
  <2>1. /\ pc[w] \in {"succeeded", "failed"} /\ step[w] # "route" /\ UNCHANGED step
        /\ NextPoll(w)
    BY <1>5 DEF ReportOutcome, Report, CompleteJob, FailJob, LateReport, LoseReport,
       analysisVars, handlerVars
  <2> QED
    BY <1>type, <2>1 DEF NextPoll
<1>6. ASSUME NEW w \in Worker, StopOrStart(w) PROVE HandlersWork'
  BY <1>type, <1>6 DEF StopOrStart, Crash, Restart
<1>7. ASSUME NEW w \in Worker, Call(w) PROVE HandlersWork'
  <2>1. step[w] # "idle" /\ hand[w] \in Submission
    BY <1>7 DEF Call, Inspect, Reject, PutVideo, PutThumb, Record, Ask, Alert, Decide,
       CallFails, PutThumbFails, RecordFails, Drop, Route, RouteFails, At
  <2>2. CASE Succeed(w) \/ Fail(w)
    BY <1>type, <2>1, <2>2 DEF Succeed, Fail, HandlerReturns
  <2>3. CASE Route(w) \/ RouteFails(w)
    BY <1>type, <2>1, <2>3 DEF Route, RouteFails, Proceed, vars, workerVars
  <2>4. CASE /\ UNCHANGED vars /\ pc[w] = "handling"
             /\ \E there \in Step \ {"idle", "route"} : step' = [step EXCEPT ![w] = there]
    BY <1>type, <2>1, <2>4 DEF vars, workerVars
  <2>5. \/ Succeed(w) \/ Fail(w) \/ Route(w) \/ RouteFails(w)
        \/ /\ UNCHANGED vars /\ pc[w] = "handling"
           /\ \E there \in Step \ {"idle", "route"} : step' = [step EXCEPT ![w] = there]
    <3>1. CASE CallFails(w) \/ Drop(w) \/ Decide(w) \/ Route(w) \/ RouteFails(w)
      BY <3>1 DEF CallFails, Drop, Decide
    <3>2. CASE ~(CallFails(w) \/ Drop(w) \/ Decide(w) \/ Route(w) \/ RouteFails(w))
      BY <1>7, <3>2 DEF Call, Inspect, Reject, PutVideo, PutThumb, Record, Ask, Alert,
         PutThumbFails, RecordFails, Proceed, At, Step
    <3> QED
      BY <3>1, <3>2
  <2> QED
    BY <2>2, <2>3, <2>4, <2>5
<1>8. ASSUME NEW s \in Submission,
             \/ \E m \in Decisions : Moderate(s, m)
             \/ \E v \in Verification \ {"none"} : UpdateVerification(s, v)
             \/ SweepRejected(s)
      PROVE  UNCHANGED <<pc, hand, step>>
  BY <1>8 DEF Moderate, UpdateVerification, SweepRejected, vars, workerVars, handlerVars
<1> QED
  BY <1>1, <1>2, <1>3, <1>4, <1>5, <1>6, <1>7, <1>8
     DEF AnalysisNext, allVars, vars, workerVars, analysisVars, handlerVars

\* A step is reached only from the one before it, and what was recorded stays.
LEMMA HandlersAreConsistentStep ==
  ASSUME HandlerInv, [AnalysisNext]_allVars
  PROVE  HandlersAreConsistent'
<1> USE DEF HandlerInv, HandlersAreConsistent
<1>type. /\ step \in [Worker -> Step] /\ verdict \in [Worker -> Verdict]
         /\ hand \in [Worker -> Job \cup {NoJob}]
  BY DEF AnalysisTypeOK, TypeOK
<1>1. CASE UNCHANGED <<hand, step, verdict, recorded>>
  BY <1>1
<1>2. ASSUME NEW j \in Job, Create(j) \/ Elapse(j) PROVE UNCHANGED <<hand, step, verdict, recorded>>
  BY <1>2 DEF Create, Elapse, Enqueue, Postpone, Cancel, Purge, BecomeAvailable, LockExpires,
     workerVars, handlerVars, analysisVars, clipVars, rowVars
<1>3. ASSUME NEW w \in Worker, NEW j \in Job, ClaimAndRoute(w, j) PROVE HandlersAreConsistent'
  BY <1>type, <1>3 DEF ClaimAndRoute, Claim
<1>4. ASSUME NEW w \in Worker, OtherHandlerReturns(w) PROVE HandlersAreConsistent'
  BY <1>4 DEF OtherHandlerReturns, Return, HandlerReturns, analysisVars, handlerVars,
     clipVars, rowVars
<1>5. ASSUME NEW w \in Worker, ReportOutcome(w) PROVE HandlersAreConsistent'
  <2>1. /\ step[w] = "idle" /\ UNCHANGED <<step, verdict, recorded>> /\ NextPoll(w)
    BY <1>5 DEF ReportOutcome, Report, CompleteJob, FailJob, LateReport, LoseReport,
       HandlersWork, analysisVars, handlerVars, clipVars, rowVars
  <2> QED
    BY <1>type, <2>1 DEF NextPoll
<1>6. ASSUME NEW w \in Worker, StopOrStart(w) PROVE HandlersAreConsistent'
  BY <1>type, <1>6 DEF StopOrStart, Crash, Restart, clipVars, rowVars
<1>7. ASSUME NEW w \in Worker, Call(w) PROVE HandlersAreConsistent'
  <2> USE DEF clipVars, rowVars
  <2>1. UNCHANGED hand
    BY <1>7, CallShape DEF Succeed, Fail, HandlerReturns, vars, workerVars
  <2>2. CASE CallFails(w) \/ Drop(w) \/ Decide(w)
    <3>1. /\ UNCHANGED <<verdict, recorded>>
          /\ \E there \in {"idle", "route"} : step' = [step EXCEPT ![w] = there]
      BY <2>2 DEF CallFails, Drop, Decide, Succeed, Fail, Write
    <3> QED
      BY <1>type, <2>1, <3>1
  <2>3. CASE Ask(w)
    <3>1. /\ step[w] = "ask" /\ UNCHANGED recorded
          /\ \E v \in {Passed, NotPassed, ToReview} : verdict' = [verdict EXCEPT ![w] = v]
          /\ \E there \in {"alert", "decide"} : step' = [step EXCEPT ![w] = there]
      BY <2>3 DEF Ask, Proceed, At
    <3> QED
      BY <1>type, <2>1, <3>1
  <2>4. CASE Reject(w)
    BY <1>type, <2>1, <2>4 DEF Reject, Proceed, At
  <2>5. CASE Record(w)
    BY <1>type, <2>1, <2>5 DEF Record, Proceed, At, Clip
  <2>6. CASE Alert(w)
    BY <1>type, <2>1, <2>6 DEF Alert, Proceed, At
  <2>7. CASE Inspect(w) \/ PutVideo(w) \/ PutThumb(w) \/ PutThumbFails(w) \/ RecordFails(w)
             \/ Route(w) \/ RouteFails(w)
    <3>1. /\ UNCHANGED <<verdict, recorded>>
          /\ \E there \in Step \ {"ask", "alert", "decide", "rejectVerdict"} :
               step' = [step EXCEPT ![w] = there]
      BY <2>7 DEF Inspect, PutVideo, PutThumb, PutThumbFails, RecordFails, Route, RouteFails,
         Proceed, Write, Step
    <3> QED
      BY <1>type, <2>1, <3>1
  <2> QED
    BY <1>7, <2>2, <2>3, <2>4, <2>5, <2>6, <2>7 DEF Call
<1>8. ASSUME NEW s \in Submission,
             \/ \E m \in Decisions : Moderate(s, m)
             \/ \E v \in Verification \ {"none"} : UpdateVerification(s, v)
             \/ SweepRejected(s)
      PROVE  UNCHANGED <<hand, step, verdict, recorded>>
  BY <1>8 DEF Moderate, UpdateVerification, SweepRejected, vars, workerVars, handlerVars
<1> QED
  BY <1>1, <1>2, <1>3, <1>4, <1>5, <1>6, <1>7, <1>8
     DEF AnalysisNext, allVars, vars, workerVars, analysisVars, handlerVars, clipVars, rowVars

\* The three parts together are inductive.
LEMMA HandlerInvHolds == AnalysisSpec => []HandlerInv
<1>1. AnalysisInit => HandlerInv
  <2> SUFFICES ASSUME AnalysisInit PROVE HandlerInv
    OBVIOUS
  <2>1. TypeOK
    BY JobQueueAssumption
       DEF AnalysisInit, Init, TypeOK, Status, WorkerPc, Busy, Active, Settled
  <2>2. AnalysisTypeOK
    BY <2>1 DEF AnalysisInit, AnalysisTypeOK, Verification, Moderation, Step, Verdict
  <2> QED
    BY <2>2 DEF AnalysisInit, Init, HandlerInv, HandlersWork, HandlersAreConsistent
<1>2. HandlerInv /\ [AnalysisNext]_allVars => HandlerInv'
  BY AnalysisTypeStep, HandlersWorkStep, HandlersAreConsistentStep DEF HandlerInv
<1> QED
  BY <1>1, <1>2, PTL DEF AnalysisSpec

\* Rows, objects and handlers keep to their declared values, whatever crashes,
\* overlapping attempts, moderators and sweeps do.
THEOREM AnalysisTypes == AnalysisSpec => []AnalysisTypeOK
<1>1. HandlerInv => AnalysisTypeOK
  BY DEF HandlerInv
<1> QED
  BY <1>1, HandlerInvHolds, PTL

-----------------------------------------------------------------------------
(* What a step writes to the verdict of a submission.                      *)

\* A verdict changes in one of six ways.
LEMMA VerdictWrites ==
  ASSUME HandlerInv, [AnalysisNext]_allVars, NEW s \in Submission,
         verification'[s] # verification[s]
  PROVE  \/ Enqueue(s) /\ verification[s] = "none" /\ verification'[s] = "pending"
         \/ verification[s] = "pending" /\ verification'[s] = "manual_review"
         \/ /\ verification[s] \in Undecided /\ verification'[s] \in {"failed", "manual_review"}
         \/ /\ verification[s] \in Undecided /\ s \in recorded /\ s \in recorded'
            /\ verification'[s] = "passed"
         \/ \E v \in Verification \ {"none"} : UpdateVerification(s, v) /\ verification'[s] = v
<1> USE DEF HandlerInv, AnalysisTypeOK
<1>1. ASSUME NEW j \in Job, Create(j) \/ Elapse(j)
      PROVE  Enqueue(s) /\ verification[s] = "none" /\ verification'[s] = "pending"
  BY <1>1 DEF Create, Elapse, analysisVars, clipVars, rowVars
<1>2. ASSUME NEW w \in Worker, NEW j \in Job, ClaimAndRoute(w, j)
      PROVE  verification[s] = "pending" /\ verification'[s] = "manual_review"
  BY <1>2 DEF ClaimAndRoute, RoutedByRecovery
<1>3. ASSUME NEW w \in Worker, Decide(w)
      PROVE  /\ verification[s] \in Undecided
             /\ \/ verification'[s] \in {"failed", "manual_review"}
                \/ verification'[s] = "passed" /\ s \in recorded /\ s \in recorded'
  <2>1. s = Clip(w) /\ verification'[s] = verdict[w].verification
        /\ verification[s] \in Undecided /\ UNCHANGED recorded
    BY <1>3 DEF Decide, Write
  <2>2. CASE step[w] = "rejectVerdict"
    BY <2>1, <2>2 DEF HandlersAreConsistent, Rejected
  <2>3. CASE step[w] = "decide"
    BY <2>1, <2>3 DEF HandlersAreConsistent, Passed, NotPassed, ToReview, Clip
  <2> QED
    BY <1>3, <2>2, <2>3, <2>1 DEF Decide, At
<1>4. ASSUME NEW w \in Worker, Route(w)
      PROVE  verification[s] \in Undecided /\ verification'[s] = "manual_review"
  BY <1>4 DEF Route, Write, ToReview, rowVars
<1>5. ASSUME NEW w \in Worker, Call(w), ~Decide(w), ~Route(w) PROVE FALSE
  BY <1>5 DEF Call, Inspect, Reject, PutVideo, PutThumb, Record, Ask, Alert, CallFails,
     PutThumbFails, RecordFails, Drop, RouteFails, clipVars, rowVars
<1>6. ASSUME NEW w \in Worker, OtherHandlerReturns(w) \/ ReportOutcome(w) \/ StopOrStart(w)
      PROVE  FALSE
  BY <1>6 DEF OtherHandlerReturns, ReportOutcome, StopOrStart, analysisVars, clipVars, rowVars
<1>7. ASSUME NEW x \in Submission, \/ \E m \in Decisions : Moderate(x, m)
                                   \/ SweepRejected(x)
      PROVE  FALSE
  BY <1>7 DEF Moderate, SweepRejected
<1>8. ASSUME NEW x \in Submission, NEW v \in Verification \ {"none"}, UpdateVerification(x, v)
      PROVE  x = s /\ verification'[s] = v
  BY <1>8 DEF UpdateVerification
<1>9. CASE UNCHANGED allVars
  BY <1>9 DEF allVars, analysisVars, clipVars, rowVars
<1> QED
  BY <1>1, <1>2, <1>3, <1>4, <1>5, <1>6, <1>7, <1>8, <1>9 DEF AnalysisNext

\* An inspection that was recorded stays recorded.
LEMMA RecordsStay == [AnalysisNext]_allVars => recorded \subseteq recorded'
<1> USE DEF analysisVars, clipVars, rowVars
<1>1. ASSUME NEW w \in Worker, Call(w) PROVE recorded \subseteq recorded'
  BY <1>1 DEF Call, Inspect, Reject, PutVideo, PutThumb, Record, Ask, Alert, Decide,
     CallFails, PutThumbFails, RecordFails, Drop, Route, RouteFails, Write
<1> QED
  BY <1>1 DEF AnalysisNext, allVars, Create, Elapse, ClaimAndRoute, OtherHandlerReturns,
     ReportOutcome, StopOrStart, Moderate, UpdateVerification, SweepRejected

\* No interleaving of overlapping attempts, recoveries and moderators passes a
\* clip that was not scanned and inspected.
THEOREM PassedClipsWereScanned == AnalysisSpec => []OnlyScannedClipsPass
<1>1. AnalysisInit => OnlyScannedClipsPass
  BY DEF AnalysisInit, OnlyScannedClipsPass
<1>2. ASSUME HandlerInv, OnlyScannedClipsPass, [AnalysisNext]_allVars,
             NEW s \in Submission, verification'[s] = "passed"
      PROVE  s \in recorded'
  <2>1. recorded \subseteq recorded'
    BY <1>2, RecordsStay
  <2>2. CASE verification'[s] = verification[s]
    BY <1>2, <2>1, <2>2 DEF OnlyScannedClipsPass
  <2>3. CASE verification'[s] # verification[s]
    BY <1>2, <2>1, <2>3, VerdictWrites DEF UpdateVerification
  <2> QED
    BY <2>2, <2>3
<1>3. HandlerInv /\ OnlyScannedClipsPass /\ [AnalysisNext]_allVars => OnlyScannedClipsPass'
  BY <1>2 DEF OnlyScannedClipsPass
<1> QED
  BY <1>1, <1>3, HandlerInvHolds, PTL DEF AnalysisSpec

\* Retries, recoveries and late handlers never change a verdict that has been
\* reached; only a moderator's UpdateVerification does.
THEOREM VerdictsSurvive == AnalysisSpec => VerdictSurvivesRetries
<1>1. HandlerInv /\ [AnalysisNext]_allVars =>
        [\A s \in Submission :
           verification[s] \in {"passed", "failed"} /\ verification'[s] # verification[s]
             => \E v \in Verification : UpdateVerification(s, v)]_allVars
  <2> SUFFICES ASSUME HandlerInv, [AnalysisNext]_allVars, NEW s \in Submission,
                      verification[s] \in {"passed", "failed"},
                      verification'[s] # verification[s]
               PROVE  \E v \in Verification : UpdateVerification(s, v)
    OBVIOUS
  <2> QED
    BY VerdictWrites DEF Undecided
<1> QED
  BY <1>1, HandlerInvHolds, PTL DEF AnalysisSpec, VerdictSurvivesRetries

-----------------------------------------------------------------------------
(* Buried jobs.  Both places that bury a job come after a routing write;    *)
(* in between, the worker holds a last attempt that has failed.            *)

\* The row of a submission and its job are inserted together, and the row
\* stays when the job is purged; so a job in hand has a submission.
JobsHaveSubmissions ==
  /\ \A s \in Submission : status[s] # "absent" => verification[s] # "none"
  /\ \A w \in Worker : hand[w] \in Submission => verification[hand[w]] # "none"

\* A worker about to bury an analysis has routed its submission.
LastFailuresAreRouted ==
  \A w \in Worker :
    /\ pc[w] = "failed" /\ hand[w] \in Submission /\ step[w] # "route"
    /\ claimed[w] >= MaxAttempts[hand[w]]
    => verification[hand[w]] # "pending"

ReviewedInv ==
  /\ QueueInv /\ HandlerInv
  /\ JobsHaveSubmissions
  /\ LastFailuresAreRouted
  /\ DeadAnalysisIsReviewed

\* No moderator sets a verification back to pending, which UpdateVerification
\* would let them do.
NoReset == \A s \in Submission : ~UpdateVerification(s, "pending")

\* A submission, once inserted, then never becomes pending again.
LEMMA PendingOnce ==
  ASSUME [NoReset]_allVars, HandlerInv, [AnalysisNext]_allVars, NEW s \in Submission,
         verification[s] # "none"
  PROVE  /\ verification'[s] # "none"
         /\ verification[s] # "pending" => verification'[s] # "pending"
<1>1. CASE UNCHANGED allVars
  BY <1>1 DEF allVars, analysisVars, clipVars, rowVars
<1>2. CASE NoReset
  BY <1>2, VerdictWrites DEF NoReset
<1> QED
  BY <1>1, <1>2

\* Rows and jobs stay together.
LEMMA JobsHaveSubmissionsStep ==
  ASSUME [NoReset]_allVars, QueueInv, HandlerInv, JobsHaveSubmissions, [AnalysisNext]_allVars
  PROVE  JobsHaveSubmissions'
<1> USE DEF JobsHaveSubmissions
<1>type. /\ status \in [Job -> Status] /\ hand \in [Worker -> Job \cup {NoJob}]
         /\ NoJob \notin Submission /\ Submission \subseteq Job
         /\ verification \in [Submission -> Verification]
  BY JobQueueAssumption, AnalysisAssumption DEF HandlerInv, AnalysisTypeOK, TypeOK
<1>1. ASSUME NEW s \in Submission, status'[s] # "absent" PROVE verification'[s] # "none"
  <2>1. CASE status[s] # "absent"
    BY <2>1, PendingOnce
  <2>2. CASE status[s] = "absent"
    <3>1. status'[s] # status[s]
      BY <1>1, <2>2
    <3>2. \E j \in Job : Create(j) /\ j = s
      <4>1. ASSUME NEW j \in Job, Elapse(j) PROVE FALSE
        BY <1>type, <3>1, <2>2, <1>1, <4>1 DEF Elapse, Postpone, Cancel, Purge, BecomeAvailable,
           LockExpires, Withdraw, Settled
      <4>2. ASSUME NEW j \in Job, Create(j) PROVE j = s
        BY <1>type, <3>1, <4>2 DEF Create, Enqueue
      <4>3. ASSUME NEW w \in Worker, NEW j \in Job, Claim(w, j) PROVE FALSE
        BY <1>type, <3>1, <2>2, <4>3
           DEF Claim, StatusAfterClaim, Claimable, Waiting, Requeued, Buried, QueueInv,
               TimeSetsMatchStatus
      <4>4. ASSUME NEW w \in Worker, Report(w) \/ LoseReport(w) PROVE FALSE
        BY <1>type, <3>1, <2>2, <4>4
           DEF Report, CompleteJob, FailJob, LateReport, LoseReport, HoldsLock, Release, tableVars
      <4>5. ASSUME UNCHANGED tableVars PROVE FALSE
        BY <3>1, <4>5 DEF tableVars
      <4>6. ASSUME NEW w \in Worker,
                   OtherHandlerReturns(w) \/ StopOrStart(w) \/ Call(w)
            PROVE  UNCHANGED tableVars
        BY <4>6, CallShape DEF OtherHandlerReturns, Return, HandlerReturns, StopOrStart,
           Crash, Restart, Succeed, Fail, vars
      <4> QED
        BY <4>1, <4>2, <4>3, <4>4, <4>5, <4>6
           DEF AnalysisNext, allVars, vars, ClaimAndRoute, ReportOutcome, Moderate,
               UpdateVerification, SweepRejected
    <3> QED
      BY <1>type, <3>2 DEF Create
  <2> QED
    BY <2>1, <2>2
<1>2. ASSUME NEW w \in Worker, hand'[w] \in Submission PROVE verification'[hand'[w]] # "none"
  <2>1. CASE hand'[w] = hand[w]
    BY <1>2, <2>1, PendingOnce
  <2>2. CASE hand'[w] # hand[w]
    <3>1. hand'[w] \in Submission /\ status[hand'[w]] # "absent"
      <4>1. ASSUME NEW k \in Worker, NEW j \in Job, Claim(k, j)
            PROVE  status[hand'[w]] # "absent"
        <5>1. k = w /\ hand'[w] = j
          BY <1>type, <2>2, <4>1 DEF Claim
        <5> QED
          BY <4>1, <5>1 DEF Claim, Claimable, Waiting, Requeued, Buried, QueueInv,
             TimeSetsMatchStatus
      <4>2. ASSUME NEW k \in Worker, Report(k) \/ LoseReport(k) \/ Crash(k) PROVE FALSE
        <5>1. hand' = [hand EXCEPT ![k] = NoJob]
          BY <4>2 DEF Report, CompleteJob, FailJob, LateReport, LoseReport, Crash, NextPoll
        <5> QED
          BY <1>type, <1>2, <2>2, <5>1
      <4>3. ASSUME UNCHANGED hand PROVE FALSE
        BY <2>2, <4>3
      <4>4. ASSUME NEW k \in Worker, OtherHandlerReturns(k) \/ Restart(k) \/ Call(k)
            PROVE  UNCHANGED hand
        BY <4>4, CallShape DEF OtherHandlerReturns, Return, HandlerReturns, Restart, Succeed,
           Fail, vars, workerVars
      <4>5. ASSUME NEW j \in Job, Create(j) \/ Elapse(j) PROVE UNCHANGED hand
        BY <4>5 DEF Create, Elapse, Enqueue, Postpone, Cancel, Purge, BecomeAvailable,
           LockExpires, workerVars
      <4> QED
        BY <1>2, <4>1, <4>2, <4>3, <4>4, <4>5
           DEF AnalysisNext, allVars, vars, workerVars, ClaimAndRoute, ReportOutcome,
               StopOrStart, Moderate, UpdateVerification, SweepRejected
    <3> QED
      BY <3>1, PendingOnce
  <2> QED
    BY <2>1, <2>2
<1> QED
  BY <1>1, <1>2

\* A handler that fails for the last time is followed by its routing write,
\* and no other step makes a submission pending again.
LEMMA LastFailuresStep ==
  ASSUME [NoReset]_allVars, ~RoutingMayFail, ReviewedInv, [AnalysisNext]_allVars
  PROVE  LastFailuresAreRouted'
<1> USE DEF ReviewedInv
<1>type. /\ pc \in [Worker -> WorkerPc] /\ hand \in [Worker -> Job \cup {NoJob}]
         /\ claimed \in [Worker -> Nat] /\ step \in [Worker -> Step]
         /\ verification \in [Submission -> Verification]
  BY DEF HandlerInv, AnalysisTypeOK, TypeOK
<1> SUFFICES ASSUME NEW w \in Worker,
                    pc'[w] = "failed", hand'[w] \in Submission, step'[w] # "route",
                    claimed'[w] >= MaxAttempts[hand'[w]]
             PROVE  verification'[hand'[w]] # "pending"
  BY DEF LastFailuresAreRouted
<1>1. CASE UNCHANGED <<pc[w], hand[w], step[w], claimed[w]>>
  BY <1>1, PendingOnce DEF LastFailuresAreRouted, JobsHaveSubmissions
<1>2. ASSUME NEW j \in Job, Create(j) \/ Elapse(j)
      PROVE  UNCHANGED <<pc[w], hand[w], step[w], claimed[w]>>
  BY <1>2 DEF Create, Elapse, Enqueue, Postpone, Cancel, Purge, BecomeAvailable, LockExpires,
     workerVars, handlerVars, analysisVars
<1>3. ASSUME NEW k \in Worker, k # w,
             \/ \E j \in Job : ClaimAndRoute(k, j)
             \/ OtherHandlerReturns(k) \/ ReportOutcome(k) \/ StopOrStart(k) \/ Call(k)
      PROVE  UNCHANGED <<pc[w], hand[w], step[w], claimed[w]>>
  <2>1. CASE Call(k)
    BY <1>type, <1>3, <2>1, CallShape DEF Succeed, Fail, HandlerReturns, vars, workerVars
  <2>2. CASE ~Call(k)
    BY <1>type, <1>3, <2>2 DEF ClaimAndRoute, Claim, OtherHandlerReturns, Return, HandlerReturns,
       ReportOutcome, Report, CompleteJob, FailJob, LateReport, LoseReport, NextPoll,
       StopOrStart, Crash, Restart, analysisVars, handlerVars
  <2> QED
    BY <2>1, <2>2
<1>4. ASSUME \/ \E j \in Job : ClaimAndRoute(w, j)
             \/ ReportOutcome(w) \/ StopOrStart(w)
      PROVE  pc'[w] # "failed"
  BY <1>type, <1>4 DEF ClaimAndRoute, Claim, ReportOutcome, Report, CompleteJob, FailJob,
     LateReport, LoseReport, NextPoll, StopOrStart, Crash, Restart
<1>5. ASSUME OtherHandlerReturns(w) PROVE FALSE
  BY <1>type, <1>5 DEF OtherHandlerReturns, Return, HandlerReturns, HandlerInv, HandlersWork
<1>6. CASE Call(w)
  <2>1. UNCHANGED <<hand, claimed>>
    BY <1>6, CallShape DEF Succeed, Fail, HandlerReturns, vars, workerVars
  <2>2. ASSUME Succeed(w) \/ Fail(w) PROVE FALSE
    BY <1>type, <2>1, <2>2 DEF Succeed, Fail, HandlerReturns, Clip
  <2>3. CASE Route(w)
    <3>1. CASE verification[hand[w]] \in Undecided
      BY <1>type, <2>1, <2>3, <3>1 DEF Route, Write, ToReview, Clip
    <3>2. CASE verification[hand[w]] \notin Undecided
      BY <1>type, <2>1, <2>3, <3>2 DEF Route, Undecided, Clip, rowVars
    <3> QED
      BY <3>1, <3>2
  <2>4. ASSUME RouteFails(w) PROVE FALSE
    BY <2>4 DEF RouteFails
  <2>5. ASSUME ~Succeed(w), ~Fail(w), ~Route(w), ~RouteFails(w) PROVE pc'[w] = "handling"
    BY <1>6, <2>5 DEF Call, Inspect, Reject, PutVideo, PutThumb, Record, Ask, Alert, Decide,
       CallFails, PutThumbFails, RecordFails, Drop, At, Proceed, vars, workerVars
  <2> QED
    BY <2>2, <2>3, <2>4, <2>5
<1>7. ASSUME NEW s \in Submission,
             \/ \E m \in Decisions : Moderate(s, m)
             \/ \E v \in Verification \ {"none"} : UpdateVerification(s, v)
             \/ SweepRejected(s)
      PROVE  UNCHANGED <<pc[w], hand[w], step[w], claimed[w]>>
  BY <1>7 DEF Moderate, UpdateVerification, SweepRejected, vars, workerVars, handlerVars
<1>8. CASE UNCHANGED allVars
  BY <1>1, <1>8 DEF allVars, vars, workerVars, analysisVars, handlerVars
<1> QED
  BY <1>1, <1>2, <1>3, <1>4, <1>5, <1>6, <1>7, <1>8 DEF AnalysisNext

\* A job is buried by a recovering claim, which routes its submission in the
\* same transaction, or by the report of a last failure, routed before.
LEMMA DeadStep ==
  ASSUME [NoReset]_allVars, ReviewedInv, [AnalysisNext]_allVars
  PROVE  DeadAnalysisIsReviewed'
<1> USE DEF ReviewedInv
<1>type. /\ status \in [Job -> Status] /\ Submission \subseteq Job
         /\ Submission \cap Deferrable = {}
  BY AnalysisAssumption DEF HandlerInv, AnalysisTypeOK, TypeOK
<1> SUFFICES ASSUME NEW s \in Submission, status'[s] = "dead"
             PROVE  verification'[s] # "pending"
  BY DEF DeadAnalysisIsReviewed
<1>1. CASE status[s] = "dead"
  BY <1>1, PendingOnce DEF DeadAnalysisIsReviewed, JobsHaveSubmissions
<1>2. CASE status[s] # "dead"
  <2>1. ASSUME NEW j \in Job, Create(j) \/ Elapse(j) PROVE FALSE
    BY <1>type, <1>2, <2>1 DEF Create, Elapse, Enqueue, Postpone, Cancel, Purge,
       BecomeAvailable, LockExpires, Withdraw
  <2>2. ASSUME NEW w \in Worker, NEW j \in Job, ClaimAndRoute(w, j)
        PROVE  verification'[s] # "pending"
    <3>1. s \in Buried
      BY <1>type, <1>2, <2>2 DEF ClaimAndRoute, Claim, StatusAfterClaim
    <3> QED
      BY <2>2, <3>1 DEF ClaimAndRoute, RoutedByRecovery
  <2>3. ASSUME NEW w \in Worker, ReportOutcome(w) PROVE verification'[s] # "pending"
    <3>1. /\ pc[w] = "failed" /\ hand[w] = s /\ claimed[w] >= MaxAttempts[s]
          /\ step[w] # "route" /\ UNCHANGED verification
      BY <1>type, <1>2, <2>3 DEF ReportOutcome, Report, CompleteJob, FailJob, LateReport,
         LoseReport, Release, tableVars, analysisVars, clipVars, rowVars
    <3> QED
      BY <3>1 DEF LastFailuresAreRouted
  <2>4. ASSUME NEW w \in Worker, OtherHandlerReturns(w) \/ StopOrStart(w) \/ Call(w)
        PROVE  UNCHANGED status
    BY <2>4, CallShape DEF OtherHandlerReturns, Return, HandlerReturns, StopOrStart,
       Crash, Restart, Succeed, Fail, vars, tableVars
  <2> QED
    BY <1>2, <2>1, <2>2, <2>3, <2>4
       DEF AnalysisNext, allVars, vars, tableVars, Moderate, UpdateVerification, SweepRejected
<1> QED
  BY <1>1, <1>2

\* An analysis whose job is buried has been decided or handed to the
\* moderators, whatever crashes, late reports and recoveries came before, if the
\* database takes the routing writes; only a moderator can set it to pending.
THEOREM BuriedAnalysesAreRouted ==
  ASSUME ~RoutingMayFail
  PROVE  AnalysisSpec /\ [][NoReset]_allVars => []DeadAnalysisIsReviewed
<1>1. AnalysisInit => JobsHaveSubmissions /\ LastFailuresAreRouted /\ DeadAnalysisIsReviewed
  <2>1. NoJob \notin Submission
    BY JobQueueAssumption, AnalysisAssumption
  <2> QED
    BY <2>1, AnalysisAssumption
       DEF AnalysisInit, Init, JobsHaveSubmissions, LastFailuresAreRouted, DeadAnalysisIsReviewed
<1>2. QueueInv /\ QueueInv' /\ HandlerInv /\ HandlerInv' /\ ReviewedInv /\ [AnalysisNext]_allVars
      /\ [NoReset]_allVars
        => ReviewedInv'
  BY JobsHaveSubmissionsStep, LastFailuresStep, DeadStep DEF ReviewedInv
<1>3. QueueInv /\ HandlerInv /\ AnalysisInit => ReviewedInv
  BY <1>1 DEF ReviewedInv
<1>4. ReviewedInv => DeadAnalysisIsReviewed
  BY DEF ReviewedInv
<1> QED
  BY <1>2, <1>3, <1>4, AnalysisKeepsQueueInv, HandlerInvHolds, PTL DEF AnalysisSpec

\* The same of the code as it is: the database refuses the audit INSERT of
\* UpdateVerification, so that no moderator sets anything to pending.
THEOREM DeadAnalysesAreReviewed ==
  ASSUME ~AuditTyped, ~RoutingMayFail
  PROVE  AnalysisSpec => []DeadAnalysisIsReviewed
<1>1. NoReset
  BY DEF NoReset, UpdateVerification
<1> QED
  BY <1>1, BuriedAnalysesAreRouted, PTL
=============================================================================
