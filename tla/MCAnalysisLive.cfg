\* Liveness: a clip and the hourly sweep, and one fault.  The instance stops
\* when the clip is done and the sweep row has expired on its last attempt.
SPECIFICATION FairAnalysisSpec
CONSTANTS
  clip = clip
  sweep = sweep
  w1 = w1
  w2 = w2
  kClip = kClip
  kSweep = kSweep
  NoJob = NoJob
  NoWorker = NoWorker
  Job = {clip, sweep}
  Worker = {w1, w2}
  Key = {kClip, kSweep}
  KeyOf <- Keys
  MaxAttempts <- TwoAttempts
  Recurring = {sweep}
  Deferrable = {}
  Submission = {clip}
  MaxFaults = 1
  Overlap = FALSE
  RoutingMayFail = FALSE
  AuditTyped = FALSE
  Decisions = {}
CHECK_DEADLOCK FALSE
INVARIANTS
  DeadAnalysisIsReviewed
PROPERTIES
  SubmissionsAreAnswered
  RequestedJobsSettle
