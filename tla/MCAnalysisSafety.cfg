\* Safety: two workers whose handlers may overlap, moderators who can override
\* the verdict itself, and a routing write that may fail.
SPECIFICATION AnalysisSpec
CONSTANTS
  clip = clip
  sweep = sweep
  w1 = w1
  w2 = w2
  kClip = kClip
  kSweep = kSweep
  NoJob = NoJob
  NoWorker = NoWorker
  Job = {clip, sweep}
  Worker = {w1, w2}
  Key = {kClip, kSweep}
  KeyOf <- Keys
  MaxAttempts <- TwoAttempts
  Recurring = {sweep}
  Deferrable = {}
  Submission = {clip}
  MaxFaults = 1
  Overlap = TRUE
  RoutingMayFail = TRUE
  AuditTyped = TRUE
  Decisions = {"approved"}
SYMMETRY WorkersAlike
INVARIANTS
  AnalysisTypeOK
  OnlyScannedClipsPass
PROPERTIES
  VerdictSurvivesRetries
  UsesTheQueue
