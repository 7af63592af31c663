\* Safety and refinement: two workers, rows that share a key, a deferrable
\* row, and up to two crashes or lost reports.
SPECIFICATION Spec
CONSTANTS
  mail = mail
  sweep = sweep
  sweepAgain = sweepAgain
  erase = erase
  w1 = w1
  w2 = w2
  kMail = kMail
  kSweep = kSweep
  kErase = kErase
  NoJob = NoJob
  NoWorker = NoWorker
  Job = {sweep, sweepAgain, erase}
  Worker = {w1, w2}
  Key = {kMail, kSweep, kErase}
  KeyOf <- Keys
  MaxAttempts <- TwoAttempts
  Recurring = {sweep}
  Deferrable = {erase}
  MaxFaults = 2
SYMMETRY WorkersAlike
INVARIANTS
  TypeOK
  LockMeansCurrentAttempt
  NoQueuedJobIsSpent
  DeadJobsWereTriedInFull
  OneLiveRowPerKey
PROPERTIES
  KeepsPromise
