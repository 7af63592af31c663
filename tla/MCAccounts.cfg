\* One clip, one export, the deletion and the sweep, and two faults: the
\* account's objects through every order of the three jobs.  AccountDeletionMedia
\* fails at its first query, as it does today, or is given the argument it misses.
SPECIFICATION FairSpec
CONSTANTS
  e1 = e1
  u1 = u1
  Export = {e1}
  Upload = {u1}
  Deletion = Deletion
  Cleanup = Cleanup
  Nothing = Nothing
  MaxTries <- Tries
  MaxFaults = 2
  DueArguments = {TRUE, FALSE}
  Outcomes = {"processed", "rejected"}
CHECK_DEADLOCK FALSE
INVARIANTS
  AccountsTypeOK
  
  DeletedAccountsLeaveNothing
  DeletionActsForAnOpenRequest
PROPERTIES
  ExportsSettle
  ExpiredExportsMakeRoom
