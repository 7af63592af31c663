\* README.md:279-280 on exports, without a fault and with the code as it is.
SPECIFICATION FairSpec
CONSTANTS
  e1 = e1
  u1 = u1
  Export = {e1}
  Upload = {u1}
  Deletion = Deletion
  Cleanup = Cleanup
  Nothing = Nothing
  MaxTries <- Tries
  MaxFaults = 0
  DueArguments = {FALSE}
  Outcomes = {"rejected"}
CHECK_DEADLOCK FALSE
INVARIANTS
  ExportsDeliver
