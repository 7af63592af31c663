\* README.md:286 on deletions, without a fault and with the code as it is.
SPECIFICATION FairSpec
CONSTANTS
  e1 = e1
  u1 = u1
  Export = {e1}
  Upload = {u1}
  Deletion = Deletion
  Cleanup = Cleanup
  Nothing = Nothing
  MaxTries <- Tries
  MaxFaults = 0
  DueArguments = {FALSE}
  Outcomes = {}
CHECK_DEADLOCK FALSE
PROPERTIES
  DeletionsAreCarriedOut
