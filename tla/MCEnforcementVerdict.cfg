\* README.md:270: an actioned notice restricts the submission.
SPECIFICATION Spec
CONSTANTS
  n1 = n1
  n2 = n2
  alice = alice
  bob = bob
  NoTarget = NoTarget
  Notice = {n1, n2}
  Moderator = {alice, bob}
  Requests <- Copyright
  Verdicts <- PassedClip
  MaxRequests = 4
SYMMETRY Alike
\* The instance stops when its requests are used up.
CHECK_DEADLOCK FALSE
INVARIANTS
  ActionedClaimRestricts
