\* Two moderators, two notices, every request and every verdict.
SPECIFICATION Spec
CONSTANTS
  n1 = n1
  n2 = n2
  alice = alice
  bob = bob
  NoTarget = NoTarget
  Notice = {n1, n2}
  Moderator = {alice, bob}
  Requests <- AnyRequest
  Verdicts <- AnyVerdict
  MaxRequests = 3
SYMMETRY Alike
\* The instance stops when its requests are used up.
CHECK_DEADLOCK FALSE
INVARIANTS
  EnforcementTypeOK
  PublicationIsStamped
  OneReversalPerAppeal
PROPERTIES
  ReviewsFollowTheTable
