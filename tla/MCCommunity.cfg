\* Two votes of two users at a time and two windows of the limit, and two
\* publications at a time of three versions.
SPECIFICATION Spec
CONSTANTS
  owner = owner
  u1 = u1
  u2 = u2
  r1 = r1
  r2 = r2
  a1 = a1
  a2 = a2
  v0 = v0
  v1 = v1
  v2 = v2
  None = None
  User = {owner, u1, u2}
  Owner = owner
  Caller = {u1, u2}
  Score = {1, 5}
  Vote = {r1, r2}
  Admin = {a1, a2}
  Version = {v0, v1, v2}
  Seeded = {}
  MayBlock <- OneBlock
  Maximum = 1
  Window = 2
  MaxTime = 3
CONSTRAINT Bounds
SYMMETRY RequestsAlike
INVARIANTS
  CommunityTypeOK
  VotesAreCounted
  RateLimitHolds
  OneCurrentPolicy
