\* Two requests at once over three tokens and two links of each kind.
SPECIFICATION Spec
CONSTANTS
  t1 = t1
  t2 = t2
  t3 = t3
  r1 = r1
  r2 = r2
  v1 = v1
  v2 = v2
  c1 = c1
  c2 = c2
  NoRow = NoRow
  RefreshToken = {t1, t2, t3}
  ResetLink = {r1, r2}
  VerificationLink = {v1, v2}
  Client = {c1, c2}
  MaxExpired = 1
SYMMETRY Alike
INVARIANTS
  SessionsTypeOK
  OneUsableToken
  VerificationLinksSettle
PROPERTIES
  KeepsFamilies
  PasswordChangesByLink
