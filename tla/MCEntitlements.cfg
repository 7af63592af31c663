\* Two users, two events, deliveries beside a client's synchronisation, and a failing call or a lost acknowledgement.
SPECIFICATION FairSpec
CONSTANTS
  u1 = u1
  u2 = u2
  e1 = e1
  e2 = e2
  h1 = h1
  s1 = s1
  Nil = Nil
  User = {u1, u2}
  Known = {u1, u2}
  Event = {e1, e2}
  Webhook = {h1}
  Sync = {s1}
  Customer <- Customers
  NoCustomer <- None
  AllowSandbox = FALSE
  RequestDate <- Exact
  MaxTime = 3
  MaxFaults = 1
CHECK_DEADLOCK FALSE
INVARIANTS
  EntitlementsTypeOK
  RecordedEventsAreReflected
  OverviewAgreesWithUploads
PROPERTIES
  WebhooksConverge
