--------------------------- MODULE MCEntitlements ---------------------------
(* Instances of Entitlements for TLC. *)
EXTENDS Entitlements

CONSTANTS u1, u2, e1, e2, h1, s1

Plan(product, expires, grace, sandbox, unsubscribed, issue) ==
  [product |-> product, expires |-> expires, grace |-> grace,
   sandbox |-> sandbox, unsubscribed |-> unsubscribed, issue |-> issue]

None == Plan("none", Nil, Nil, FALSE, FALSE, FALSE)

\* Without the entitlement, in trouble and in a grace period, for life without
\* an entry, and in the sandbox.
Customers == {
  None,
  Plan("listed", 1, 2, FALSE, FALSE, TRUE),
  Plan("unlisted", Nil, Nil, FALSE, FALSE, FALSE),
  Plan("listed", Nil, Nil, TRUE, FALSE, FALSE)}

\* Dates as fine as the clock.
Exact == [t \in Time |-> t]
=============================================================================
