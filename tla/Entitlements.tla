----------------------------- MODULE Entitlements -----------------------------
(***************************************************************************)
(* Subscriptions as RevenueCat knows them and as the database does:        *)
(* FetchSubscription and subscriptionFromCustomer                          *)
(* (internal/billing/revenuecat.go), syncSubscription and                  *)
(* revenueCatWebhook (internal/httpapi/billing_handlers.go),               *)
(* ApplyRevenueCatEvent, SyncSubscription, upsertSubscription and          *)
(* GetSubscriptionOverview (internal/store/subscriptions.go).              *)
(*                                                                         *)
(* A webhook only says that something changed: its handler, like a         *)
(* synchronisation, fetches the customer and stores the answer, each in a  *)
(* call of its own.  Answers of several requests are stored in any order,  *)
(* and deliveries are repeated until one of them is acknowledged.          *)
(***************************************************************************)
EXTENDS Integers, FiniteSets

CONSTANTS
  User,             \* app user ids RevenueCat has seen
  Known,            \* those GetUserByID finds; the others are anonymous
  Event,            \* webhook events
  Webhook, Sync,    \* requests in progress, by their route
  Customer,         \* what RevenueCat may know of a user
  NoCustomer,       \* the one without the entitlement
  Nil,              \* a NULL: no date, no row, no event
  AllowSandbox,
  RequestDate,      \* Time -> the request_date of answers given then
  MaxTime,          \* bound: ticks in a behaviour
  MaxFaults         \* bound: calls that fail, acknowledgements that are lost

Request == Webhook \cup Sync
Time == 0 .. MaxTime

\* domain.Subscription, as far as it is stored.
Answer == [source : Time, end : Time \cup {Nil}, active : BOOLEAN,
           status : {"inactive", "active", "canceled", "billing_issue", "expired"}]

ASSUME EntitlementsAssumption ==
  /\ Known \subseteq User /\ Webhook \cap Sync = {}
  /\ Nil \notin User \cup Event \cup Time \cup Answer
  /\ Customer \subseteq [product : {"none", "listed", "unlisted"},
                         expires : Time \cup {Nil}, grace : Time \cup {Nil},
                         sandbox : BOOLEAN, unsubscribed : BOOLEAN, issue : BOOLEAN]
  /\ NoCustomer \in Customer /\ NoCustomer.product = "none"
  /\ AllowSandbox \in BOOLEAN
  /\ {MaxTime, MaxFaults} \subseteq Nat
  /\ RequestDate \in [Time -> Time]
  /\ \A s, t \in Time : s <= t => RequestDate[s] <= RequestDate[t]

VARIABLES
  clock,
  customer,         \* User -> the customer record at RevenueCat
  event,            \* Event -> its users, time and environment, Nil before it
  acked,            \* events RevenueCat need not deliver any more
  call,             \* Request -> its event, users left to fetch and answers
  subscription,     \* Known -> row of subscriptions
  entitlement,      \* Known -> row of entitlements
  recorded,         \* events with a row in billing_events
  faults

provider == <<clock, customer, event>>
tables == <<subscription, entitlement, recorded>>
vars == <<provider, acked, call, tables, faults>>

-----------------------------------------------------------------------------
(* subscriptionFromCustomer.                                               *)

\* The latest of the dates that are not nil, if any.
LaterTime(dates) ==
  IF dates \subseteq {Nil} THEN Nil
  ELSE CHOOSE d \in dates \ {Nil} : \A x \in dates \ {Nil} : x <= d

After(end, t) == end = Nil \/ end > t

\* Mutant: a status the schema's CHECK does not know.
MisspelledStatus(c, active) ==
  IF ~active THEN "expired" ELSE IF c.unsubscribed THEN "canceled" ELSE "issue"

\* Status of an entitlement with an entry under subscriptions.  Without one
\* nothing is known of its environment, so it counts as production.
ListedStatus(c, active) ==
  IF ~active THEN "expired"
  ELSE IF c.sandbox /\ ~AllowSandbox THEN "inactive"
  ELSE IF c.issue THEN "billing_issue"
  ELSE IF c.unsubscribed THEN "canceled" ELSE "active"

SubscriptionFromCustomer(c, t) ==
  LET end == IF c.product = "none" THEN Nil ELSE LaterTime({c.expires, c.grace})
      active == c.product # "none" /\ After(end, RequestDate[t])
      status == CASE c.product = "none" -> "inactive"
                  [] c.product = "listed" -> ListedStatus(c, active)
                  [] OTHER -> IF active THEN "active" ELSE "inactive"
  IN [source |-> RequestDate[t], end |-> end,
      active |-> active /\ status \notin {"inactive", "expired"}, status |-> status]

-----------------------------------------------------------------------------
Happened == [users : SUBSET User, at : Time, sandbox : BOOLEAN]

\* The event it is about, if any, the users left to fetch and the answers.
Call == [event : Event \cup {Nil}, left : SUBSET Known,
         got : UNION {[fetched -> Answer] : fetched \in SUBSET Known}, busy : BOOLEAN]

Idle == [event |-> Nil, left |-> {}, got |-> [u \in {} |-> Nil], busy |-> FALSE]

EntitlementsTypeOK ==
  /\ clock \in Time
  /\ customer \in [User -> Customer]
  /\ event \in [Event -> Happened \cup {Nil}]
  /\ acked \cup recorded \subseteq {e \in Event : event[e] # Nil}
  /\ call \in [Request -> Call]
  /\ \A r \in Request : ~call[r].busy => call[r] = Idle
  /\ subscription \in [Known -> Answer \cup {Nil}]
  /\ entitlement \in [Known -> Answer \cup {Nil}]
  /\ faults \in 0 .. MaxFaults

Init ==
  /\ clock = 0
  /\ customer = [u \in User |-> NoCustomer]
  /\ event = [e \in Event |-> Nil] /\ acked = {}
  /\ call = [r \in Request |-> Idle]
  /\ subscription = [u \in Known |-> Nil] /\ entitlement = [u \in Known |-> Nil]
  /\ recorded = {} /\ faults = 0

-----------------------------------------------------------------------------
(* RevenueCat.                                                             *)

Tick ==
  /\ clock < MaxTime
  /\ clock' = clock + 1
  /\ UNCHANGED <<customer, event, acked, call, tables, faults>>

\* Events are interchangeable until they happen.
Happens(e, users, isSandbox) ==
  /\ event[e] = Nil /\ e = CHOOSE x \in Event : event[x] = Nil
  /\ clock < MaxTime
  /\ clock' = clock + 1
  /\ event' = [event EXCEPT ![e] = [users |-> users, at |-> clock + 1, sandbox |-> isSandbox]]
  /\ UNCHANGED <<acked, call, tables, faults>>

\* A purchase, renewal, cancellation, billing issue or refund.  A sandbox
\* purchase is made by a user who has no other.
Change(e, u, c) ==
  /\ c # customer[u] /\ (c.sandbox => customer[u] = NoCustomer)
  /\ customer' = [customer EXCEPT ![u] = c]
  /\ Happens(e, {u}, c.sandbox \/ (customer[u].sandbox /\ c = NoCustomer))

\* A TRANSFER event names both users.
Transfer(e, u, v) ==
  /\ u # v /\ customer[u] # NoCustomer /\ ~customer[u].sandbox /\ ~customer[v].sandbox
  /\ customer' = [customer EXCEPT ![u] = NoCustomer, ![v] = customer[u]]
  /\ Happens(e, {u, v}, FALSE)

-----------------------------------------------------------------------------
(* Requests.                                                               *)

Begin(r, e, users) ==
  /\ ~call[r].busy
  /\ call' = [call EXCEPT ![r] = [event |-> e, left |-> users, got |-> [u \in {} |-> Nil],
                                  busy |-> TRUE]]
  /\ UNCHANGED <<provider, tables>>

BeginSync(r, u) == Begin(r, Nil, {u}) /\ UNCHANGED <<acked, faults>>

\* Mutant: only the user the event is filed under is looked at.
OneKnownUser(e) ==
  LET users == event[e].users \cap Known
  IN IF users = {} THEN {} ELSE {CHOOSE u \in users : TRUE}

\* AffectedAppUserIDs that GetUserByID finds.
KnownUsers(e) == event[e].users \cap Known

Ignored(e) == KnownUsers(e) = {} \/ (event[e].sandbox /\ ~AllowSandbox)

\* RevenueCat delivers an event until it is acknowledged, and again when the
\* acknowledgement was lost.
Delivered(e) ==
  /\ event[e] # Nil
  /\ \/ e \notin acked /\ UNCHANGED faults
     \/ e \in acked /\ faults < MaxFaults /\ faults' = faults + 1

BeginWebhook(r, e) ==
  /\ Delivered(e) /\ ~Ignored(e)
  /\ Begin(r, e, KnownUsers(e))
  /\ UNCHANGED acked

IgnoreWebhook(e) ==
  /\ event[e] # Nil /\ e \notin acked /\ Ignored(e)
  /\ acked' = acked \cup {e}
  /\ UNCHANGED <<provider, call, tables, faults>>

FetchSubscription(r, u) ==
  /\ u \in call[r].left
  /\ call' = [call EXCEPT
       ![r].left = @ \ {u},
       ![r].got = [v \in DOMAIN @ \cup {u} |->
         IF v = u THEN SubscriptionFromCustomer(customer[u], clock) ELSE call[r].got[v]]]
  /\ UNCHANGED <<provider, acked, tables, faults>>

\* The provider or the database fails: 502, 503 or 500, and nothing is stored.
RequestFails(r) ==
  /\ call[r].busy /\ faults < MaxFaults
  /\ faults' = faults + 1
  /\ call' = [call EXCEPT ![r] = Idle]
  /\ UNCHANGED <<provider, acked, tables>>

\* Mutant: the last request to arrive wins.
Overwrite(table, answers) ==
  [u \in Known |-> IF u \in DOMAIN answers THEN answers[u] ELSE table[u]]

\* upsertSubscription's statement on one of the tables: an older answer does
\* not overwrite a newer one, an equally old one does.
Upsert(table, answers) ==
  [u \in Known |->
     IF u \in DOMAIN answers /\ (table[u] = Nil \/ answers[u].source >= table[u].source)
       THEN answers[u] ELSE table[u]]

Fetched(r) == call[r].busy /\ call[r].left = {}

SyncSubscription(r) ==
  /\ r \in Sync /\ Fetched(r)
  /\ subscription' = Upsert(subscription, call[r].got)
  /\ entitlement' = Upsert(entitlement, call[r].got)
  /\ call' = [call EXCEPT ![r] = Idle]
  /\ UNCHANGED <<provider, acked, recorded, faults>>

\* Mutant: only what users see is refreshed.
ApplyToSubscriptions(r) ==
  /\ r \in Webhook /\ Fetched(r)
  /\ recorded' = recorded \cup {call[r].event}
  /\ subscription' = Upsert(subscription, call[r].got)
  /\ acked' = acked \cup {call[r].event}
  /\ call' = [call EXCEPT ![r] = Idle]
  /\ UNCHANGED <<provider, entitlement, faults>>

\* One transaction.  The answers of a repeated event are thrown away, however
\* new they are.
ApplyRevenueCatEvent(r) ==
  /\ r \in Webhook /\ Fetched(r)
  /\ recorded' = recorded \cup {call[r].event}
  /\ IF call[r].event \in recorded
       THEN UNCHANGED <<subscription, entitlement>>
       ELSE /\ subscription' = Upsert(subscription, call[r].got)
            /\ entitlement' = Upsert(entitlement, call[r].got)
  /\ acked' = acked \cup {call[r].event}
  /\ call' = [call EXCEPT ![r] = Idle]
  /\ UNCHANGED <<provider, faults>>

-----------------------------------------------------------------------------
RequestStep(r) ==
  \/ \E u \in Known : FetchSubscription(r, u)
  \/ SyncSubscription(r) \/ ApplyRevenueCatEvent(r)

Deliver(e) == IgnoreWebhook(e) \/ \E r \in Webhook : BeginWebhook(r, e)

Next ==
  \/ Tick
  \/ \E e \in Event :
       \/ \E u \in User :
            \/ \E c \in Customer : Change(e, u, c)
            \/ \E v \in User : Transfer(e, u, v)
       \/ Deliver(e)
  \/ \E r \in Request : RequestStep(r) \/ RequestFails(r)
  \/ \E r \in Sync, u \in Known : BeginSync(r, u)

Spec == Init /\ [][Next]_vars

\* Handlers have timeouts, and RevenueCat repeats what was not acknowledged.
Fairness ==
  /\ \A r \in Request : WF_vars(RequestStep(r))
  /\ \A e \in Event : WF_vars(e \notin acked /\ Deliver(e))

FairSpec == Spec /\ Fairness

-----------------------------------------------------------------------------
(* What the tables grant.                                                  *)

\* CreatePaidMediaUpload: active AND (valid_until IS NULL OR valid_until > now).
Entitled(u) ==
  entitlement[u] # Nil /\ entitlement[u].active /\ After(entitlement[u].end, clock)

\* GetSubscriptionOverview shows a period that has ended as expired.
OverviewStatus(u) ==
  CASE subscription[u] = Nil -> "inactive"
    [] subscription[u] # Nil /\ ~After(subscription[u].end, clock) -> "expired"
    [] OTHER -> subscription[u].status

\* What the user has paid for, by RevenueCat's dates: the reference.
Paid(u) ==
  LET c == customer[u]
  IN /\ c.product # "none"
     /\ c.sandbox /\ c.product = "listed" => AllowSandbox
     /\ \/ c.expires = Nil /\ c.grace = Nil
        \/ \E d \in {c.expires, c.grace} \ {Nil} : d > clock

-----------------------------------------------------------------------------
(* Properties.                                                             *)

\* A recorded event is never looked at again, so recording it must mean that
\* its change is in the rows of every user it names, a TRANSFER's both:
\* however deliveries, retries and synchronisations overlapped, these rows are
\* no older than the event.
RecordedEventsAreReflected ==
  \A e \in recorded : \A u \in event[e].users \cap Known :
    /\ subscription[u] # Nil /\ subscription[u].source >= RequestDate[event[e].at]
    /\ entitlement[u] # Nil /\ entitlement[u].source >= RequestDate[event[e].at]

\* The overview and the upload read different tables, at their own times: what
\* the overview calls active, cancelled or in trouble with billing may upload,
\* and nobody else.
OverviewAgreesWithUploads ==
  \A u \in Known : Entitled(u) <=> OverviewStatus(u) \in {"active", "canceled", "billing_issue"}

\* Once RevenueCat has nothing more to report, the database grants what was
\* paid for, without any help from clients.
WebhooksConverge == \A u \in Known : <>[](Entitled(u) <=> Paid(u))
===============================================================================
