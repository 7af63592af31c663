-------------------------- MODULE EntitlementsProofs --------------------------
(***************************************************************************)
(* Machine-checked theorems about Entitlements, for every set of users,    *)
(* events and requests, every customer and every way in which the provider *)
(* rounds its clock.                                                       *)
(***************************************************************************)
EXTENDS Entitlements, TLAPS

Row == Answer \cup {Nil}

-----------------------------------------------------------------------------
(* Answers.                                                                *)

\* The later of two dates is one of them.
LEMMA LaterTimeType ==
  ASSUME NEW a \in Time \cup {Nil}, NEW b \in Time \cup {Nil}
  PROVE  LaterTime({a, b}) \in Time \cup {Nil}
<1> DEFINE D == {a, b} \ {Nil}
<1>1. CASE {a, b} \subseteq {Nil}
  BY <1>1 DEF LaterTime
<1>2. CASE ~({a, b} \subseteq {Nil})
  <2>1. MaxTime \in Nat
    BY EntitlementsAssumption
  <2>2. \E d \in D : \A x \in D : x <= d
    <3>1. CASE a = Nil
      BY <1>2, <2>1, <3>1 DEF Time
    <3>2. CASE b = Nil
      BY <1>2, <2>1, <3>2 DEF Time
    <3>3. CASE a # Nil /\ b # Nil
      <4>1. a \in Int /\ b \in Int /\ D = {a, b}
        BY <2>1, <3>3 DEF Time
      <4>2. CASE a <= b
        BY <4>1, <4>2
      <4>3. CASE ~(a <= b)
        BY <4>1, <4>3
      <4> QED
        BY <4>2, <4>3
    <3> QED
      BY <3>1, <3>2, <3>3
  <2>3. (CHOOSE d \in D : \A x \in D : x <= d) \in D
    BY <2>2
  <2> QED
    BY <1>2, <2>3 DEF LaterTime
<1> QED
  BY <1>1, <1>2

\* What an answer grants does not depend on which of its fields is read.
Consistent(answer) ==
  answer.active <=> answer.status \in {"active", "canceled", "billing_issue"}

\* subscriptionFromCustomer returns the date it was asked at, and an answer
\* whose status says the same as its active flag.
LEMMA AnswerIsConsistent ==
  ASSUME NEW c \in Customer, NEW t \in Time
  PROVE  /\ SubscriptionFromCustomer(c, t) \in Answer
         /\ SubscriptionFromCustomer(c, t).source = RequestDate[t]
         /\ Consistent(SubscriptionFromCustomer(c, t))
<1> DEFINE end == IF c.product = "none" THEN Nil ELSE LaterTime({c.expires, c.grace})
           active == c.product # "none" /\ After(end, RequestDate[t])
           status == CASE c.product = "none" -> "inactive"
                       [] c.product = "listed" -> ListedStatus(c, active)
                       [] OTHER -> IF active THEN "active" ELSE "inactive"
           granted == active /\ status \notin {"inactive", "expired"}
<1>1. c \in [product : {"none", "listed", "unlisted"},
             expires : Time \cup {Nil}, grace : Time \cup {Nil},
             sandbox : BOOLEAN, unsubscribed : BOOLEAN, issue : BOOLEAN]
  BY EntitlementsAssumption
<1>2. end \in Time \cup {Nil}
  BY <1>1, LaterTimeType
<1>3. RequestDate[t] \in Time
  BY EntitlementsAssumption
<1>4. active \in BOOLEAN
  BY DEF After
<1> HIDE DEF end, active
<1>5. /\ status \in {"inactive", "active", "canceled", "billing_issue", "expired"}
      /\ granted <=> status \in {"active", "canceled", "billing_issue"}
      /\ granted \in BOOLEAN
  BY <1>1, <1>4 DEF ListedStatus, active
<1>6. SubscriptionFromCustomer(c, t) =
        [source |-> RequestDate[t], end |-> end, active |-> granted, status |-> status]
  BY DEF SubscriptionFromCustomer, end, active
<1> HIDE DEF status, granted
<1> QED
  BY <1>2, <1>3, <1>5, <1>6 DEF Answer, Consistent
-----------------------------------------------------------------------------
(* Types.                                                                  *)

\* An upsert keeps the row or replaces it by the answer, and the row is then no
\* older than either.
LEMMA UpsertIsMonotone ==
  ASSUME NEW table \in [Known -> Row], NEW S \in SUBSET Known, NEW answers \in [S -> Answer]
  PROVE  /\ Upsert(table, answers) \in [Known -> Row]
         /\ \A u \in Known :
              \/ Upsert(table, answers)[u] = table[u]
              \/ u \in S /\ Upsert(table, answers)[u] = answers[u]
         /\ \A u \in S :
              /\ Upsert(table, answers)[u] # Nil
              /\ Upsert(table, answers)[u].source >= answers[u].source
         /\ \A u \in Known : table[u] # Nil =>
              /\ Upsert(table, answers)[u] # Nil
              /\ Upsert(table, answers)[u].source >= table[u].source
<1> DEFINE new == Upsert(table, answers)
<1>1. Nil \notin Answer /\ DOMAIN answers = S /\ MaxTime \in Nat
  BY EntitlementsAssumption
<1>2. \A a \in Answer : a.source \in Int
  BY <1>1 DEF Answer, Time
<1>3. \A u \in Known :
        new[u] = IF u \in S /\ (table[u] = Nil \/ answers[u].source >= table[u].source)
                   THEN answers[u] ELSE table[u]
  BY <1>1 DEF Upsert
<1>4. new \in [Known -> Row]
  BY <1>1 DEF Upsert, Row
<1> HIDE DEF new
<1>5. ASSUME NEW u \in S
      PROVE  new[u] # Nil /\ new[u].source >= answers[u].source
  <2>1. answers[u] \in Answer /\ table[u] \in Row
    OBVIOUS
  <2>2. CASE table[u] = Nil \/ answers[u].source >= table[u].source
    BY <1>1, <1>2, <1>3, <2>1, <2>2
  <2>3. CASE ~(table[u] = Nil \/ answers[u].source >= table[u].source)
    BY <1>1, <1>2, <1>3, <2>1, <2>3 DEF Row
  <2> QED
    BY <2>2, <2>3
<1>6. ASSUME NEW u \in Known, table[u] # Nil
      PROVE  new[u] # Nil /\ new[u].source >= table[u].source
  <2>1. table[u] \in Answer
    BY <1>6 DEF Row
  <2>2. u \in S => answers[u] \in Answer
    OBVIOUS
  <2> QED
    BY <1>1, <1>2, <1>3, <1>6, <2>1, <2>2
<1>7. \A u \in Known : new[u] = table[u] \/ (u \in S /\ new[u] = answers[u])
  BY <1>3
<1> QED
  BY <1>4, <1>5, <1>6, <1>7 DEF new

\* What each kind of step does to the calls.
LEMMA IdleType == Idle \in Call
<1> DEFINE none == [u \in {} |-> Nil]
<1>1. none \in [{} -> Answer] /\ {} \in SUBSET Known
  OBVIOUS
<1>2. none \in UNION {[fetched -> Answer] : fetched \in SUBSET Known}
  BY <1>1
<1> HIDE DEF none
<1>3. [event |-> Nil, left |-> {}, got |-> none, busy |-> FALSE] \in Call
  BY <1>2 DEF Call
<1> QED
  BY <1>3 DEF Idle, none

\* The answers of a request are a function on some of the known users.
LEMMA AnswersType ==
  ASSUME EntitlementsTypeOK, NEW r \in Request
  PROVE  \E T \in SUBSET Known : call[r].got \in [T -> Answer]
<1>1. call[r] \in Call
  BY DEF EntitlementsTypeOK
<1> QED
  BY <1>1 DEF Call

\* A request that begins has fetched nothing yet; the others go on.
LEMMA BeginType ==
  ASSUME EntitlementsTypeOK, NEW r \in Request, NEW e \in Event \cup {Nil},
         NEW users \in SUBSET Known, Begin(r, e, users)
  PROVE  /\ call' \in [Request -> Call]
         /\ \A q \in Request : ~call'[q].busy => call'[q] = Idle
         /\ call'[r].event = e /\ call'[r].left = users /\ DOMAIN call'[r].got = {}
         /\ \A q \in Request \ {r} : call'[q] = call[q]
<1> DEFINE none == [u \in {} |-> Nil]
           new == [event |-> e, left |-> users, got |-> none, busy |-> TRUE]
<1>1. none \in [{} -> Answer] /\ {} \in SUBSET Known /\ DOMAIN none = {}
  OBVIOUS
<1>2. none \in UNION {[fetched -> Answer] : fetched \in SUBSET Known}
  BY <1>1
<1>3. call' = [call EXCEPT ![r] = new]
  BY DEF Begin
<1> HIDE DEF none
<1>4. new \in Call /\ new.busy /\ new.event = e /\ new.left = users /\ new.got = none
  BY <1>2 DEF Call
<1> HIDE DEF new
<1> QED
  BY <1>1, <1>3, <1>4 DEF EntitlementsTypeOK

\* A fetch adds one answer to its request and leaves the others alone.
LEMMA FetchType ==
  ASSUME EntitlementsTypeOK, NEW r \in Request, NEW u \in Known, FetchSubscription(r, u)
  PROVE  /\ call' \in [Request -> Call]
         /\ \A q \in Request : ~call'[q].busy => call'[q] = Idle
         /\ call'[r].event = call[r].event /\ call'[r].left = call[r].left \ {u}
         /\ call'[r].busy = call[r].busy
         /\ DOMAIN call'[r].got = DOMAIN call[r].got \cup {u}
         /\ \A v \in DOMAIN call[r].got \cup {u} :
              call'[r].got[v] = IF v = u THEN SubscriptionFromCustomer(customer[u], clock)
                                         ELSE call[r].got[v]
         /\ \A q \in Request \ {r} : call'[q] = call[q]
<1> DEFINE S == DOMAIN call[r].got
           answer == SubscriptionFromCustomer(customer[u], clock)
           got == [v \in S \cup {u} |-> IF v = u THEN answer ELSE call[r].got[v]]
           new == [call[r] EXCEPT !.left = @ \ {u}, !.got = got]
<1>1. call[r] \in Call /\ customer[u] \in Customer /\ clock \in Time
  BY EntitlementsAssumption DEF EntitlementsTypeOK
<1>2. answer \in Answer
  BY <1>1, AnswerIsConsistent
<1>3. PICK T \in SUBSET Known : call[r].got \in [T -> Answer]
  BY <1>1 DEF Call
<1>4. S \in SUBSET Known /\ \A v \in S : call[r].got[v] \in Answer
  BY <1>3
<1>5. call' = [call EXCEPT ![r] = new]
  BY DEF FetchSubscription
<1>6. call[r].busy
  <2>1. u \in call[r].left
    BY DEF FetchSubscription
  <2> QED
    BY <2>1 DEF EntitlementsTypeOK, Idle
<1> HIDE DEF answer, S
<1>7. got \in [S \cup {u} -> Answer] /\ S \cup {u} \in SUBSET Known
  BY <1>2, <1>4
<1>8. DOMAIN got = S \cup {u}
      /\ \A v \in S \cup {u} : got[v] = IF v = u THEN answer ELSE call[r].got[v]
  OBVIOUS
<1> HIDE DEF got
<1>9. got \in UNION {[fetched -> Answer] : fetched \in SUBSET Known}
  BY <1>7
<1>10. /\ new \in Call /\ new.busy = call[r].busy /\ new.event = call[r].event
       /\ new.left = call[r].left \ {u} /\ new.got = got
  BY <1>1, <1>9 DEF Call
<1> HIDE DEF new
<1>11. call'[r] = new /\ \A q \in Request \ {r} : call'[q] = call[q]
  BY <1>5 DEF EntitlementsTypeOK
<1>12. call' \in [Request -> Call]
  BY <1>5, <1>10 DEF EntitlementsTypeOK
<1>13. \A q \in Request : ~call'[q].busy => call'[q] = Idle
  BY <1>6, <1>10, <1>11 DEF EntitlementsTypeOK
<1> QED
  BY <1>8, <1>10, <1>11, <1>12, <1>13 DEF S, answer

\* A request that ends is idle.
LEMMA EndType ==
  ASSUME EntitlementsTypeOK, NEW r \in Request, call' = [call EXCEPT ![r] = Idle]
  PROVE  /\ call' \in [Request -> Call]
         /\ \A q \in Request : ~call'[q].busy => call'[q] = Idle
         /\ call'[r] = Idle /\ \A q \in Request \ {r} : call'[q] = call[q]
BY IdleType DEF EntitlementsTypeOK

\* A webhook in progress is about an event that happened.
CallsNameEvents ==
  \A r \in Webhook : call[r].busy =>
    call[r].event \in Event /\ event[call[r].event] # Nil

\* Every step writes values of the declared types.
LEMMA EntitlementTypeStep == EntitlementsTypeOK /\ CallsNameEvents /\ [Next]_vars => EntitlementsTypeOK'
<1> SUFFICES ASSUME EntitlementsTypeOK, CallsNameEvents, [Next]_vars PROVE EntitlementsTypeOK'
  OBVIOUS
<1> USE DEF provider, tables
<1>const. MaxTime \in Nat /\ MaxFaults \in Nat /\ Known \subseteq User
  BY EntitlementsAssumption
<1>1. CASE UNCHANGED vars
  BY <1>1 DEF vars, EntitlementsTypeOK
<1>2. CASE Tick
  BY <1>2, <1>const DEF Tick, EntitlementsTypeOK, Time
<1>happens. ASSUME NEW e \in Event, NEW users \in SUBSET User, NEW isSandbox \in BOOLEAN,
                   Happens(e, users, isSandbox), customer' \in [User -> Customer]
            PROVE  EntitlementsTypeOK'
  <2> DEFINE new == [users |-> users, at |-> clock + 1, sandbox |-> isSandbox]
  <2>1. event[e] = Nil /\ clock < MaxTime /\ clock' = clock + 1
        /\ event' = [event EXCEPT ![e] = new]
        /\ UNCHANGED <<acked, call, tables, faults>>
    BY <1>happens DEF Happens
  <2>2. clock + 1 \in Time
    BY <1>const, <2>1 DEF EntitlementsTypeOK, Time
  <2>3. new \in Happened
    BY <2>2 DEF Happened
  <2> HIDE DEF new
  <2>4. event' \in [Event -> Happened \cup {Nil}] /\ \A x \in Event \ {e} : event'[x] = event[x]
    BY <2>1, <2>3 DEF EntitlementsTypeOK
  <2>5. acked' \cup recorded' \subseteq {x \in Event : event'[x] # Nil}
    BY <2>1, <2>4 DEF EntitlementsTypeOK
  <2> QED
    BY <1>happens, <2>1, <2>2, <2>4, <2>5 DEF EntitlementsTypeOK
<1>3. ASSUME NEW e \in Event, NEW u \in User, NEW c \in Customer, Change(e, u, c)
      PROVE  EntitlementsTypeOK'
  <2>1. customer' \in [User -> Customer] /\ {u} \in SUBSET User
    BY <1>3 DEF Change, EntitlementsTypeOK
  <2>2. (c.sandbox \/ (customer[u].sandbox /\ c = NoCustomer)) \in BOOLEAN
    <3>1. c.sandbox \in BOOLEAN
      BY EntitlementsAssumption
    <3> QED
      BY <3>1
  <2> QED
    BY <1>3, <2>1, <2>2, <1>happens DEF Change
<1>4. ASSUME NEW e \in Event, NEW u \in User, NEW v \in User, Transfer(e, u, v)
      PROVE  EntitlementsTypeOK'
  <2>1. customer' \in [User -> Customer] /\ {u, v} \in SUBSET User
    BY <1>4, EntitlementsAssumption DEF Transfer, EntitlementsTypeOK
  <2> QED
    BY <1>4, <2>1, <1>happens DEF Transfer
<1>5. ASSUME NEW r \in Sync, NEW u \in Known, BeginSync(r, u) PROVE EntitlementsTypeOK'
  <2>1. Begin(r, Nil, {u}) /\ r \in Request /\ {u} \in SUBSET Known
    BY <1>5 DEF BeginSync, Request
  <2>2. /\ call' \in [Request -> Call]
        /\ \A q \in Request : ~call'[q].busy => call'[q] = Idle
    BY <2>1, BeginType
  <2>3. UNCHANGED <<provider, tables, acked, faults>>
    BY <1>5 DEF BeginSync, Begin
  <2> QED
    BY <2>2, <2>3 DEF EntitlementsTypeOK
<1>6. ASSUME NEW r \in Webhook, NEW e \in Event, BeginWebhook(r, e) PROVE EntitlementsTypeOK'
  <2>1. KnownUsers(e) \in SUBSET Known /\ Begin(r, e, KnownUsers(e)) /\ r \in Request
    BY <1>6 DEF BeginWebhook, KnownUsers, Request
  <2>2. faults' \in 0 .. MaxFaults
    BY <1>6, <1>const DEF BeginWebhook, Delivered, EntitlementsTypeOK
  <2>3. /\ call' \in [Request -> Call]
        /\ \A q \in Request : ~call'[q].busy => call'[q] = Idle
    BY <2>1, BeginType
  <2>4. UNCHANGED <<provider, tables, acked>>
    BY <1>6 DEF BeginWebhook, Begin
  <2> QED
    BY <2>2, <2>3, <2>4 DEF EntitlementsTypeOK
<1>7. ASSUME NEW e \in Event, IgnoreWebhook(e) PROVE EntitlementsTypeOK'
  BY <1>7 DEF IgnoreWebhook, EntitlementsTypeOK
<1>8. ASSUME NEW r \in Request, NEW u \in Known, FetchSubscription(r, u)
      PROVE  EntitlementsTypeOK'
  <2>1. /\ call' \in [Request -> Call]
        /\ \A q \in Request : ~call'[q].busy => call'[q] = Idle
    BY <1>8, FetchType
  <2> QED
    BY <1>8, <2>1 DEF FetchSubscription, EntitlementsTypeOK
<1>9. ASSUME NEW r \in Request, RequestFails(r) PROVE EntitlementsTypeOK'
  <2>1. /\ call' \in [Request -> Call]
        /\ \A q \in Request : ~call'[q].busy => call'[q] = Idle
    BY <1>9, EndType DEF RequestFails
  <2> QED
    BY <1>9, <2>1, <1>const DEF RequestFails, EntitlementsTypeOK
<1>rows. ASSUME NEW r \in Request
         PROVE  /\ Upsert(subscription, call[r].got) \in [Known -> Row]
                /\ Upsert(entitlement, call[r].got) \in [Known -> Row]
  <2>1. PICK T \in SUBSET Known : call[r].got \in [T -> Answer]
    BY AnswersType
  <2>2. subscription \in [Known -> Row] /\ entitlement \in [Known -> Row]
    BY DEF EntitlementsTypeOK, Row
  <2>3. Upsert(subscription, call[r].got) \in [Known -> Row]
    BY <2>1, <2>2, UpsertIsMonotone
  <2>4. Upsert(entitlement, call[r].got) \in [Known -> Row]
    BY <2>1, <2>2, UpsertIsMonotone
  <2> QED
    BY <2>3, <2>4
<1>10. ASSUME NEW r \in Request, SyncSubscription(r) PROVE EntitlementsTypeOK'
  <2>1. /\ call' \in [Request -> Call]
        /\ \A q \in Request : ~call'[q].busy => call'[q] = Idle
    BY <1>10, EndType DEF SyncSubscription
  <2> QED
    BY <1>10, <1>rows, <2>1 DEF SyncSubscription, EntitlementsTypeOK, Row
<1>11. ASSUME NEW r \in Request, ApplyRevenueCatEvent(r) PROVE EntitlementsTypeOK'
  <2>1. /\ call' \in [Request -> Call]
        /\ \A q \in Request : ~call'[q].busy => call'[q] = Idle
    BY <1>11, EndType DEF ApplyRevenueCatEvent
  <2>2. subscription' \in [Known -> Row] /\ entitlement' \in [Known -> Row]
    BY <1>11, <1>rows DEF ApplyRevenueCatEvent, EntitlementsTypeOK, Row
  <2>3. call[r].event \in Event /\ event[call[r].event] # Nil
    BY <1>11 DEF ApplyRevenueCatEvent, Fetched, CallsNameEvents
  <2> QED
    BY <1>11, <2>1, <2>2, <2>3 DEF ApplyRevenueCatEvent, EntitlementsTypeOK, Row
<1>12. ASSUME NEW r \in Request, RequestStep(r) \/ RequestFails(r) PROVE EntitlementsTypeOK'
  BY <1>8, <1>9, <1>10, <1>11, <1>12 DEF RequestStep
<1>13. ASSUME NEW e \in Event, Deliver(e) PROVE EntitlementsTypeOK'
  BY <1>6, <1>7, <1>13 DEF Deliver
<1> QED
  BY <1>1, <1>2, <1>3, <1>4, <1>5, <1>12, <1>13 DEF Next

-----------------------------------------------------------------------------
(* What answers and rows know.                                             *)

EventsArePast == \A e \in Event : event[e] # Nil => event[e].at <= clock

\* A webhook's answers are no older than its event, whose users it has fetched
\* or is going to fetch.
AnswersAreRecent ==
  \A r \in Webhook : call[r].busy =>
    /\ KnownUsers(call[r].event) \subseteq call[r].left \cup DOMAIN call[r].got
    /\ \A u \in DOMAIN call[r].got :
         call[r].got[u].source >= RequestDate[event[call[r].event].at]

\* Both tables hold the same answers, each of which agrees with itself.
AnswersAgree ==
  /\ \A r \in Request : \A u \in DOMAIN call[r].got : Consistent(call[r].got[u])
  /\ subscription = entitlement
  /\ \A u \in Known : subscription[u] # Nil => Consistent(subscription[u])

EntitlementsInv ==
  /\ EntitlementsTypeOK /\ CallsNameEvents
  /\ EventsArePast /\ AnswersAreRecent /\ AnswersAgree /\ RecordedEventsAreReflected

Rest == CallsNameEvents /\ EventsArePast /\ AnswersAreRecent /\ AnswersAgree
          /\ RecordedEventsAreReflected

\* Time passes and events happen; what has happened stays as it was.
LEMMA ProviderStep ==
  ASSUME EntitlementsInv, UNCHANGED <<call, tables>>, clock' >= clock, clock' \in Time,
         \A e \in Event : \/ event'[e] = event[e]
                          \/ event[e] = Nil /\ event'[e].at <= clock'
  PROVE  Rest'
<1> USE DEF tables
<1>1. \A e \in Event : event[e] # Nil => event'[e] = event[e]
  OBVIOUS
<1>2. CallsNameEvents'
  BY <1>1 DEF EntitlementsInv, CallsNameEvents
<1>3. EventsArePast'
  <2>1. \A e \in Event : event[e] # Nil => event[e].at \in Int
    BY EntitlementsAssumption DEF EntitlementsInv, EntitlementsTypeOK, Happened, Time
  <2>2. clock \in Int /\ clock' \in Int
    BY EntitlementsAssumption DEF EntitlementsInv, EntitlementsTypeOK, Time
  <2> QED
    BY <2>1, <2>2 DEF EntitlementsInv, EventsArePast
<1>4. AnswersAreRecent'
  BY <1>1 DEF EntitlementsInv, AnswersAreRecent, CallsNameEvents, KnownUsers
<1>5. AnswersAgree'
  BY DEF EntitlementsInv, AnswersAgree
<1>6. RecordedEventsAreReflected'
  <2>1. \A e \in recorded : e \in Event /\ event[e] # Nil
    BY DEF EntitlementsInv, EntitlementsTypeOK
  <2> QED
    BY <1>1, <2>1 DEF EntitlementsInv, RecordedEventsAreReflected
<1> QED
  BY <1>2, <1>3, <1>4, <1>5, <1>6 DEF Rest

\* A request is over, or none has moved.
LEMMA CallsEnd ==
  ASSUME EntitlementsInv, NEW r \in Request, UNCHANGED <<clock, event>>,
         call' = [call EXCEPT ![r] = Idle]
  PROVE  /\ CallsNameEvents' /\ EventsArePast' /\ AnswersAreRecent'
         /\ \A q \in Request : \A u \in DOMAIN call'[q].got : Consistent(call'[q].got[u])
<1>1. /\ call'[r] = Idle /\ \A q \in Request \ {r} : call'[q] = call[q]
      /\ Webhook \subseteq Request
  BY EndType DEF EntitlementsInv, Request
<1>2. ~Idle.busy /\ DOMAIN Idle.got = {}
  BY DEF Idle
<1> QED
  BY <1>1, <1>2 DEF EntitlementsInv, CallsNameEvents, EventsArePast, AnswersAreRecent,
     AnswersAgree, KnownUsers

\* The users an event names are looked up once and fetched after it happened.
LEMMA BeginStep ==
  ASSUME EntitlementsInv, NEW r \in Request, NEW e \in Event \cup {Nil},
         NEW users \in SUBSET Known, Begin(r, e, users),
         r \in Webhook => e \in Event /\ event[e] # Nil /\ users = KnownUsers(e)
  PROVE  Rest'
<1>1. /\ call'[r].event = e /\ call'[r].left = users /\ DOMAIN call'[r].got = {}
      /\ \A q \in Request \ {r} : call'[q] = call[q]
  BY BeginType DEF EntitlementsInv
<1>2. UNCHANGED <<clock, event, subscription, entitlement, recorded>> /\ Webhook \subseteq Request
  BY DEF Begin, provider, tables, Request
<1>3. CallsNameEvents' /\ EventsArePast'
  BY <1>1, <1>2 DEF EntitlementsInv, CallsNameEvents, EventsArePast
<1>4. AnswersAreRecent'
  BY <1>1, <1>2 DEF EntitlementsInv, AnswersAreRecent, KnownUsers
<1>5. AnswersAgree' /\ RecordedEventsAreReflected'
  BY <1>1, <1>2 DEF EntitlementsInv, AnswersAgree, RecordedEventsAreReflected
<1> QED
  BY <1>3, <1>4, <1>5 DEF Rest

\* What is fetched now is no older than the event the request is about.
LEMMA FetchStep ==
  ASSUME EntitlementsInv, NEW r \in Request, NEW u \in Known, FetchSubscription(r, u)
  PROVE  Rest'
<1> DEFINE answer == SubscriptionFromCustomer(customer[u], clock)
<1>1. /\ call'[r].event = call[r].event /\ call'[r].left = call[r].left \ {u}
      /\ call'[r].busy = call[r].busy
      /\ DOMAIN call'[r].got = DOMAIN call[r].got \cup {u}
      /\ \A v \in DOMAIN call[r].got \cup {u} :
           call'[r].got[v] = IF v = u THEN answer ELSE call[r].got[v]
      /\ \A q \in Request \ {r} : call'[q] = call[q]
  BY FetchType DEF EntitlementsInv
<1>2. UNCHANGED <<clock, event, subscription, entitlement, recorded>> /\ Webhook \subseteq Request
  BY DEF FetchSubscription, provider, tables, Request
<1>3. answer.source = RequestDate[clock] /\ Consistent(answer)
  BY AnswerIsConsistent, EntitlementsAssumption DEF EntitlementsInv, EntitlementsTypeOK
<1> HIDE DEF answer
<1>4. ASSUME NEW e \in Event, event[e] # Nil PROVE answer.source >= RequestDate[event[e].at]
  <2>1. event[e].at \in Time /\ clock \in Time /\ event[e].at <= clock
    BY <1>4 DEF EntitlementsInv, EntitlementsTypeOK, Happened, EventsArePast
  <2>2. RequestDate[event[e].at] <= RequestDate[clock]
    BY <2>1, EntitlementsAssumption
  <2>3. RequestDate[event[e].at] \in Int /\ RequestDate[clock] \in Int
    BY <2>1, EntitlementsAssumption DEF Time
  <2> QED
    BY <1>3, <2>2, <2>3
<1>5. CallsNameEvents' /\ EventsArePast'
  BY <1>1, <1>2 DEF EntitlementsInv, CallsNameEvents, EventsArePast
<1>6. AnswersAreRecent'
  <2>1. ASSUME NEW q \in Webhook, call'[q].busy
        PROVE  /\ KnownUsers(call[q].event) \subseteq call'[q].left \cup DOMAIN call'[q].got
               /\ \A v \in DOMAIN call'[q].got :
                    call'[q].got[v].source >= RequestDate[event[call[q].event].at]
    <3>1. CASE q = r
      BY <1>1, <1>2, <1>4, <2>1, <3>1 DEF EntitlementsInv, AnswersAreRecent, CallsNameEvents
    <3>2. CASE q # r
      BY <1>1, <1>2, <2>1, <3>2 DEF EntitlementsInv, AnswersAreRecent
    <3> QED
      BY <3>1, <3>2
  <2>2. \A q \in Webhook : call'[q].event = call[q].event
    BY <1>1, <1>2
  <2> QED
    BY <1>2, <2>1, <2>2 DEF AnswersAreRecent, KnownUsers
<1>7. AnswersAgree' /\ RecordedEventsAreReflected'
  BY <1>1, <1>2, <1>3 DEF EntitlementsInv, AnswersAgree, RecordedEventsAreReflected
<1> QED
  BY <1>5, <1>6, <1>7 DEF Rest

\* An upsert of consistent answers keeps the tables together and their rows
\* as recent as they were.
LEMMA UpsertStep ==
  ASSUME EntitlementsInv, NEW r \in Request,
         subscription' = Upsert(subscription, call[r].got),
         entitlement' = Upsert(entitlement, call[r].got)
  PROVE  /\ subscription' = entitlement'
         /\ \A u \in Known : subscription'[u] # Nil => Consistent(subscription'[u])
         /\ \A u \in Known : subscription[u] # Nil =>
              subscription'[u] # Nil /\ subscription'[u].source >= subscription[u].source
         /\ \A u \in DOMAIN call[r].got :
              subscription'[u] # Nil /\ subscription'[u].source >= call[r].got[u].source
         /\ \A u \in Known : subscription'[u] # Nil => subscription'[u].source \in Int
<1>1. PICK S \in SUBSET Known : call[r].got \in [S -> Answer]
  BY AnswersType DEF EntitlementsInv
<1>2. subscription \in [Known -> Row] /\ DOMAIN call[r].got = S
  BY <1>1 DEF EntitlementsInv, EntitlementsTypeOK, Row
<1>3. subscription = entitlement
  BY DEF EntitlementsInv, AnswersAgree
<1>4. /\ subscription' \in [Known -> Row]
      /\ \A u \in Known :
           subscription'[u] = subscription[u] \/ (u \in S /\ subscription'[u] = call[r].got[u])
      /\ \A u \in S :
           subscription'[u] # Nil /\ subscription'[u].source >= call[r].got[u].source
      /\ \A u \in Known : subscription[u] # Nil =>
           subscription'[u] # Nil /\ subscription'[u].source >= subscription[u].source
  <2> DEFINE table == subscription
             answers == call[r].got
             new == Upsert(table, answers)
  <2>1. table \in [Known -> Row] /\ answers \in [S -> Answer] /\ S \in SUBSET Known
    BY <1>1, <1>2
  <2>2. subscription' = new
    OBVIOUS
  <2> HIDE DEF table, answers
  <2>3. /\ new \in [Known -> Row]
        /\ \A u \in Known : new[u] = table[u] \/ (u \in S /\ new[u] = answers[u])
        /\ \A u \in S : new[u] # Nil /\ new[u].source >= answers[u].source
        /\ \A u \in Known : table[u] # Nil => new[u] # Nil /\ new[u].source >= table[u].source
    BY <2>1, UpsertIsMonotone
  <2> HIDE DEF new
  <2> QED
    BY <2>2, <2>3 DEF table, answers
<1>5. \A u \in Known : subscription'[u] # Nil => Consistent(subscription'[u])
  BY <1>2, <1>4 DEF EntitlementsInv, AnswersAgree
<1>6. \A u \in Known : subscription'[u] # Nil => subscription'[u].source \in Int
  <2>1. \A a \in Answer : a.source \in Int
    BY EntitlementsAssumption DEF Answer, Time
  <2> QED
    BY <1>4, <2>1 DEF Row
<1> QED
  BY <1>2, <1>3, <1>4, <1>5, <1>6

\* A synchronisation keeps what recorded events put into the rows.
LEMMA SyncStep ==
  ASSUME EntitlementsInv, NEW r \in Request, SyncSubscription(r)
  PROVE  Rest'
<1>1. /\ subscription' = Upsert(subscription, call[r].got)
      /\ entitlement' = Upsert(entitlement, call[r].got)
      /\ call' = [call EXCEPT ![r] = Idle]
      /\ UNCHANGED <<clock, event, recorded>>
  BY DEF SyncSubscription, provider
<1>2. AnswersAgree'
  BY <1>1, CallsEnd, UpsertStep DEF AnswersAgree
<1>3. RecordedEventsAreReflected'
  <2>1. ASSUME NEW e \in recorded, NEW u \in event[e].users \cap Known
        PROVE  subscription'[u] # Nil /\ subscription'[u].source >= RequestDate[event[e].at]
    <3>1. subscription[u] # Nil /\ subscription[u].source >= RequestDate[event[e].at]
      BY DEF EntitlementsInv, RecordedEventsAreReflected
    <3>2. subscription'[u] # Nil /\ subscription'[u].source >= subscription[u].source
          /\ subscription'[u].source \in Int
      BY <1>1, <3>1, UpsertStep
    <3>3. subscription[u].source \in Int /\ RequestDate[event[e].at] \in Int
      <4>1. event[e] # Nil /\ event[e] \in Happened \cup {Nil} /\ subscription[u] \in Answer
        BY <3>1 DEF EntitlementsInv, EntitlementsTypeOK
      <4> QED
        BY <4>1, EntitlementsAssumption DEF Happened, Answer, Time
    <3> QED
      BY <3>1, <3>2, <3>3
  <2>2. subscription' = entitlement'
    BY <1>1, UpsertStep
  <2> QED
    BY <1>1, <2>1, <2>2 DEF RecordedEventsAreReflected
<1> QED
  BY <1>1, <1>2, <1>3, CallsEnd DEF Rest

\* A webhook records its event and puts its answers into the rows at once.
LEMMA ApplyStep ==
  ASSUME EntitlementsInv, NEW r \in Request, ApplyRevenueCatEvent(r)
  PROVE  Rest'
<1> DEFINE new == call[r].event
<1>1. /\ r \in Webhook /\ call[r].busy /\ call[r].left = {}
      /\ recorded' = recorded \cup {new}
      /\ call' = [call EXCEPT ![r] = Idle]
      /\ UNCHANGED <<clock, event>>
  BY DEF ApplyRevenueCatEvent, Fetched, provider
<1>2. CASE new \in recorded
  <2>1. UNCHANGED <<subscription, entitlement, recorded>>
    BY <1>1, <1>2 DEF ApplyRevenueCatEvent
  <2> QED
    BY <1>1, <2>1, CallsEnd
       DEF Rest, EntitlementsInv, AnswersAgree, RecordedEventsAreReflected
<1>3. CASE new \notin recorded
  <2>1. /\ subscription' = Upsert(subscription, call[r].got)
        /\ entitlement' = Upsert(entitlement, call[r].got)
    BY <1>3 DEF ApplyRevenueCatEvent
  <2>2. AnswersAgree'
    BY <1>1, <2>1, CallsEnd, UpsertStep DEF AnswersAgree
  <2>3. new \in Event /\ event[new] # Nil
    BY <1>1 DEF EntitlementsInv, CallsNameEvents
  <2>dates. ASSUME NEW e \in Event, event[e] # Nil PROVE RequestDate[event[e].at] \in Int
    BY <2>dates, EntitlementsAssumption DEF EntitlementsInv, EntitlementsTypeOK, Happened, Time
  <2>4. ASSUME NEW e \in recorded', NEW u \in event[e].users \cap Known
        PROVE  subscription'[u] # Nil /\ subscription'[u].source >= RequestDate[event[e].at]
    <3>1. CASE e \in recorded
      <4>1. subscription[u] # Nil /\ subscription[u].source >= RequestDate[event[e].at]
        BY <3>1 DEF EntitlementsInv, RecordedEventsAreReflected
      <4>2. subscription'[u] # Nil /\ subscription'[u].source >= subscription[u].source
            /\ subscription'[u].source \in Int
        BY <2>1, <4>1, UpsertStep
      <4>3. e \in Event /\ event[e] # Nil /\ subscription[u] \in Answer
        BY <3>1, <4>1 DEF EntitlementsInv, EntitlementsTypeOK
      <4>4. subscription[u].source \in Int /\ RequestDate[event[e].at] \in Int
        BY <4>3, <2>dates, EntitlementsAssumption DEF Answer, Time
      <4> QED
        BY <4>1, <4>2, <4>4
    <3>2. CASE e = new
      <4>1. u \in DOMAIN call[r].got /\ call[r].got[u].source >= RequestDate[event[new].at]
        BY <1>1, <3>2 DEF EntitlementsInv, AnswersAreRecent, KnownUsers
      <4>2. subscription'[u] # Nil /\ subscription'[u].source >= call[r].got[u].source
            /\ subscription'[u].source \in Int
        BY <2>1, <4>1, UpsertStep
      <4>3. call[r].got[u].source \in Int
        <5>1. PICK S \in SUBSET Known : call[r].got \in [S -> Answer]
          BY AnswersType DEF EntitlementsInv
        <5>2. call[r].got[u] \in Answer
          BY <4>1, <5>1
        <5> QED
          BY <5>2, EntitlementsAssumption DEF Answer, Time
      <4> QED
        BY <2>3, <2>dates, <3>2, <4>1, <4>2, <4>3
    <3> QED
      BY <1>1, <3>1, <3>2
  <2>5. subscription' = entitlement'
    BY <2>1, UpsertStep
  <2>6. RecordedEventsAreReflected'
    BY <1>1, <2>4, <2>5 DEF RecordedEventsAreReflected
  <2> QED
    BY <1>1, <2>2, <2>6, CallsEnd DEF Rest
<1> QED
  BY <1>2, <1>3

\* Every step preserves the invariant.
LEMMA EntitlementsInvStep == EntitlementsInv /\ [Next]_vars => EntitlementsInv'
<1> SUFFICES ASSUME EntitlementsInv, [Next]_vars PROVE Rest'
  BY EntitlementTypeStep DEF EntitlementsInv, Rest
<1> USE DEF provider, tables
<1>time. clock \in Time /\ clock \in Int /\ clock <= clock
  BY EntitlementsAssumption DEF EntitlementsInv, EntitlementsTypeOK, Time
<1>1. CASE UNCHANGED vars
  <2>1. UNCHANGED <<call, tables, clock, event>>
    BY <1>1 DEF vars
  <2> QED
    BY <1>time, <2>1, ProviderStep
<1>type. EntitlementsTypeOK /\ EntitlementsTypeOK'
  BY EntitlementTypeStep DEF EntitlementsInv
<1>later. ASSUME clock' = clock + 1 PROVE clock' >= clock /\ clock' \in Time
  BY <1>time, <1>type, <1>later DEF EntitlementsTypeOK
<1>2. CASE Tick
  <2>1. UNCHANGED <<call, tables, event>> /\ clock' = clock + 1
    BY <1>2 DEF Tick
  <2> QED
    BY <1>later, <2>1, ProviderStep
<1>happens. ASSUME NEW e \in Event, NEW users, NEW isSandbox, Happens(e, users, isSandbox)
            PROVE  Rest'
  <2>1. /\ UNCHANGED <<call, tables>> /\ clock' = clock + 1 /\ event[e] = Nil
        /\ event' = [event EXCEPT ![e] = [users |-> users, at |-> clock + 1, sandbox |-> isSandbox]]
    BY <1>happens DEF Happens
  <2>2. event'[e].at = clock' /\ \A x \in Event \ {e} : event'[x] = event[x]
    BY <1>type, <2>1 DEF EntitlementsTypeOK
  <2>3. clock' <= clock'
    BY <1>time, <2>1
  <2>4. \A x \in Event : event'[x] = event[x] \/ (event[x] = Nil /\ event'[x].at <= clock')
    BY <2>1, <2>2, <2>3
  <2> QED
    BY <1>later, <2>1, <2>4, ProviderStep
<1>3. ASSUME NEW e \in Event, NEW u \in User, NEW c \in Customer, Change(e, u, c) PROVE Rest'
  BY <1>3, <1>happens DEF Change
<1>4. ASSUME NEW e \in Event, NEW u \in User, NEW v \in User, Transfer(e, u, v) PROVE Rest'
  BY <1>4, <1>happens DEF Transfer
<1>5. ASSUME NEW r \in Sync, NEW u \in Known, BeginSync(r, u) PROVE Rest'
  <2>1. r \in Request /\ r \notin Webhook /\ {u} \in SUBSET Known /\ Begin(r, Nil, {u})
    BY <1>5, EntitlementsAssumption DEF BeginSync, Request
  <2> QED
    BY <2>1, BeginStep
<1>6. ASSUME NEW e \in Event, Deliver(e) PROVE Rest'
  <2>1. CASE IgnoreWebhook(e)
    <3>1. UNCHANGED <<call, tables, clock, event>>
      BY <2>1 DEF IgnoreWebhook
    <3> QED
      BY <1>time, <3>1, ProviderStep
  <2>2. ASSUME NEW r \in Webhook, BeginWebhook(r, e) PROVE Rest'
    <3>1. /\ r \in Request /\ KnownUsers(e) \in SUBSET Known /\ Begin(r, e, KnownUsers(e))
          /\ event[e] # Nil
      BY <2>2 DEF BeginWebhook, Delivered, KnownUsers, Request
    <3> QED
      BY <3>1, BeginStep
  <2> QED
    BY <1>6, <2>1, <2>2 DEF Deliver
<1>7. ASSUME NEW r \in Request, RequestFails(r) PROVE Rest'
  <2>1. call' = [call EXCEPT ![r] = Idle] /\ UNCHANGED <<clock, event, subscription, entitlement, recorded>>
    BY <1>7 DEF RequestFails
  <2> QED
    BY <2>1, CallsEnd DEF Rest, EntitlementsInv, AnswersAgree, RecordedEventsAreReflected
<1>8. ASSUME NEW r \in Request, RequestStep(r) PROVE Rest'
  BY <1>8, FetchStep, SyncStep, ApplyStep DEF RequestStep
<1> QED
  BY <1>1, <1>2, <1>3, <1>4, <1>5, <1>6, <1>7, <1>8 DEF Next

-----------------------------------------------------------------------------
(* Theorems.                                                               *)

\* Nothing has happened, been fetched or been stored at the start.
LEMMA EntitlementsInit == Init => EntitlementsInv
<1> SUFFICES ASSUME Init PROVE EntitlementsInv
  OBVIOUS
<1>1. EntitlementsTypeOK
  BY IdleType, EntitlementsAssumption DEF Init, EntitlementsTypeOK, Time
<1>2. \A r \in Request : ~call[r].busy /\ DOMAIN call[r].got = {}
  BY DEF Init, Idle
<1>3. CallsNameEvents /\ EventsArePast /\ AnswersAreRecent
  BY <1>2 DEF Init, CallsNameEvents, EventsArePast, AnswersAreRecent, Request
<1>4. AnswersAgree /\ RecordedEventsAreReflected
  BY <1>2 DEF Init, AnswersAgree, RecordedEventsAreReflected
<1> QED
  BY <1>1, <1>3, <1>4 DEF EntitlementsInv

\* Rows and requests are of the types the schema and the handlers declare.
THEOREM EntitlementTypes == Spec => []EntitlementsTypeOK
<1>1. EntitlementsInv => EntitlementsTypeOK
  BY DEF EntitlementsInv
<1> QED
  BY <1>1, EntitlementsInit, EntitlementsInvStep, PTL DEF Spec

\* However deliveries, retries and synchronisations overlap, an event that is
\* never looked at again is in the rows of all its users.
THEOREM EventsAreReflected == Spec => []RecordedEventsAreReflected
<1>1. EntitlementsInv => RecordedEventsAreReflected
  BY DEF EntitlementsInv
<1> QED
  BY <1>1, EntitlementsInit, EntitlementsInvStep, PTL DEF Spec

\* What the overview shows and what the upload allows are read from different
\* columns of different tables, and agree.
THEOREM OverviewIsHonest == Spec => []OverviewAgreesWithUploads
<1>1. EntitlementsInv => OverviewAgreesWithUploads
  BY DEF EntitlementsInv, AnswersAgree, Consistent, OverviewAgreesWithUploads, Entitled,
         OverviewStatus
<1> QED
  BY <1>1, EntitlementsInit, EntitlementsInvStep, PTL DEF Spec
=============================================================================
