------------------------------ MODULE Allowance ------------------------------
(***************************************************************************)
(* Upload reservations and the limits on them: CreatePaidMediaUpload,      *)
(* CompletePaidMediaUpload and ReleaseUploadReservation                    *)
(* (internal/store/subscriptions.go), CreateSubmission                     *)
(* (internal/store/submissions.go) and the HTTP handlers that call them    *)
(* (internal/httpapi/content_handlers.go).                                 *)
(*                                                                         *)
(* Creations are serialised by the user's row and a global advisory lock,  *)
(* and the other transactions by the rows of their upload, so each is one  *)
(* action.  What is not atomic is time: a handler reads the clock, and a   *)
(* transaction fixes now(), before they wait for those locks.              *)
(***************************************************************************)
EXTENDS Integers, FiniteSets

CONSTANTS
  User,
  Upload,           \* media_uploads rows, each with its reservation
  NoUser,
  DayLength,        \* ticks in a UTC day
  MonthLength,      \* days in a month
  DailyLimit, MonthlyLimit, GlobalLimit,
  UploadTTL,        \* life of a reservation before the upload is complete
  ReservationTTL,   \* its life from then on
  MaxLag,           \* how old the time a transaction uses may be at its commit
  MaxTime           \* bound: ticks in a behaviour

ASSUME AllowanceAssumption ==
  /\ {DailyLimit, MonthlyLimit, GlobalLimit, MaxLag, MaxTime} \subseteq Nat
  /\ {DayLength, MonthLength, UploadTTL, ReservationTTL} \subseteq Nat \ {0}
  /\ NoUser \notin User

VARIABLES
  clock,
  owner,            \* Upload -> user_id
  upload,           \* Upload -> media_uploads.status, "absent" without a row
  uploadExpires,    \* Upload -> media_uploads.expires_at
  issued,           \* Upload -> when its owner was told its id
  reservation,      \* Upload -> submission_usage_reservations.status
  expires,          \* Upload -> its expires_at
  consumedAt,       \* Upload -> its consumed_at
  entitled,         \* users whose entitlement is active and valid
  straddled         \* history: uploads one of whose transactions used a time
                    \* that was over when it committed

mediaVars == <<owner, upload, uploadExpires, issued>>
reservationVars == <<reservation, expires, consumedAt>>
vars == <<clock, mediaVars, reservationVars, entitled, straddled>>

Never == -1

AllowanceTypeOK ==
  /\ clock \in 0 .. MaxTime
  /\ owner \in [Upload -> User \cup {NoUser}]
  /\ upload \in [Upload -> {"absent", "pending", "uploaded", "consumed", "expired"}]
  /\ uploadExpires \in [Upload -> Int]
  /\ issued \in [Upload -> Int]
  /\ reservation \in [Upload -> {"none", "reserved", "consumed", "released"}]
  /\ expires \in [Upload -> Int]
  /\ consumedAt \in [Upload -> Int]
  /\ entitled \subseteq User
  /\ straddled \subseteq Upload

Init ==
  /\ clock = 0
  /\ owner = [u \in Upload |-> NoUser]
  /\ upload = [u \in Upload |-> "absent"]
  /\ uploadExpires = [u \in Upload |-> Never]
  /\ issued = [u \in Upload |-> Never]
  /\ reservation = [u \in Upload |-> "none"]
  /\ expires = [u \in Upload |-> Never]
  /\ consumedAt = [u \in Upload |-> Never]
  /\ entitled = {}
  /\ straddled = {}

-----------------------------------------------------------------------------
(* usageWindows and the three counts.                                      *)

Day(t) == t \div DayLength
Month(t) == Day(t) \div MonthLength

\* A time a transaction that commits now may have read.
Seen(t) == t \in 0 .. clock /\ clock - t <= MaxLag

\* The same for a request that names the upload.
SeenSince(u, t) == Seen(t) /\ t >= issued[u]

\* What may have happened between that time and the commit: its day is over,
\* or the upload's reservation has expired.
DayIsOver(t) == Day(t) # Day(clock)
HasExpired(u) == expires[u] <= clock
Straddling(u, late) == straddled' = IF late THEN straddled \cup {u} ELSE straddled

Pending(t) == {u \in Upload : reservation[u] = "reserved" /\ expires[u] > t}
ConsumedOn(d) == {u \in Upload : reservation[u] = "consumed" /\ Day(consumedAt[u]) = d}
ConsumedIn(m) == {u \in Upload : reservation[u] = "consumed" /\ Month(consumedAt[u]) = m}
Of(user) == {u \in Upload : owner[u] = user}

\* Mutant: reservations that are not consumed yet are not counted.
DailyConsumed(user, t) == Cardinality(ConsumedOn(Day(t)) \cap Of(user))

DailyUsed(user, t) == Cardinality((ConsumedOn(Day(t)) \cup Pending(t)) \cap Of(user))
MonthlyUsed(user, t) == Cardinality((ConsumedIn(Month(t)) \cup Pending(t)) \cap Of(user))
GlobalDailyUsed(t) == Cardinality(ConsumedOn(Day(t)) \cup Pending(t))

-----------------------------------------------------------------------------
Tick ==
  /\ clock < MaxTime
  /\ clock' = clock + 1
  /\ UNCHANGED <<mediaVars, reservationVars, entitled, straddled>>

\* A purchase, a renewal or an expiry reported by RevenueCat.
SetEntitlement(user) ==
  /\ entitled' \in {entitled \cup {user}, entitled \ {user}}
  /\ UNCHANGED <<clock, mediaVars, reservationVars, straddled>>

\* createUpload and CreatePaidMediaUpload.
CreatePaidMediaUpload(u, user, t) ==
  /\ Seen(t) /\ upload[u] = "absent"
  /\ user \in entitled
  /\ GlobalDailyUsed(t) < GlobalLimit
  /\ DailyUsed(user, t) < DailyLimit
  /\ MonthlyUsed(user, t) < MonthlyLimit
  /\ owner' = [owner EXCEPT ![u] = user]
  /\ upload' = [upload EXCEPT ![u] = "pending"]
  /\ uploadExpires' = [uploadExpires EXCEPT ![u] = t + UploadTTL]
  /\ issued' = [issued EXCEPT ![u] = clock]
  /\ reservation' = [reservation EXCEPT ![u] = "reserved"]
  /\ expires' = [expires EXCEPT ![u] = t + UploadTTL]
  /\ Straddling(u, DayIsOver(t))
  /\ UNCHANGED <<clock, consumedAt, entitled>>

\* Mutant: a status the schema's CHECK does not know.
ReleaseAsAbandoned(u) ==
  /\ upload[u] = "pending" /\ reservation[u] = "reserved"
  /\ reservation' = [reservation EXCEPT ![u] = "abandoned"]
  /\ upload' = [upload EXCEPT ![u] = "expired"]
  /\ UNCHANGED <<clock, owner, uploadExpires, issued, expires, consumedAt, entitled, straddled>>

\* The handler gives the reservation back when it cannot sign the URL; the
\* user never learns the upload's id, so nobody completes it meanwhile.
ReleaseUploadReservation(u) ==
  /\ upload[u] = "pending" /\ reservation[u] = "reserved"
  /\ reservation' = [reservation EXCEPT ![u] = "released"]
  /\ upload' = [upload EXCEPT ![u] = "expired"]
  /\ UNCHANGED <<clock, owner, uploadExpires, issued, expires, consumedAt, entitled, straddled>>

\* completeUpload: the object is there, of the declared size; the reservation
\* is extended without a look at its own expiry.
CompletePaidMediaUpload(u, t) ==
  /\ SeenSince(u, t)
  /\ upload[u] = "pending" /\ uploadExpires[u] > t
  /\ reservation[u] = "reserved"
  /\ upload' = [upload EXCEPT ![u] = "uploaded"]
  /\ expires' = [expires EXCEPT ![u] = t + ReservationTTL]
  /\ Straddling(u, HasExpired(u))
  /\ UNCHANGED <<clock, owner, uploadExpires, issued, reservation, consumedAt, entitled>>

\* Mutant: the reservation's row is not marked.
SubmitUnconsumed(u, t) ==
  /\ SeenSince(u, t) /\ upload[u] = "uploaded" /\ owner[u] \in entitled
  /\ reservation[u] = "reserved" /\ expires[u] > t
  /\ upload' = [upload EXCEPT ![u] = "consumed"]
  /\ UNCHANGED <<clock, owner, uploadExpires, issued, reservationVars, entitled, straddled>>

\* The part of CreateSubmission about the upload and its reservation.
CreateSubmission(u, t) ==
  /\ SeenSince(u, t)
  /\ upload[u] = "uploaded" /\ owner[u] \in entitled
  /\ reservation[u] = "reserved" /\ expires[u] > t
  /\ upload' = [upload EXCEPT ![u] = "consumed"]
  /\ reservation' = [reservation EXCEPT ![u] = "consumed"]
  /\ consumedAt' = [consumedAt EXCEPT ![u] = t]
  /\ Straddling(u, HasExpired(u))
  /\ UNCHANGED <<clock, owner, uploadExpires, issued, expires, entitled>>

\* maintenance.cleanup expires an upload nobody completed.
Sweep(u) ==
  /\ upload[u] = "pending" /\ uploadExpires[u] < clock
  /\ upload' = [upload EXCEPT ![u] = "expired"]
  /\ UNCHANGED <<clock, owner, uploadExpires, issued, reservationVars, entitled, straddled>>

Next ==
  \/ Tick
  \/ \E user \in User : SetEntitlement(user)
  \/ \E u \in Upload :
       \/ ReleaseUploadReservation(u) \/ Sweep(u)
       \/ \E t \in 0 .. MaxTime :
            \/ \E user \in User : CreatePaidMediaUpload(u, user, t)
            \/ CompletePaidMediaUpload(u, t) \/ CreateSubmission(u, t)

Spec == Init /\ [][Next]_vars

-----------------------------------------------------------------------------
(* Properties.                                                             *)

\* "One reservation per UTC day and 30 per UTC calendar month", and a ceiling
\* for the platform (README.md:239): however reservations expire, are extended
\* and are carried over midnight, and however late transactions commit, no
\* window holds more submissions than its limit.  Beyond it are only uploads
\* created across midnight, and uploads completed or submitted by a transaction
\* during which their reservation expired.
LimitsHold ==
  /\ \A user \in User :
       /\ \A d \in 0 .. Day(MaxTime) :
            Cardinality((ConsumedOn(d) \cap Of(user)) \ straddled) <= DailyLimit
       /\ \A m \in 0 .. Month(MaxTime) :
            Cardinality((ConsumedIn(m) \cap Of(user)) \ straddled) <= MonthlyLimit
  /\ \A d \in 0 .. Day(MaxTime) : Cardinality(ConsumedOn(d) \ straddled) <= GlobalLimit

\* An upload and its reservation move together: a completed upload holds one
\* that was not given back, and a submission has consumed exactly its own.
UploadHoldsReservation ==
  \A u \in Upload :
    /\ upload[u] = "uploaded" => reservation[u] = "reserved"
    /\ upload[u] = "consumed" <=> reservation[u] = "consumed"
=============================================================================
