--------------------------- MODULE AllowanceProofs ---------------------------
(***************************************************************************)
(* Proofs about Allowance, for every set of users and uploads, every limit *)
(* every length of days, months and reservations, and however old the time *)
(* is that a transaction uses.                                             *)
(***************************************************************************)
EXTENDS Allowance, FiniteSetTheorems, TLAPS

\* Every step writes values of the declared shape.
LEMMA AllowanceTypeStep == AllowanceTypeOK /\ [Next]_vars => AllowanceTypeOK'
<1> SUFFICES ASSUME AllowanceTypeOK, [Next]_vars PROVE AllowanceTypeOK'
  OBVIOUS
<1> USE DEF AllowanceTypeOK, mediaVars, reservationVars, Straddling
<1>1. MaxTime \in Nat /\ UploadTTL \in Nat /\ ReservationTTL \in Nat
  BY AllowanceAssumption
<1>2. CASE Tick
  BY <1>1, <1>2 DEF Tick
<1>3. ASSUME NEW user \in User, SetEntitlement(user) PROVE AllowanceTypeOK'
  BY <1>3 DEF SetEntitlement
<1>4. ASSUME NEW u \in Upload, ReleaseUploadReservation(u) \/ Sweep(u) PROVE AllowanceTypeOK'
  BY <1>4 DEF ReleaseUploadReservation, Sweep
<1>5. ASSUME NEW u \in Upload, NEW t \in 0 .. MaxTime, NEW user \in User,
             CreatePaidMediaUpload(u, user, t)
      PROVE  AllowanceTypeOK'
  <2>1. t + UploadTTL \in Int /\ clock \in Int
    BY <1>1
  <2>2. /\ owner' \in [Upload -> User \cup {NoUser}]
        /\ upload' \in [Upload -> {"absent", "pending", "uploaded", "consumed", "expired"}]
        /\ reservation' \in [Upload -> {"none", "reserved", "consumed", "released"}]
    BY <1>5 DEF CreatePaidMediaUpload
  <2>3. uploadExpires' \in [Upload -> Int] /\ issued' \in [Upload -> Int]
        /\ expires' \in [Upload -> Int]
    BY <1>5, <2>1 DEF CreatePaidMediaUpload
  <2> QED
    BY <1>5, <2>2, <2>3 DEF CreatePaidMediaUpload
<1>6. ASSUME NEW u \in Upload, NEW t \in 0 .. MaxTime, CompletePaidMediaUpload(u, t)
      PROVE  AllowanceTypeOK'
  <2>1. t + ReservationTTL \in Int
    BY <1>1
  <2> QED
    BY <1>6, <2>1 DEF CompletePaidMediaUpload
<1>7. ASSUME NEW u \in Upload, NEW t \in 0 .. MaxTime, CreateSubmission(u, t)
      PROVE  AllowanceTypeOK'
  BY <1>7 DEF CreateSubmission
<1>8. CASE UNCHANGED vars
  BY <1>8 DEF vars
<1> QED
  BY <1>2, <1>3, <1>4, <1>5, <1>6, <1>7, <1>8 DEF Next

\* The rows of media_uploads and submission_usage_reservations keep to the
\* values their CHECKs admit.
THEOREM AllowanceTypes == Spec => []AllowanceTypeOK
<1>1. Init => AllowanceTypeOK
  <2>1. 0 \in 0 .. MaxTime /\ Never \in Int
    BY AllowanceAssumption DEF Never
  <2> HIDE DEF Never
  <2> QED
    BY <2>1 DEF Init, AllowanceTypeOK
<1> QED
  BY <1>1, AllowanceTypeStep, PTL DEF Spec

-----------------------------------------------------------------------------
(* An upload and its reservation.                                          *)

\* Both rows are inserted together, neither is deleted here, and each status
\* of the one admits a few of the other.
RowsAgree ==
  /\ UploadHoldsReservation
  /\ \A u \in Upload :
       /\ upload[u] = "absent" <=> reservation[u] = "none"
       /\ upload[u] = "pending" /\ reservation[u] = "reserved" => expires[u] = uploadExpires[u]

\* No handler changes one of the two rows in a way the other does not admit.
LEMMA RowsStep == AllowanceTypeOK /\ RowsAgree /\ [Next]_vars => RowsAgree'
<1> SUFFICES ASSUME AllowanceTypeOK, RowsAgree, [Next]_vars PROVE RowsAgree'
  OBVIOUS
<1> USE DEF RowsAgree, UploadHoldsReservation, AllowanceTypeOK, mediaVars, reservationVars
<1>1. ASSUME NEW user \in User, SetEntitlement(user) PROVE RowsAgree'
  BY <1>1 DEF SetEntitlement
<1>2. ASSUME NEW u \in Upload, ReleaseUploadReservation(u) \/ Sweep(u) PROVE RowsAgree'
  BY <1>2 DEF ReleaseUploadReservation, Sweep
<1>3. ASSUME NEW u \in Upload, NEW t \in 0 .. MaxTime, NEW user \in User,
             CreatePaidMediaUpload(u, user, t)
      PROVE  RowsAgree'
  BY <1>3 DEF CreatePaidMediaUpload
<1>4. ASSUME NEW u \in Upload, NEW t \in 0 .. MaxTime,
             CompletePaidMediaUpload(u, t) \/ CreateSubmission(u, t)
      PROVE  RowsAgree'
  BY <1>4 DEF CompletePaidMediaUpload, CreateSubmission
<1>5. CASE Tick \/ UNCHANGED vars
  BY <1>5 DEF Tick, vars
<1> QED
  BY <1>1, <1>2, <1>3, <1>4, <1>5 DEF Next

\* RowsAgree holds of the empty tables.
LEMMA RowsInit == Init => RowsAgree
BY DEF Init, RowsAgree, UploadHoldsReservation

\* Whatever completes, expires, is given back or submitted in whatever order,
\* a completed upload holds a reservation and a submission has consumed one.
THEOREM UploadsHoldReservations == Spec => []UploadHoldsReservation
<1>1. RowsAgree => UploadHoldsReservation
  BY DEF RowsAgree
<1> QED
  BY <1>1, AllowanceTypes, RowsInit, RowsStep, PTL DEF Spec

-----------------------------------------------------------------------------
(* The limits.  An upload submitted in a window was reserved, without a    *)
(* break, from its creation to its submission, so it is enough that        *)
(* CreatePaidMediaUpload bounds what each window has consumed together     *)
(* with what may yet be consumed in it, and that no other step adds to it. *)

Held == {u \in Upload : reservation[u] # "none"}

\* Submissions of the day d, and reservations that may become some: a request
\* that names an upload began after the upload was created.
HeldOn(d) == ConsumedOn(d) \cup {u \in Pending(clock) : Day(issued[u]) <= d}
HeldIn(m) == ConsumedIn(m) \cup {u \in Pending(clock) : Month(issued[u]) <= m}

ReservedWithinLimits ==
  /\ \A user \in User :
       /\ \A d \in Nat : Cardinality((HeldOn(d) \cap Of(user)) \ straddled) <= DailyLimit
       /\ \A m \in Nat : Cardinality((HeldIn(m) \cap Of(user)) \ straddled) <= MonthlyLimit
  /\ \A d \in Nat : Cardinality(HeldOn(d) \ straddled) <= GlobalLimit

NothingInTheFuture ==
  \A u \in Upload :
    /\ reservation[u] # "none" => issued[u] \in 0 .. clock
    /\ reservation[u] = "consumed" => consumedAt[u] \in 0 .. clock

LimitInv ==
  /\ AllowanceTypeOK
  /\ RowsAgree
  /\ IsFiniteSet(Held)
  /\ NothingInTheFuture
  /\ ReservedWithinLimits

\* Truncating instants to days or months keeps their order.
LEMMA LaterQuotient ==
  ASSUME NEW n \in Nat \ {0}, NEW a \in Nat, NEW b \in Nat, a <= b
  PROVE  a \div n \in Nat /\ a \div n <= b \div n
<1> DEFINE q == a \div n
           r == b \div n
<1>1. /\ a = n * q + (a % n) /\ a % n \in 0 .. n - 1 /\ q \in Nat
      /\ b = n * r + (b % n) /\ b % n \in 0 .. n - 1 /\ r \in Nat
  OBVIOUS
<1>2. SUFFICES ASSUME r < q PROVE FALSE
  BY <1>1
<1> HIDE DEF q, r
<1>3. n * (r + 1) <= n * q
  BY <1>1, <1>2
<1>4. n * (r + 1) = n * r + n /\ n * r \in Nat /\ n * q \in Nat
  BY <1>1
<1> QED
  BY <1>1, <1>3, <1>4

\* The same for the two windows of the model.
LEMMA WindowsInOrder ==
  ASSUME NEW a \in Nat, NEW b \in Nat, a <= b
  PROVE  /\ Day(a) \in Nat /\ Day(b) \in Nat /\ Day(a) <= Day(b)
         /\ Month(a) \in Nat /\ Month(b) \in Nat /\ Month(a) <= Month(b)
<1>1. DayLength \in Nat \ {0} /\ MonthLength \in Nat \ {0}
  BY AllowanceAssumption
<1>2. Day(a) \in Nat /\ Day(b) \in Nat /\ Day(a) <= Day(b)
  BY <1>1, LaterQuotient DEF Day
<1> HIDE DEF Day
<1>3. Month(a) \in Nat /\ Month(b) \in Nat /\ Month(a) <= Month(b)
  BY <1>1, <1>2, LaterQuotient DEF Month
<1> QED
  BY <1>2, <1>3

\* A set within another keeps its bound.
LEMMA Fewer ==
  ASSUME NEW S, NEW T, IsFiniteSet(S), T \subseteq S, NEW L \in Nat, Cardinality(S) <= L
  PROVE  IsFiniteSet(T) /\ Cardinality(T) <= L
<1>1. IsFiniteSet(T) /\ Cardinality(T) <= Cardinality(S)
  BY FS_Subset
<1>2. Cardinality(S) \in Nat /\ Cardinality(T) \in Nat
  BY <1>1, FS_CardinalityType
<1> QED
  BY <1>1, <1>2

\* A set of fewer than its limit takes one more.
LEMMA OneMore ==
  ASSUME NEW S, NEW T, NEW x, IsFiniteSet(S), T \subseteq S \cup {x},
         NEW L \in Nat, Cardinality(S) < L
  PROVE  IsFiniteSet(T) /\ Cardinality(T) <= L
<1>1. IsFiniteSet(S \cup {x}) /\ Cardinality(S \cup {x}) <= Cardinality(S) + 1
  <2>1. Cardinality(S) \in Nat
    BY FS_CardinalityType
  <2>2. /\ IsFiniteSet(S \cup {x})
        /\ Cardinality(S \cup {x}) =
             IF x \in S THEN Cardinality(S) ELSE Cardinality(S) + 1
    BY FS_AddElement
  <2> QED
    BY <2>1, <2>2
<1>2. Cardinality(S) \in Nat /\ Cardinality(S \cup {x}) \in Nat
  BY <1>1, FS_CardinalityType
<1>3. Cardinality(S \cup {x}) <= L
  BY <1>1, <1>2
<1> QED
  BY <1>1, <1>3, Fewer

\* The sets that are counted are finite: each is within the rows so far.
LEMMA CountedIsFinite ==
  ASSUME IsFiniteSet(Held), NEW T, T \subseteq Held
  PROVE  IsFiniteSet(T)
BY FS_Subset

\* The three bounds carry over to any step that adds nothing to what a window
\* holds, but straddling uploads.
LEMMA NothingAdded ==
  ASSUME IsFiniteSet(Held), ReservedWithinLimits,
         \A d \in Nat : (HeldOn(d) \ straddled)' \subseteq HeldOn(d) \ straddled,
         \A m \in Nat : (HeldIn(m) \ straddled)' \subseteq HeldIn(m) \ straddled,
         \A u \in Held : owner'[u] = owner[u]
  PROVE  ReservedWithinLimits'
<1>1. {DailyLimit, MonthlyLimit, GlobalLimit} \subseteq Nat
  BY AllowanceAssumption
<1>2. ASSUME NEW n \in Nat
      PROVE  HeldOn(n) \subseteq Held /\ HeldIn(n) \subseteq Held
  BY DEF HeldOn, HeldIn, Held, ConsumedOn, ConsumedIn, Pending
<1>3. ASSUME NEW d \in Nat PROVE Cardinality((HeldOn(d) \ straddled)') <= GlobalLimit
  <2>1. IsFiniteSet(HeldOn(d) \ straddled)
    BY <1>2, CountedIsFinite
  <2> QED
    BY <1>1, <2>1, Fewer DEF ReservedWithinLimits
<1>4. ASSUME NEW user \in User, NEW d \in Nat
      PROVE  Cardinality(((HeldOn(d) \cap Of(user)) \ straddled)') <= DailyLimit
  <2>1. ((HeldOn(d) \cap Of(user)) \ straddled)' \subseteq (HeldOn(d) \cap Of(user)) \ straddled
    BY <1>2 DEF Of
  <2>2. /\ IsFiniteSet((HeldOn(d) \cap Of(user)) \ straddled)
        /\ Cardinality((HeldOn(d) \cap Of(user)) \ straddled) <= DailyLimit
    BY <1>2, CountedIsFinite DEF ReservedWithinLimits
  <2> QED
    BY <1>1, <2>1, <2>2, Fewer
<1>5. ASSUME NEW user \in User, NEW m \in Nat
      PROVE  Cardinality(((HeldIn(m) \cap Of(user)) \ straddled)') <= MonthlyLimit
  <2>1. ((HeldIn(m) \cap Of(user)) \ straddled)' \subseteq (HeldIn(m) \cap Of(user)) \ straddled
    BY <1>2 DEF Of
  <2>2. /\ IsFiniteSet((HeldIn(m) \cap Of(user)) \ straddled)
        /\ Cardinality((HeldIn(m) \cap Of(user)) \ straddled) <= MonthlyLimit
    BY <1>2, CountedIsFinite DEF ReservedWithinLimits
  <2> QED
    BY <1>1, <2>1, <2>2, Fewer
<1> QED
  BY <1>3, <1>4, <1>5 DEF ReservedWithinLimits

\* A creation that commits on the day of its time counts every submission and
\* every reservation that this window, or a later one, may hold.
LEMMA CountedBefore ==
  ASSUME LimitInv, NEW t, Seen(t), ~DayIsOver(t), NEW n \in Nat
  PROVE  /\ n >= Day(clock) => HeldOn(n) \subseteq ConsumedOn(Day(t)) \cup Pending(t)
         /\ n >= Month(clock) => HeldIn(n) \subseteq ConsumedIn(Month(t)) \cup Pending(t)
<1> USE DEF LimitInv
<1>1. clock \in Nat /\ t \in Nat /\ t <= clock
  BY AllowanceAssumption DEF AllowanceTypeOK, Seen
<1>2. Day(t) = Day(clock) /\ Month(t) = Month(clock)
  BY DEF DayIsOver, Month
<1>3. Pending(clock) \subseteq Pending(t)
  BY <1>1 DEF Pending, AllowanceTypeOK
<1>4. ASSUME NEW u \in Upload, reservation[u] = "consumed"
      PROVE  /\ Day(consumedAt[u]) \in Nat /\ Day(consumedAt[u]) <= Day(clock)
             /\ Month(consumedAt[u]) \in Nat /\ Month(consumedAt[u]) <= Month(clock)
             /\ Day(clock) \in Nat /\ Month(clock) \in Nat
  <2>1. consumedAt[u] \in Nat /\ consumedAt[u] <= clock
    BY <1>1, <1>4 DEF NothingInTheFuture
  <2> QED
    BY <1>1, <2>1, WindowsInOrder
<1> HIDE DEF LimitInv
<1>5. n >= Day(clock) => ConsumedOn(n) \subseteq ConsumedOn(Day(clock))
  BY <1>4 DEF ConsumedOn
<1>6. n >= Month(clock) => ConsumedIn(n) \subseteq ConsumedIn(Month(clock))
  BY <1>4 DEF ConsumedIn
<1> QED
  BY <1>2, <1>3, <1>5, <1>6 DEF HeldOn, HeldIn

\* Creating one upload below the limits reaches them at most.
LEMMA OneAdded ==
  ASSUME LimitInv, NEW u \in Upload, NEW user \in User, NEW t \in 0 .. MaxTime,
         CreatePaidMediaUpload(u, user, t), ~DayIsOver(t)
  PROVE  ReservedWithinLimits'
<1> USE DEF LimitInv
<1> DEFINE Today == ConsumedOn(Day(t)) \cup Pending(t)
           ThisMonth == ConsumedIn(Month(t)) \cup Pending(t)
<1>1. {DailyLimit, MonthlyLimit, GlobalLimit} \subseteq Nat
  BY AllowanceAssumption
<1>2. /\ Cardinality(Today) < GlobalLimit
      /\ Cardinality(Today \cap Of(user)) < DailyLimit
      /\ Cardinality(ThisMonth \cap Of(user)) < MonthlyLimit
  BY DEF CreatePaidMediaUpload, GlobalDailyUsed, DailyUsed, MonthlyUsed
<1>3. Today \subseteq Held /\ ThisMonth \subseteq Held
  BY DEF Held, ConsumedOn, ConsumedIn, Pending
<1>4. ASSUME NEW n \in Nat PROVE HeldOn(n) \subseteq Held /\ HeldIn(n) \subseteq Held
  BY DEF HeldOn, HeldIn, Held, ConsumedOn, ConsumedIn, Pending
<1>5. clock \in Nat /\ UNCHANGED <<clock, straddled>> /\ Seen(t)
  BY AllowanceAssumption DEF AllowanceTypeOK, CreatePaidMediaUpload, Straddling
<1>6. Day(clock) \in Nat /\ Month(clock) \in Nat
  BY <1>5, WindowsInOrder
<1>7. ASSUME NEW n \in Nat
      PROVE  /\ HeldOn(n)' \subseteq HeldOn(n) \/ HeldOn(n)' \subseteq Today \cup {u}
             /\ HeldIn(n)' \subseteq HeldIn(n) \/ HeldIn(n)' \subseteq ThisMonth \cup {u}
             /\ HeldOn(n)' \subseteq HeldOn(n) \cup {u}
             /\ HeldIn(n)' \subseteq HeldIn(n) \cup {u}
  <2>1. /\ \A x \in HeldOn(n)' : x = u \/ x \in HeldOn(n)
        /\ \A x \in HeldIn(n)' : x = u \/ x \in HeldIn(n)
        /\ u \in HeldOn(n)' => Day(clock) <= n
        /\ u \in HeldIn(n)' => Month(clock) <= n
    BY <1>5 DEF CreatePaidMediaUpload, HeldOn, HeldIn, ConsumedOn, ConsumedIn, Pending,
       AllowanceTypeOK
  <2> HIDE DEF LimitInv
  <2> QED
    BY <1>5, <1>6, <2>1, CountedBefore
<1>8. /\ Of(user)' = Of(user) \cup {u}
      /\ \A other \in User \ {user} : Of(other)' \subseteq Of(other) \ {u}
  BY DEF CreatePaidMediaUpload, Of, AllowanceTypeOK
<1> HIDE DEF LimitInv, Today, ThisMonth
<1>9. IsFiniteSet(Held) /\ ReservedWithinLimits
  BY DEF LimitInv
<1>10. ASSUME NEW d \in Nat PROVE Cardinality((HeldOn(d) \ straddled)') <= GlobalLimit
  <2>1. CASE HeldOn(d)' \subseteq HeldOn(d)
    <3>1. (HeldOn(d) \ straddled)' \subseteq HeldOn(d) \ straddled
      BY <1>5, <2>1
    <3>2. IsFiniteSet(HeldOn(d) \ straddled)
      BY <1>4, <1>9, CountedIsFinite
    <3> QED
      BY <1>1, <1>9, <3>1, <3>2, Fewer DEF ReservedWithinLimits
  <2>2. CASE HeldOn(d)' \subseteq Today \cup {u}
    <3>1. IsFiniteSet(Today) /\ (HeldOn(d) \ straddled)' \subseteq Today \cup {u}
      BY <1>3, <1>9, <2>2, CountedIsFinite
    <3> QED
      BY <1>1, <1>2, <3>1, OneMore
  <2> QED
    BY <1>7, <2>1, <2>2
<1>11. ASSUME NEW x \in User, NEW d \in Nat
      PROVE  Cardinality(((HeldOn(d) \cap Of(x)) \ straddled)') <= DailyLimit
  <2>1. CASE HeldOn(d)' \subseteq HeldOn(d) \/ x # user
    <3>1. ((HeldOn(d) \cap Of(x)) \ straddled)' \subseteq (HeldOn(d) \cap Of(x)) \ straddled
      <4>1. CASE x # user
        BY <1>5, <1>7, <1>8, <4>1
      <4>2. CASE x = user /\ HeldOn(d)' \subseteq HeldOn(d)
        <5>1. u \notin Held
          BY DEF LimitInv, RowsAgree, CreatePaidMediaUpload, Held
        <5> QED
          BY <1>4, <1>5, <1>8, <4>2, <5>1
      <4> QED
        BY <2>1, <4>1, <4>2
    <3>2. IsFiniteSet((HeldOn(d) \cap Of(x)) \ straddled)
      BY <1>4, <1>9, CountedIsFinite
    <3> QED
      BY <1>1, <1>9, <3>1, <3>2, Fewer DEF ReservedWithinLimits
  <2>2. CASE HeldOn(d)' \subseteq Today \cup {u} /\ x = user
    <3>1. /\ IsFiniteSet(Today \cap Of(user))
          /\ ((HeldOn(d) \cap Of(x)) \ straddled)' \subseteq (Today \cap Of(user)) \cup {u}
      BY <1>3, <1>8, <1>9, <2>2, CountedIsFinite
    <3> QED
      BY <1>1, <1>2, <3>1, OneMore
  <2> QED
    BY <1>7, <2>1, <2>2
<1>12. ASSUME NEW x \in User, NEW m \in Nat
      PROVE  Cardinality(((HeldIn(m) \cap Of(x)) \ straddled)') <= MonthlyLimit
  <2>1. CASE HeldIn(m)' \subseteq HeldIn(m) \/ x # user
    <3>1. ((HeldIn(m) \cap Of(x)) \ straddled)' \subseteq (HeldIn(m) \cap Of(x)) \ straddled
      <4>1. CASE x # user
        BY <1>5, <1>7, <1>8, <4>1
      <4>2. CASE x = user /\ HeldIn(m)' \subseteq HeldIn(m)
        <5>1. u \notin Held
          BY DEF LimitInv, RowsAgree, CreatePaidMediaUpload, Held
        <5> QED
          BY <1>4, <1>5, <1>8, <4>2, <5>1
      <4> QED
        BY <2>1, <4>1, <4>2
    <3>2. IsFiniteSet((HeldIn(m) \cap Of(x)) \ straddled)
      BY <1>4, <1>9, CountedIsFinite
    <3> QED
      BY <1>1, <1>9, <3>1, <3>2, Fewer DEF ReservedWithinLimits
  <2>2. CASE HeldIn(m)' \subseteq ThisMonth \cup {u} /\ x = user
    <3>1. /\ IsFiniteSet(ThisMonth \cap Of(user))
          /\ ((HeldIn(m) \cap Of(x)) \ straddled)' \subseteq (ThisMonth \cap Of(user)) \cup {u}
      BY <1>3, <1>8, <1>9, <2>2, CountedIsFinite
    <3> QED
      BY <1>1, <1>2, <3>1, OneMore
  <2> QED
    BY <1>7, <2>1, <2>2
<1> QED
  BY <1>10, <1>11, <1>12 DEF ReservedWithinLimits

\* Completing an upload extends a reservation that every window it may be
\* submitted in counts already, and a submission consumes one that its window
\* counts, unless the reservation expired on the way.
LEMMA UploadAddsNothing ==
  ASSUME LimitInv, NEW u \in Upload, NEW t \in 0 .. MaxTime,
         \/ CompletePaidMediaUpload(u, t) \/ CreateSubmission(u, t)
         \/ ReleaseUploadReservation(u) \/ Sweep(u),
         NEW n \in Nat
  PROVE  /\ (HeldOn(n) \ straddled)' \subseteq HeldOn(n) \ straddled
         /\ (HeldIn(n) \ straddled)' \subseteq HeldIn(n) \ straddled
<1> USE DEF LimitInv
<1>1. /\ UNCHANGED <<clock, issued>> /\ clock \in Nat
      /\ straddled \subseteq straddled'
  BY AllowanceAssumption DEF AllowanceTypeOK, Straddling,
     CompletePaidMediaUpload, CreateSubmission, ReleaseUploadReservation, Sweep
<1>2. ASSUME NEW x \in Upload \ {u}
      PROVE  /\ x \in HeldOn(n)' => x \in HeldOn(n)
             /\ x \in HeldIn(n)' => x \in HeldIn(n)
  BY <1>1, <1>2 DEF CompletePaidMediaUpload, CreateSubmission, ReleaseUploadReservation, Sweep,
     reservationVars, HeldOn, HeldIn, ConsumedOn, ConsumedIn, Pending, AllowanceTypeOK
<1>3. CASE ReleaseUploadReservation(u) \/ Sweep(u)
  <2>1. u \in HeldOn(n)' => u \in HeldOn(n)
    BY <1>1, <1>3 DEF ReleaseUploadReservation, Sweep, reservationVars, HeldOn, ConsumedOn,
       Pending, AllowanceTypeOK
  <2>2. u \in HeldIn(n)' => u \in HeldIn(n)
    BY <1>1, <1>3 DEF ReleaseUploadReservation, Sweep, reservationVars, HeldIn, ConsumedIn,
       Pending, AllowanceTypeOK
  <2>3. HeldOn(n)' \subseteq Upload /\ HeldIn(n)' \subseteq Upload
    BY DEF HeldOn, HeldIn, ConsumedOn, ConsumedIn, Pending
  <2> QED
    BY <1>1, <1>2, <2>1, <2>2, <2>3
<1>4. CASE HasExpired(u) /\ (CompletePaidMediaUpload(u, t) \/ CreateSubmission(u, t))
  <2>1. u \in straddled'
    BY <1>4 DEF CompletePaidMediaUpload, CreateSubmission, Straddling
  <2>2. HeldOn(n)' \subseteq Upload /\ HeldIn(n)' \subseteq Upload
    BY DEF HeldOn, HeldIn, ConsumedOn, ConsumedIn, Pending
  <2> QED
    BY <1>1, <1>2, <2>1, <2>2
<1>5. CASE ~HasExpired(u) /\ CompletePaidMediaUpload(u, t)
  <2>1. u \in Pending(clock)
    BY <1>1, <1>5 DEF CompletePaidMediaUpload, Pending, HasExpired, AllowanceTypeOK
  <2>2. /\ u \in HeldOn(n)' => u \in HeldOn(n)
        /\ u \in HeldIn(n)' => u \in HeldIn(n)
    BY <1>1, <1>5, <2>1 DEF CompletePaidMediaUpload, HeldOn, HeldIn, ConsumedOn, ConsumedIn, Pending
  <2>3. HeldOn(n)' \subseteq Upload /\ HeldIn(n)' \subseteq Upload
    BY DEF HeldOn, HeldIn, ConsumedOn, ConsumedIn, Pending
  <2> QED
    BY <1>1, <1>2, <2>2, <2>3
<1>6. CASE ~HasExpired(u) /\ CreateSubmission(u, t)
  <2>1. u \in Pending(clock)
    BY <1>1, <1>6 DEF CreateSubmission, Pending, HasExpired, AllowanceTypeOK
  <2>2. /\ issued[u] \in Nat /\ t \in Nat /\ issued[u] <= t
        /\ consumedAt'[u] = t /\ reservation'[u] = "consumed"
    BY <1>1, <1>6 DEF CreateSubmission, SeenSince, Seen, NothingInTheFuture, AllowanceTypeOK
  <2>3. Day(issued[u]) <= Day(t) /\ Month(issued[u]) <= Month(t)
    BY <2>2, WindowsInOrder
  <2>4. /\ u \in HeldOn(n)' => u \in HeldOn(n)
        /\ u \in HeldIn(n)' => u \in HeldIn(n)
    BY <2>1, <2>2, <2>3 DEF HeldOn, HeldIn, ConsumedOn, ConsumedIn, Pending
  <2>5. HeldOn(n)' \subseteq Upload /\ HeldIn(n)' \subseteq Upload
    BY DEF HeldOn, HeldIn, ConsumedOn, ConsumedIn, Pending
  <2> QED
    BY <1>1, <1>2, <2>4, <2>5
<1> QED
  BY <1>3, <1>4, <1>5, <1>6

\* Every step keeps what the windows hold below the limits.
LEMMA LimitStep == LimitInv /\ [Next]_vars => LimitInv'
<1> SUFFICES ASSUME LimitInv, [Next]_vars PROVE LimitInv'
  OBVIOUS
<1>type. clock \in Nat /\ AllowanceTypeOK /\ AllowanceTypeOK' /\ RowsAgree'
  BY AllowanceTypeStep, RowsStep, AllowanceAssumption DEF LimitInv, AllowanceTypeOK
<1>1. CASE /\ clock' \in {clock, clock + 1}
           /\ UNCHANGED <<mediaVars, reservationVars, straddled>>
  <2>1. UNCHANGED <<owner, Held>>
    BY <1>1 DEF mediaVars, reservationVars, Held
  <2>2. Pending(clock)' \subseteq Pending(clock)
    BY <1>type, <1>1 DEF Pending, reservationVars, AllowanceTypeOK
  <2>3. ASSUME NEW n \in Nat
        PROVE  /\ (HeldOn(n) \ straddled)' \subseteq HeldOn(n) \ straddled
               /\ (HeldIn(n) \ straddled)' \subseteq HeldIn(n) \ straddled
    BY <1>1, <2>2 DEF HeldOn, HeldIn, ConsumedOn, ConsumedIn, mediaVars, reservationVars
  <2>4. ReservedWithinLimits'
    BY <2>1, <2>3, NothingAdded DEF LimitInv
  <2>5. NothingInTheFuture'
    BY <1>type, <1>1 DEF LimitInv, NothingInTheFuture, mediaVars, reservationVars
  <2> QED
    BY <1>type, <2>1, <2>4, <2>5 DEF LimitInv
<1>2. ASSUME NEW u \in Upload, NEW t \in 0 .. MaxTime,
             \/ CompletePaidMediaUpload(u, t) \/ CreateSubmission(u, t)
             \/ ReleaseUploadReservation(u) \/ Sweep(u)
      PROVE  LimitInv'
  <2>1. UNCHANGED <<clock, owner, issued>>
    BY <1>2 DEF CompletePaidMediaUpload, CreateSubmission, ReleaseUploadReservation, Sweep
  <2>2. UNCHANGED Held
    BY <1>type, <1>2 DEF CompletePaidMediaUpload, CreateSubmission, ReleaseUploadReservation,
       Sweep, Held, reservationVars, AllowanceTypeOK
  <2>3. ReservedWithinLimits'
    BY <1>2, <2>1, UploadAddsNothing, NothingAdded DEF LimitInv
  <2>4. \A x \in Upload :
          reservation'[x] = "consumed" =>
            \/ reservation[x] = "consumed" /\ consumedAt'[x] = consumedAt[x]
            \/ consumedAt'[x] \in 0 .. clock
    BY <1>type, <1>2 DEF CompletePaidMediaUpload, CreateSubmission, ReleaseUploadReservation,
       Sweep, SeenSince, Seen, reservationVars, AllowanceTypeOK
  <2>5. NothingInTheFuture'
    BY <1>type, <2>1, <2>2, <2>4 DEF LimitInv, NothingInTheFuture, Held
  <2> QED
    BY <1>type, <2>2, <2>3, <2>5 DEF LimitInv
<1>3. ASSUME NEW u \in Upload, NEW t \in 0 .. MaxTime, NEW user \in User,
             CreatePaidMediaUpload(u, user, t)
      PROVE  LimitInv'
  <2>1. u \notin Held /\ UNCHANGED <<clock, consumedAt>>
    BY <1>3 DEF CreatePaidMediaUpload, LimitInv, RowsAgree, Held
  <2>2. \A x \in Upload \ {u} : /\ reservation'[x] = reservation[x] /\ owner'[x] = owner[x]
                                /\ issued'[x] = issued[x] /\ expires'[x] = expires[x]
    BY <1>type, <1>3 DEF CreatePaidMediaUpload, AllowanceTypeOK
  <2>3. reservation'[u] = "reserved" /\ issued'[u] = clock
    BY <1>type, <1>3 DEF CreatePaidMediaUpload, AllowanceTypeOK
  <2>4. IsFiniteSet(Held)'
    <3>1. Held' \subseteq Held \cup {u}
      BY <2>2 DEF Held
    <3>2. IsFiniteSet(Held \cup {u})
      BY FS_AddElement DEF LimitInv
    <3> QED
      BY <3>1, <3>2, FS_Subset
  <2>5. ReservedWithinLimits'
    <3>1. CASE DayIsOver(t)
      <4>1. straddled' = straddled \cup {u}
        BY <1>3, <3>1 DEF CreatePaidMediaUpload, Straddling
      <4>2. \A x \in Held : owner'[x] = owner[x]
        BY <2>1, <2>2 DEF Held
      <4>3. ASSUME NEW n \in Nat
            PROVE  /\ (HeldOn(n) \ straddled)' \subseteq HeldOn(n) \ straddled
                   /\ (HeldIn(n) \ straddled)' \subseteq HeldIn(n) \ straddled
        BY <2>1, <2>2, <4>1 DEF HeldOn, HeldIn, ConsumedOn, ConsumedIn, Pending
      <4> QED
        BY <4>2, <4>3, NothingAdded DEF LimitInv
    <3> QED
      BY <1>3, <3>1, OneAdded
  <2>6. NothingInTheFuture'
    BY <1>type, <2>1, <2>2, <2>3 DEF LimitInv, NothingInTheFuture
  <2> QED
    BY <1>type, <2>4, <2>5, <2>6 DEF LimitInv
<1>4. 0 \in 0 .. MaxTime
  BY AllowanceAssumption
<1>5. CASE Next
  <2>1. CASE Tick \/ \E user \in User : SetEntitlement(user)
    BY <1>1, <2>1 DEF Tick, SetEntitlement
  <2> QED
    BY <1>2, <1>3, <1>4, <1>5, <2>1 DEF Next
<1> QED
  BY <1>1, <1>5 DEF vars

\* The empty tables are below every limit.
LEMMA LimitInit == Init => LimitInv
<1> SUFFICES ASSUME Init PROVE LimitInv
  OBVIOUS
<1>1. AllowanceTypeOK
  <2>1. 0 \in 0 .. MaxTime /\ Never \in Int
    BY AllowanceAssumption DEF Never
  <2> HIDE DEF Never
  <2> QED
    BY <2>1 DEF Init, AllowanceTypeOK
<1>2. Held = {}
  BY DEF Init, Held
<1>3. \A T : T \subseteq {} => IsFiniteSet(T) /\ Cardinality(T) = 0
  <2>1. \A T : T \subseteq {} => T = {}
    OBVIOUS
  <2> QED
    BY <2>1, FS_EmptySet
<1>4. \A n : HeldOn(n) \subseteq {} /\ HeldIn(n) \subseteq {}
  BY DEF Init, ConsumedOn, ConsumedIn, Pending, HeldOn, HeldIn
<1>5. {DailyLimit, MonthlyLimit, GlobalLimit} \subseteq Nat
  BY AllowanceAssumption
<1>6. ReservedWithinLimits
  <2>1. \A user, n : /\ (HeldOn(n) \cap Of(user)) \ straddled \subseteq {}
                     /\ (HeldIn(n) \cap Of(user)) \ straddled \subseteq {}
                     /\ HeldOn(n) \ straddled \subseteq {}
    BY <1>4
  <2> QED
    BY <1>3, <1>5, <2>1 DEF ReservedWithinLimits
<1>7. NothingInTheFuture /\ IsFiniteSet(Held)
  BY <1>2, FS_EmptySet DEF Init, NothingInTheFuture
<1> QED
  BY <1>1, <1>6, <1>7, RowsInit DEF LimitInv

\* What a window has consumed is part of what it holds.
LEMMA WithinLimits == LimitInv => LimitsHold
<1> SUFFICES ASSUME LimitInv PROVE LimitsHold
  OBVIOUS
<1>1. {DailyLimit, MonthlyLimit, GlobalLimit} \subseteq Nat
  BY AllowanceAssumption
<1>2. ASSUME NEW n \in Nat, NEW S
      PROVE  /\ IsFiniteSet((HeldOn(n) \cap S) \ straddled)
             /\ IsFiniteSet((HeldIn(n) \cap S) \ straddled)
             /\ IsFiniteSet(HeldOn(n) \ straddled)
             /\ ConsumedOn(n) \subseteq HeldOn(n) /\ ConsumedIn(n) \subseteq HeldIn(n)
  <2>1. /\ HeldOn(n) \subseteq Held /\ HeldIn(n) \subseteq Held
        /\ ConsumedOn(n) \subseteq HeldOn(n) /\ ConsumedIn(n) \subseteq HeldIn(n)
    BY DEF HeldOn, HeldIn, Held, ConsumedOn, ConsumedIn, Pending
  <2>2. IsFiniteSet(Held)
    BY DEF LimitInv
  <2> QED
    BY <2>1, <2>2, FS_Subset
<1>3. ASSUME NEW user \in User, NEW n \in Nat
      PROVE  /\ Cardinality((ConsumedOn(n) \cap Of(user)) \ straddled) <= DailyLimit
             /\ Cardinality((ConsumedIn(n) \cap Of(user)) \ straddled) <= MonthlyLimit
  <2>1. /\ (ConsumedOn(n) \cap Of(user)) \ straddled \subseteq (HeldOn(n) \cap Of(user)) \ straddled
        /\ (ConsumedIn(n) \cap Of(user)) \ straddled \subseteq (HeldIn(n) \cap Of(user)) \ straddled
    BY <1>2
  <2>2. /\ Cardinality((HeldOn(n) \cap Of(user)) \ straddled) <= DailyLimit
        /\ Cardinality((HeldIn(n) \cap Of(user)) \ straddled) <= MonthlyLimit
    BY DEF LimitInv, ReservedWithinLimits
  <2> HIDE DEF LimitInv
  <2>3. Cardinality((ConsumedOn(n) \cap Of(user)) \ straddled) <= DailyLimit
    BY <1>1, <1>2, <2>1, <2>2, Fewer
  <2>4. Cardinality((ConsumedIn(n) \cap Of(user)) \ straddled) <= MonthlyLimit
    BY <1>1, <1>2, <2>1, <2>2, Fewer
  <2> QED
    BY <2>3, <2>4
<1>4. ASSUME NEW n \in Nat PROVE Cardinality(ConsumedOn(n) \ straddled) <= GlobalLimit
  <2>1. ConsumedOn(n) \ straddled \subseteq HeldOn(n) \ straddled
    BY <1>2
  <2> QED
    BY <1>1, <1>2, <2>1, Fewer DEF LimitInv, ReservedWithinLimits
<1>5. Day(MaxTime) \in Nat /\ Month(MaxTime) \in Nat
  BY AllowanceAssumption, WindowsInOrder
<1> HIDE DEF LimitInv
<1>6. 0 .. Day(MaxTime) \subseteq Nat /\ 0 .. Month(MaxTime) \subseteq Nat
  BY <1>5
<1> QED
  BY <1>3, <1>4, <1>6 DEF LimitsHold

\* However reservations expire, are extended, are given back and are carried
\* over midnight, and however late transactions commit, no day and no month
\* ever holds more submissions than its limit, beyond uploads created across
\* midnight or used across the end of their reservation: for every number of
\* users and uploads, every limit, every lag and every length of the windows
\* and reservations.
THEOREM LimitsAreKept == Spec => []LimitsHold
BY LimitInit, LimitStep, WithinLimits, PTL DEF Spec
=============================================================================
