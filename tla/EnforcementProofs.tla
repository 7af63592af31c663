-------------------------- MODULE EnforcementProofs --------------------------
(***************************************************************************)
(* Proofs about Enforcement: its types, the stamp of published clips, the  *)
(* table of copyright reviews and the single decision of an appeal.        *)
(***************************************************************************)
EXTENDS Enforcement, TLAPS

\* What a request and its transaction look like at the steps of a moderator.
LEMMA InProgress ==
  ASSUME EnforcementTypeOK, NEW m \in Moderator, tx[m].step \in {"begun", "read"}
  PROVE  /\ tx[m] \in Tx /\ tx[m].at \in Time
         /\ tx[m].req.op = "act" => tx[m].req.what \in Actions
         /\ tx[m].req.op = "review" => tx[m].req.what \in Outcomes /\ tx[m].req.on \in Notice
         /\ tx[m].req.op = "appeal" =>
              tx[m].req.what \in {"upheld", "reversed"} /\ tx[m].req.on \in Time
<1>1. tx[m] \in Tx
  BY DEF EnforcementTypeOK, Idle
<1>2. tx[m].req \in AllRequests
  BY <1>1, EnforcementAssumption DEF Tx
<1> QED
  BY <1>1, <1>2 DEF Tx, AllRequests

\* A row of moderation_actions as a transaction inserts it.
LEMMA AppendType ==
  ASSUME EnforcementTypeOK, NEW m \in Moderator, tx[m].step \in {"begun", "read"},
         NEW action \in Actions,
         NEW reason \in {"conduct", "copyright", "copyright_claim_resolved", "appeal_reversed"},
         NEW on \in Notice \cup Time \cup {NoTarget}, Append(m, action, reason, on)
  PROVE  (log \subseteq LogEntry)'
BY InProgress DEF EnforcementTypeOK, Append, LogEntry

\* The two ways a moderator's step can leave its transaction.
LEMMA TxType ==
  ASSUME EnforcementTypeOK, NEW m \in Moderator
  PROVE  /\ End(m) => (tx \in [Moderator -> Tx \cup {Idle}])'
         /\ \A saw \in BOOLEAN : tx[m].step = "begun" /\ Read(m, saw) =>
              (tx \in [Moderator -> Tx \cup {Idle}])'
<1>1. End(m) => (tx \in [Moderator -> Tx \cup {Idle}])'
  BY DEF EnforcementTypeOK, End
<1>2. ASSUME NEW saw \in BOOLEAN, tx[m].step = "begun", Read(m, saw)
      PROVE  (tx \in [Moderator -> Tx \cup {Idle}])'
  <2>1. tx[m] \in Tx
    BY <1>2, InProgress
  <2>2. [tx[m] EXCEPT !.step = "read", !.saw = saw] \in Tx
    BY <2>1 DEF Tx
  <2>3. tx' = [tx EXCEPT ![m] = [tx[m] EXCEPT !.step = "read", !.saw = saw]]
    BY <1>2 DEF Read, EnforcementTypeOK
  <2> QED
    BY <2>2, <2>3 DEF EnforcementTypeOK
<1> QED
  BY <1>1, <1>2

\* Every step writes values of the declared shape.
LEMMA EnforcementTypeStep == EnforcementTypeOK /\ [Next]_vars => EnforcementTypeOK'
<1> SUFFICES ASSUME EnforcementTypeOK, Next PROVE EnforcementTypeOK'
  BY DEF EnforcementTypeOK, vars, submissionVars
<1> USE DEF submissionVars
<1>1. ASSUME NEW m \in Moderator, NEW r \in Requests, Begin(m, r) PROVE EnforcementTypeOK'
  <2>1. clock \in Nat /\ MaxRequests \in Nat /\ clock < MaxRequests
    BY <1>1, EnforcementAssumption DEF Begin, EnforcementTypeOK
  <2>2. clock + 1 \in Time /\ clock' \in 0 .. MaxRequests
    BY <1>1, <2>1 DEF Begin, Time
  <2>3. [step |-> "begun", req |-> r, at |-> clock + 1, saw |-> FALSE] \in Tx
    BY <2>2 DEF Tx
  <2> QED
    BY <1>1, <2>2, <2>3 DEF Begin, EnforcementTypeOK
<1>2. ASSUME NEW m \in Moderator, Act(m) PROVE EnforcementTypeOK'
  <2>1. tx[m].step \in {"begun", "read"} /\ tx[m].req.what \in Actions
    BY <1>2, InProgress DEF Act, At
  <2>2. (log \subseteq LogEntry)'
    BY <1>2, <2>1, AppendType DEF Act
  <2>3. StatusAfter(tx[m].req.what) \in {"approved", "rejected", "removed"}
    <3>1. CASE tx[m].req.what \in {"approve", "restore"}
      BY <3>1 DEF StatusAfter
    <3>2. CASE tx[m].req.what = "reject"
      BY <3>2 DEF StatusAfter
    <3>3. CASE tx[m].req.what = "remove"
      BY <3>3 DEF StatusAfter
    <3> QED
      BY <2>1, <3>1, <3>2, <3>3 DEF Actions
  <2> QED
    BY <1>2, <2>2, <2>3, TxType DEF Act, SetModeration, EnforcementTypeOK
<1>3. ASSUME NEW m \in Moderator, ReadNotice(m) \/ ReadAppeal(m) PROVE EnforcementTypeOK'
  <2>1. tx[m].step = "begun" /\ (Refuse(m) \/ \E saw \in BOOLEAN : Read(m, saw))
    BY <1>3 DEF ReadNotice, ReadAppeal, At, LatestIs, MayRemove, MayRestore
  <2> QED
    BY <2>1, TxType DEF Read, Refuse, EnforcementTypeOK
<1>4. ASSUME NEW m \in Moderator, CommitReview(m) PROVE EnforcementTypeOK'
  <2>1. /\ tx[m].step \in {"begun", "read"}
        /\ tx[m].req.on \in Notice /\ tx[m].req.what \in Outcomes
    BY <1>4, InProgress DEF CommitReview, At
  <2>2. notice' \in [Notice -> NoticeStatus]
    BY <1>4, <2>1 DEF CommitReview, EnforcementTypeOK, NoticeStatus
  <2>3. (log \subseteq LogEntry)'
    BY <1>4, <2>1, AppendType DEF CommitReview, Actions, EnforcementTypeOK
  <2>4. moderation' \in {moderation, "removed", "approved"} /\ stamped' \in BOOLEAN
        /\ verification' = verification
    BY <1>4 DEF CommitReview, SetModeration, EnforcementTypeOK
  <2> QED
    BY <1>4, <2>2, <2>3, <2>4, TxType DEF CommitReview, EnforcementTypeOK
<1>5. ASSUME NEW m \in Moderator, CommitAppeal(m) PROVE EnforcementTypeOK'
  <2>1. /\ tx[m].step \in {"begun", "read"}
        /\ tx[m].req.on \in Time /\ tx[m].req.what \in {"upheld", "reversed"}
    BY <1>5, InProgress DEF CommitAppeal, At
  <2>2. (log \subseteq LogEntry)'
    BY <1>5, <2>1, AppendType DEF CommitAppeal, Actions, EnforcementTypeOK
  <2>3. moderation' \in {moderation, "approved"} /\ stamped' \in BOOLEAN
        /\ verification' = verification
    BY <1>5 DEF CommitAppeal, SetModeration, EnforcementTypeOK
  <2>4. appeal' \in [Time -> {"none", "pending", "upheld", "reversed"}]
    BY <1>5, <2>1 DEF CommitAppeal, EnforcementTypeOK
  <2> QED
    BY <1>5, <2>2, <2>3, <2>4, TxType DEF CommitAppeal, EnforcementTypeOK
<1>6. ASSUME NEW m \in Moderator, RefuseReversal(m) PROVE EnforcementTypeOK'
  BY <1>6, TxType DEF RefuseReversal, Refuse, EnforcementTypeOK
<1>7. ASSUME NEW n \in Notice, CheckCounter(n) \/ FileCounter(n) PROVE EnforcementTypeOK'
  BY <1>7 DEF CheckCounter, FileCounter, EnforcementTypeOK, NoticeStatus
<1>8. ASSUME NEW e \in log, CreateAppeal(e) PROVE EnforcementTypeOK'
  BY <1>8 DEF CreateAppeal, EnforcementTypeOK
<1>9. ASSUME NEW v \in Verdicts, Analysed(v) PROVE EnforcementTypeOK'
  <2>1. v \in AllVerdicts
    BY EnforcementAssumption
  <2>2. /\ v.verification \in {"manual_review", "passed", "failed"}
        /\ v.moderation \in {"pending", "approved", "rejected"}
    BY <2>1 DEF AllVerdicts, ToReview
  <2> QED
    <3>1. stamped' \in BOOLEAN
      BY <1>9 DEF Analysed
    <3>2. verification' = v.verification /\ moderation' = v.moderation
      BY <1>9 DEF Analysed
    <3>3. UNCHANGED <<log, notice, countering, appeal, tx, clock>>
      BY <1>9 DEF Analysed
    <3> QED
      BY <2>2, <3>1, <3>2, <3>3 DEF EnforcementTypeOK
<1>10. ASSUME Buried PROVE EnforcementTypeOK'
  BY <1>10 DEF Buried, EnforcementTypeOK
<1> QED
  BY <1>1, <1>2, <1>3, <1>4, <1>5, <1>6, <1>7, <1>8, <1>9, <1>10 DEF Next

\* No request, review or verdict leaves a value the schema would not take.
THEOREM EnforcementTypes == Spec => []EnforcementTypeOK
<1>1. Init => EnforcementTypeOK
  <2> SUFFICES ASSUME Init PROVE EnforcementTypeOK
    OBVIOUS
  <2>1. 0 \in 0 .. MaxRequests
    BY EnforcementAssumption
  <2>2. tx \in [Moderator -> Tx \cup {Idle}]
    BY DEF Init
  <2> QED
    BY <2>1, <2>2 DEF Init, EnforcementTypeOK, NoticeStatus
<1> QED
  BY <1>1, EnforcementTypeStep, PTL DEF Spec

-----------------------------------------------------------------------------
(* published_at.  The seven writers agree without any further invariant:    *)
(* each sets it from the two statuses it has just written or locked.        *)

\* What is visible has a publication date, and only a passed clip has one.
THEOREM VisibleClipsAreStamped == Spec => []PublicationIsStamped
<1>1. Init => PublicationIsStamped
  BY DEF Init, PublicationIsStamped, Visible
<1>2. ASSUME PublicationIsStamped, EnforcementTypeOK, [Next]_vars
      PROVE  PublicationIsStamped'
  <2> USE DEF PublicationIsStamped, Visible, submissionVars
  <2>1. ASSUME NEW status \in {"approved", "rejected", "removed"}, SetModeration(status)
        PROVE  PublicationIsStamped'
    BY <1>2, <2>1 DEF SetModeration
  <2>2. ASSUME NEW m \in Moderator, Act(m) PROVE PublicationIsStamped'
    BY <1>2, <2>2 DEF Act, SetModeration
  <2>3. ASSUME NEW m \in Moderator, CommitReview(m) \/ CommitAppeal(m)
        PROVE  PublicationIsStamped'
    BY <1>2, <2>1, <2>3 DEF CommitReview, CommitAppeal
  <2>4. ASSUME NEW v \in Verdicts, Analysed(v) PROVE PublicationIsStamped'
    BY <2>4 DEF Analysed
  <2>5. CASE Buried
    BY <1>2, <2>5 DEF Buried
  <2>6. CASE UNCHANGED submissionVars
    BY <1>2, <2>6
  <2> QED
    BY <1>2, <2>2, <2>3, <2>4, <2>5, <2>6
       DEF Next, vars, Begin, ReadNotice, ReadAppeal, Read, Refuse, RefuseReversal,
           CheckCounter, FileCounter, CreateAppeal
<1> QED
  BY <1>1, <1>2, EnforcementTypes, PTL DEF Spec

-----------------------------------------------------------------------------
(* Reviews.  A moderator's decision is made on what its SELECT FOR UPDATE   *)
(* found; the row lock keeps that true until the commit.                    *)

Reviewing(m) == At(m, "read", "review")
Deciding(m) == At(m, "read", "appeal")

\* One holder of the lock on a notice, and of the lock on an appeal.
LocksExclude ==
  \A m, k \in Moderator :
    /\ (Reviewing(m) /\ Reviewing(k)) \/ (Deciding(m) /\ Deciding(k))
    /\ tx[m].req.on = tx[k].req.on
    => m = k

\* What a review found when it locked its notice, or its appeal, still holds.
ReviewsAreValid ==
  /\ \A m \in Moderator :
       Reviewing(m) => ValidTransition(notice[tx[m].req.on], tx[m].req.what)
  /\ \A m \in Moderator : Deciding(m) => appeal[tx[m].req.on] = "pending"

\* Reversals name the appeal's action, which OneReversalPerAppeal leaves open.
ReversalsNameAppeals == \A e \in log : e.reason = "appeal_reversed" => e.on \in Time

ReviewInv ==
  /\ EnforcementTypeOK
  /\ LocksExclude
  /\ ReviewsAreValid
  /\ ReversalsNameAppeals
  /\ OneReversalPerAppeal

\* Beginning or ending a transaction takes no lock and leaves the others alone.
LEMMA OthersKeepLocks ==
  ASSUME EnforcementTypeOK, NEW m \in Moderator, End(m) \/ \E r \in Requests : Begin(m, r),
         NEW k \in Moderator, Reviewing(k)' \/ Deciding(k)'
  PROVE  k # m /\ tx'[k] = tx[k]
<1>1. CASE End(m)
  BY <1>1 DEF End, EnforcementTypeOK, Reviewing, Deciding, At, Idle
<1>2. CASE \E r \in Requests : Begin(m, r)
  BY <1>2 DEF Begin, EnforcementTypeOK, Reviewing, Deciding, At
<1> QED
  BY <1>1, <1>2

\* A SELECT FOR UPDATE goes on only when nobody else holds the row.
LEMMA LocksStep ==
  ASSUME EnforcementTypeOK, LocksExclude, [Next]_vars
  PROVE  LocksExclude'
<1> USE DEF LocksExclude, Reviewing, Deciding, At
<1>1. ASSUME NEW m \in Moderator, End(m) \/ \E r \in Requests : Begin(m, r)
      PROVE  LocksExclude'
  BY <1>1, OthersKeepLocks
<1>2. ASSUME NEW m \in Moderator, NEW op \in {"review", "appeal"}, At(m, "begun", op),
             ~Locked(op, tx[m].req.on), NEW saw \in BOOLEAN, Read(m, saw)
      PROVE  LocksExclude'
  <2>1. tx'[m].req = tx[m].req /\ tx'[m].step = "read"
        /\ \A k \in Moderator : k # m => tx'[k] = tx[k]
    <3>1. tx[m] \in Tx
      BY <1>2, InProgress
    <3> QED
      BY <1>2, <3>1 DEF Read, EnforcementTypeOK, Tx
  <2> QED
    BY <1>2, <2>1 DEF Locked
<1>3. ASSUME NEW m \in Moderator, ReadNotice(m) PROVE LocksExclude'
  <2>1. Refuse(m) \/ \E saw \in BOOLEAN : Read(m, saw)
    BY <1>3 DEF ReadNotice, MayRemove, MayRestore
  <2> QED
    BY <1>1, <1>2, <1>3, <2>1 DEF ReadNotice, Refuse
<1>4. ASSUME NEW m \in Moderator, ReadAppeal(m) PROVE LocksExclude'
  <2>1. Refuse(m) \/ \E saw \in BOOLEAN : Read(m, saw)
    BY <1>4 DEF ReadAppeal, LatestIs
  <2> QED
    BY <1>1, <1>2, <1>4, <2>1 DEF ReadAppeal, Refuse
<1>5. CASE UNCHANGED tx
  BY <1>5
<1> QED
  BY <1>1, <1>3, <1>4, <1>5
     DEF Next, vars, Act, CommitReview, CommitAppeal, RefuseReversal, Refuse,
         CheckCounter, FileCounter, CreateAppeal, Analysed, Buried

\* The status a decision rests on changes only when the lock's holder commits:
\* a counter-notice waits for a review, and an appeal is filed once.
LEMMA ValidStep ==
  ASSUME EnforcementTypeOK, LocksExclude, ReviewsAreValid, [Next]_vars
  PROVE  ReviewsAreValid'
<1>1. ASSUME NEW m \in Moderator, End(m) \/ \E r \in Requests : Begin(m, r),
             UNCHANGED <<notice, appeal>>
      PROVE  ReviewsAreValid'
  BY <1>1, OthersKeepLocks DEF ReviewsAreValid, Reviewing, Deciding, At
<1>2. ASSUME NEW m \in Moderator, ReadNotice(m) PROVE ReviewsAreValid'
  <2>1. CASE ValidTransition(notice[tx[m].req.on], tx[m].req.what)
    <3>1. PICK saw \in BOOLEAN : Read(m, saw)
      BY <1>2, <2>1 DEF ReadNotice, MayRemove, MayRestore
    <3>2. tx[m] \in Tx /\ tx[m].req.op = "review"
      BY <1>2, InProgress DEF ReadNotice, At
    <3>3. /\ tx'[m].req = tx[m].req
          /\ \A k \in Moderator : k # m => tx'[k] = tx[k]
          /\ UNCHANGED <<notice, appeal>>
      BY <3>1, <3>2 DEF Read, EnforcementTypeOK, Tx
    <3> QED
      BY <2>1, <3>2, <3>3 DEF ReviewsAreValid, Reviewing, Deciding, At
  <2>2. CASE ~ValidTransition(notice[tx[m].req.on], tx[m].req.what)
    BY <1>1, <1>2, <2>2 DEF ReadNotice, Refuse
  <2> QED
    BY <2>1, <2>2
<1>3. ASSUME NEW m \in Moderator, ReadAppeal(m) PROVE ReviewsAreValid'
  <2>1. CASE appeal[tx[m].req.on] = "pending"
    <3>1. PICK saw \in BOOLEAN : Read(m, saw)
      BY <1>3, <2>1 DEF ReadAppeal, LatestIs
    <3>2. tx[m] \in Tx /\ tx[m].req.op = "appeal"
      BY <1>3, InProgress DEF ReadAppeal, At
    <3>3. /\ tx'[m].req = tx[m].req
          /\ \A k \in Moderator : k # m => tx'[k] = tx[k]
          /\ UNCHANGED <<notice, appeal>>
      BY <3>1, <3>2 DEF Read, EnforcementTypeOK, Tx
    <3> QED
      BY <2>1, <3>2, <3>3 DEF ReviewsAreValid, Reviewing, Deciding, At
  <2>2. CASE appeal[tx[m].req.on] # "pending"
    BY <1>1, <1>3, <2>2 DEF ReadAppeal, Refuse
  <2> QED
    BY <2>1, <2>2
<1>4. ASSUME NEW m \in Moderator, CommitReview(m) PROVE ReviewsAreValid'
  <2>1. /\ Reviewing(m) /\ UNCHANGED appeal
        /\ notice' = [notice EXCEPT ![tx[m].req.on] = tx[m].req.what]
        /\ \A k \in Moderator : Reviewing(k)' \/ Deciding(k)' => k # m /\ tx'[k] = tx[k]
    BY <1>4, OthersKeepLocks DEF CommitReview, Reviewing
  <2>2. ASSUME NEW k \in Moderator, Reviewing(k)'
        PROVE  ValidTransition(notice'[tx'[k].req.on], tx'[k].req.what)
    <3>1. k # m /\ tx'[k] = tx[k] /\ Reviewing(k)
      BY <2>1, <2>2 DEF Reviewing, At
    <3>2. tx[k].req.on # tx[m].req.on
      BY <2>1, <3>1 DEF LocksExclude
    <3>3. tx[k].req.on \in Notice
      BY <3>1, InProgress DEF Reviewing, At
    <3> QED
      BY <2>1, <3>1, <3>2, <3>3 DEF ReviewsAreValid, EnforcementTypeOK
  <2>3. ASSUME NEW k \in Moderator, Deciding(k)' PROVE appeal'[tx'[k].req.on] = "pending"
    BY <2>1, <2>3 DEF ReviewsAreValid, Deciding, At
  <2> QED
    BY <2>2, <2>3 DEF ReviewsAreValid, ValidTransition
<1>5. ASSUME NEW m \in Moderator, CommitAppeal(m) PROVE ReviewsAreValid'
  <2>1. /\ Deciding(m) /\ UNCHANGED notice
        /\ appeal' = [appeal EXCEPT ![tx[m].req.on] = tx[m].req.what]
        /\ \A k \in Moderator : Reviewing(k)' \/ Deciding(k)' => k # m /\ tx'[k] = tx[k]
    BY <1>5, OthersKeepLocks DEF CommitAppeal, Deciding
  <2>2. ASSUME NEW k \in Moderator, Deciding(k)' PROVE appeal'[tx'[k].req.on] = "pending"
    <3>1. k # m /\ tx'[k] = tx[k] /\ Deciding(k)
      BY <2>1, <2>2 DEF Deciding, At
    <3>2. tx[k].req.on # tx[m].req.on
      BY <2>1, <3>1 DEF LocksExclude
    <3>3. tx[k].req.on \in Time
      BY <3>1, InProgress DEF Deciding, At
    <3> QED
      BY <2>1, <3>1, <3>2, <3>3 DEF ReviewsAreValid, EnforcementTypeOK
  <2>3. ASSUME NEW k \in Moderator, Reviewing(k)'
        PROVE  ValidTransition(notice'[tx'[k].req.on], tx'[k].req.what)
    BY <2>1, <2>3 DEF ReviewsAreValid, Reviewing, At
  <2> QED
    BY <2>2, <2>3 DEF ReviewsAreValid, ValidTransition
<1>6. ASSUME NEW n \in Notice, FileCounter(n) PROVE ReviewsAreValid'
  <2>1. ASSUME NEW k \in Moderator, Reviewing(k) PROVE tx[k].req.on \in Notice \ {n}
    BY <1>6, <2>1, InProgress DEF FileCounter, Locked, Reviewing, At
  <2> QED
    BY <1>6, <2>1
       DEF FileCounter, ReviewsAreValid, EnforcementTypeOK, Reviewing, Deciding, At,
           ValidTransition
<1>7. ASSUME NEW e \in log, CreateAppeal(e) PROVE ReviewsAreValid'
  <2>1. ASSUME NEW k \in Moderator, Deciding(k)
        PROVE  tx[k].req.on \in Time /\ tx[k].req.on # e.at
    BY <1>7, <2>1, InProgress DEF CreateAppeal, ReviewsAreValid, Deciding, At
  <2> QED
    BY <1>7, <2>1
       DEF CreateAppeal, ReviewsAreValid, EnforcementTypeOK, Reviewing, Deciding, At,
           ValidTransition
<1>8. CASE UNCHANGED <<notice, appeal, tx>>
  BY <1>8 DEF ReviewsAreValid, Reviewing, Deciding, At, ValidTransition
<1>9. ASSUME NEW m \in Moderator, Act(m) \/ RefuseReversal(m) \/ \E r \in Requests : Begin(m, r)
      PROVE  ReviewsAreValid'
  BY <1>1, <1>9 DEF Act, RefuseReversal, Refuse, Begin
<1> QED
  BY <1>2, <1>3, <1>4, <1>5, <1>6, <1>7, <1>8, <1>9
     DEF Next, vars, CheckCounter, Analysed, Buried

\* The only step that decides an appeal finds it pending, so it is the first.
LEMMA ReversalStep ==
  ASSUME ReviewInv, [Next]_vars
  PROVE  ReversalsNameAppeals' /\ OneReversalPerAppeal'
<1> USE DEF ReviewInv, ReversalsNameAppeals, OneReversalPerAppeal
<1>1. ASSUME UNCHANGED appeal,
             \/ UNCHANGED log
             \/ \E m \in Moderator, action \in Actions, on \in Notice \cup {NoTarget},
                   reason \in {"conduct", "copyright", "copyright_claim_resolved"} :
                  Append(m, action, reason, on)
      PROVE  ReversalsNameAppeals' /\ OneReversalPerAppeal'
  BY <1>1 DEF Append
<1>2. ASSUME NEW m \in Moderator, Act(m)
      PROVE  ReversalsNameAppeals' /\ OneReversalPerAppeal'
  <2>1. tx[m].req.what \in Actions
    BY <1>2, InProgress DEF Act, At
  <2> QED
    BY <1>1, <1>2, <2>1 DEF Act
<1>3. ASSUME NEW m \in Moderator, CommitReview(m)
      PROVE  ReversalsNameAppeals' /\ OneReversalPerAppeal'
  <2>1. tx[m].req.on \in Notice
    BY <1>3, InProgress DEF CommitReview, At
  <2> QED
    BY <1>1, <1>3, <2>1 DEF CommitReview, Actions
<1>4. ASSUME NEW m \in Moderator, CommitAppeal(m)
      PROVE  ReversalsNameAppeals' /\ OneReversalPerAppeal'
  <2> DEFINE t == tx[m].req.on
  <2>1. t \in Time /\ appeal[t] = "pending"
    BY <1>4, InProgress DEF CommitAppeal, At, ReviewsAreValid, Deciding
  <2>2. \A e \in log : e.reason = "appeal_reversed" => e.on \in Time \ {t}
    BY <2>1
  <2>3. appeal' = [appeal EXCEPT ![t] = tx[m].req.what]
    BY <1>4 DEF CommitAppeal
  <2>4. CASE tx[m].req.what = "reversed"
    <3> DEFINE new == [action |-> "restore", reason |-> "appeal_reversed", on |-> t,
                       at |-> tx[m].at]
    <3>1. log' = log \cup {new}
      BY <1>4, <2>4 DEF CommitAppeal, Append
    <3>2. new.on = t /\ new.reason = "appeal_reversed"
      OBVIOUS
    <3>3. appeal'[t] = "reversed" /\ \A u \in Time \ {t} : appeal'[u] = appeal[u]
      BY <2>1, <2>3, <2>4 DEF EnforcementTypeOK
    <3> HIDE DEF new, t
    <3> QED
      BY <2>1, <2>2, <3>1, <3>2, <3>3
  <2>5. CASE tx[m].req.what # "reversed"
    <3>1. UNCHANGED log
      BY <1>4, <2>5 DEF CommitAppeal
    <3> QED
      BY <2>1, <2>2, <2>3, <3>1 DEF EnforcementTypeOK
  <2> QED
    BY <2>4, <2>5
<1>5. ASSUME NEW a \in log, CreateAppeal(a)
      PROVE  ReversalsNameAppeals' /\ OneReversalPerAppeal'
  BY <1>5 DEF CreateAppeal, EnforcementTypeOK, LogEntry
<1>6. CASE UNCHANGED <<log, appeal>>
  BY <1>1, <1>6
<1> QED
  BY <1>2, <1>3, <1>4, <1>5, <1>6
     DEF Next, vars, Begin, ReadNotice, ReadAppeal, Read, Refuse, RefuseReversal,
         CheckCounter, FileCounter, Analysed, Buried

\* The inductive invariant behind the two properties below, for any number of
\* moderators, notices and requests.
THEOREM ReviewsAreSound == Spec => []ReviewInv
<1>1. Init => LocksExclude /\ ReviewsAreValid /\ ReversalsNameAppeals /\ OneReversalPerAppeal
  BY DEF Init, LocksExclude, ReviewsAreValid, ReversalsNameAppeals, OneReversalPerAppeal,
         Reviewing, Deciding, At, Idle
<1>2. EnforcementTypeOK /\ EnforcementTypeOK' /\ ReviewInv /\ [Next]_vars => ReviewInv'
  BY LocksStep, ValidStep, ReversalStep DEF ReviewInv
<1>3. Init /\ EnforcementTypeOK => ReviewInv
  BY <1>1 DEF ReviewInv
<1> QED
  BY <1>2, <1>3, EnforcementTypes, PTL DEF Spec

\* However many moderators decide at once, an appeal is reversed by one action
\* at most, and by none once it was upheld.
THEOREM AppealsAreDecidedOnce == Spec => []OneReversalPerAppeal
<1>1. ReviewInv => OneReversalPerAppeal
  BY DEF ReviewInv
<1> QED
  BY <1>1, ReviewsAreSound, PTL

\* Every review that commits moves its notice along the table of
\* validCopyrightTransition, from the status the notice really has.
THEOREM TransitionsFollowTheTable == Spec => ReviewsFollowTheTable
<1>1. ASSUME ReviewInv, NEW m \in Moderator, CommitReview(m)
      PROVE  ValidTransition(notice[tx[m].req.on], notice'[tx[m].req.on])
  <2>1. tx[m].req.on \in Notice /\ Reviewing(m)
    BY <1>1, InProgress DEF ReviewInv, CommitReview, At, Reviewing
  <2>2. notice'[tx[m].req.on] = tx[m].req.what
    BY <1>1, <2>1 DEF CommitReview, ReviewInv, EnforcementTypeOK
  <2> QED
    BY <1>1, <2>1, <2>2 DEF ReviewInv, ReviewsAreValid
<1>2. ReviewInv /\ [Next]_vars =>
        [\A m \in Moderator : CommitReview(m) =>
           ValidTransition(notice[tx[m].req.on], notice'[tx[m].req.on])]_vars
  BY <1>1
<1> QED
  BY <1>2, ReviewsAreSound, PTL DEF Spec, ReviewsFollowTheTable
=============================================================================
