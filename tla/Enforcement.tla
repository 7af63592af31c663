----------------------------- MODULE Enforcement -----------------------------
(***************************************************************************)
(* Everything that decides whether the public sees a submission after it   *)
(* was analysed: moderators' actions and appeals (internal/store/safety.go)*)
(* copyright notices (internal/store/copyright.go) and the verdicts of the *)
(* worker (internal/store/analysis.go, jobs.go).  All the rules concern    *)
(* one submission, so there is one here; the notices all name it.          *)
(*                                                                         *)
(* The database runs at READ COMMITTED.  A transaction is modelled by the  *)
(* steps the others can tell apart: it begins, which fixes the created_at  *)
(* (now()) of the rows it will insert; its conditional UPDATE takes a      *)
(* snapshot; and it commits, when PostgreSQL rechecks the columns of the   *)
(* updated row itself but not the subqueries on other tables.              *)
(***************************************************************************)
EXTENDS Naturals

CONSTANTS
  Notice,        \* copyright notices naming the submission
  Moderator,     \* moderators at work, one request of each at a time
  NoTarget,
  Requests,      \* the requests moderators send in the instance
  Verdicts,      \* the verdicts the worker reaches in the instance
  MaxRequests    \* bound: moderator requests in a behaviour

Time == 1 .. MaxRequests
Actions == {"approve", "reject", "remove", "restore"}
Outcomes == {"reviewing", "actioned", "rejected", "restored", "closed"}

AllRequests ==
  [op : {"act"},    what : Actions,                  on : {NoTarget}] \cup
  [op : {"review"}, what : Outcomes,                 on : Notice]     \cup
  [op : {"appeal"}, what : {"upheld", "reversed"},   on : Time]

\* The outcomes of analyzeSubmission and of MarkAnalysisForManualReview.
ToReview == [verification |-> "manual_review", moderation |-> "pending"]
AllVerdicts ==
  { [verification |-> "failed", moderation |-> "rejected"],
    [verification |-> "failed", moderation |-> "approved"],
    [verification |-> "passed", moderation |-> "approved"],
    ToReview }

ASSUME EnforcementAssumption ==
  /\ MaxRequests \in Nat
  /\ Requests \subseteq AllRequests
  /\ Verdicts \subseteq AllVerdicts
  /\ NoTarget \notin Notice \cup Time

VARIABLES
  verification,  \* submissions.verification_status
  moderation,    \* submissions.moderation_status
  stamped,       \* whether submissions.published_at is set
  log,           \* moderation_actions of the submission
  notice,        \* Notice -> copyright_notices.status
  countering,    \* counter-notices past their check of the notice
  appeal,        \* created_at of an action -> status of its appeal
  tx,            \* Moderator -> transaction in progress
  clock          \* start times given out

submissionVars == <<verification, moderation, stamped>>
vars == <<submissionVars, log, notice, countering, appeal, tx, clock>>

NoticeStatus == {"received", "countered"} \cup Outcomes
Undecided == {"pending", "manual_review"}

LogEntry == [action : Actions,
             reason : {"conduct", "copyright", "copyright_claim_resolved", "appeal_reversed"},
             on     : Notice \cup Time \cup {NoTarget},
             at     : Time]

\* saw: whether the conditional UPDATE's snapshot satisfied its WHERE clause.
Tx == [step : {"begun", "read"}, req : Requests, at : Time, saw : BOOLEAN]
Idle == [step |-> "idle"]

EnforcementTypeOK ==
  /\ verification \in {"pending", "manual_review", "passed", "failed"}
  /\ moderation \in {"pending", "approved", "rejected", "removed"}
  /\ stamped \in BOOLEAN
  /\ log \subseteq LogEntry
  /\ notice \in [Notice -> NoticeStatus]
  /\ countering \subseteq Notice
  /\ appeal \in [Time -> {"none", "pending", "upheld", "reversed"}]
  /\ tx \in [Moderator -> Tx \cup {Idle}]
  /\ clock \in 0 .. MaxRequests

Init ==
  /\ verification = "pending" /\ moderation = "pending" /\ stamped = FALSE
  /\ log = {}
  /\ notice = [n \in Notice |-> "received"]
  /\ countering = {}
  /\ appeal = [t \in Time |-> "none"]
  /\ tx = [m \in Moderator |-> Idle]
  /\ clock = 0

-----------------------------------------------------------------------------
(* What the statements read and write.                                     *)

\* ORDER BY created_at DESC LIMIT 1 over the actions that set the status.
IsLatest(e) == e \in log /\ \A f \in log : f.at <= e.at
LatestReasonIs(reason) == \E e \in log : IsLatest(e) /\ e.reason = reason
LatestIs(t) == \E e \in log : IsLatest(e) /\ e.at = t

OpenClaim == {"actioned", "countered"}
NoOtherClaim(n) == \A other \in Notice \ {n} : notice[other] \notin OpenClaim

\* Mutant: approval stamps published_at whatever the verdict is.
SetAndStamp(m) ==
  /\ moderation' = m
  /\ stamped' = (m = "approved" \/ stamped)
  /\ UNCHANGED verification

\* Setting 'approved' stamps published_at of a passed clip and clears it
\* otherwise; the other statuses leave it alone.
SetModeration(m) ==
  /\ moderation' = m
  /\ stamped' = IF m = "approved" THEN verification = "passed" ELSE stamped
  /\ UNCHANGED verification

Append(m, action, reason, on) ==
  log' = log \cup {[action |-> action, reason |-> reason, on |-> on, at |-> tx[m].at]}

End(m) == tx' = [tx EXCEPT ![m] = Idle]

\* A request that has reached the given step of its transaction.
At(m, step, op) == tx[m].step = step /\ tx[m].req.op = op

\* SELECT ... FOR UPDATE on the notice or the appeal, held until the commit.
Locked(op, on) == \E m \in Moderator : At(m, "read", op) /\ tx[m].req.on = on

Read(m, saw) ==
  /\ tx' = [tx EXCEPT ![m].step = "read", ![m].saw = saw]
  /\ UNCHANGED <<submissionVars, log, notice, countering, appeal, clock>>

Refuse(m) ==
  /\ End(m)
  /\ UNCHANGED <<submissionVars, log, notice, countering, appeal, clock>>

Begin(m, r) ==
  /\ tx[m] = Idle /\ clock < MaxRequests
  /\ clock' = clock + 1
  /\ tx' = [tx EXCEPT ![m] = [step |-> "begun", req |-> r, at |-> clock + 1, saw |-> FALSE]]
  /\ UNCHANGED <<submissionVars, log, notice, countering, appeal>>

-----------------------------------------------------------------------------
(* CreateModerationAction on the submission.                               *)

\* Mutant: a status the schema's CHECK does not know.
StatusOrHidden(action) ==
  CASE action \in {"approve", "restore"} -> "approved"
    [] action \in {"reject", "remove"} -> "hidden"

StatusAfter(action) ==
  CASE action \in {"approve", "restore"} -> "approved"
    [] action = "reject" -> "rejected"
    [] action = "remove" -> "removed"

Act(m) ==
  /\ At(m, "begun", "act")
  /\ SetModeration(StatusAfter(tx[m].req.what))
  /\ Append(m, tx[m].req.what, "conduct", NoTarget)
  /\ End(m)
  /\ UNCHANGED <<notice, countering, appeal, clock>>

-----------------------------------------------------------------------------
(* ReviewCopyrightNotice.                                                  *)

ValidTransition(from, to) ==
  <<from, to>> \in ({"received"} \X {"reviewing", "actioned", "rejected", "closed"})
              \cup ({"reviewing"} \X {"actioned", "rejected", "closed"})
              \cup ({"actioned", "countered"} \X {"restored", "closed"})
              \cup {<<"restored", "closed">>}

\* The WHERE clauses of the UPDATE for each outcome that has one.
MayRemove == moderation # "removed"
MayRestore(n) ==
  moderation = "removed" /\ NoOtherClaim(n) /\ LatestReasonIs("copyright")

\* Mutant: SELECT without FOR UPDATE.
ReadNoticeUnlocked(m) ==
  LET n == tx[m].req.on  to == tx[m].req.what IN
  /\ At(m, "begun", "review")
  /\ IF ValidTransition(notice[n], to)
       THEN Read(m, (to = "actioned" /\ MayRemove) \/ (to = "restored" /\ MayRestore(n)))
       ELSE Refuse(m)

ReadNotice(m) ==
  LET n == tx[m].req.on  to == tx[m].req.what IN
  /\ At(m, "begun", "review")
  /\ ~Locked("review", n)
  /\ IF ValidTransition(notice[n], to)
       THEN Read(m, (to = "actioned" /\ MayRemove) \/ (to = "restored" /\ MayRestore(n)))
       ELSE Refuse(m)

\* Only moderation_status itself is rechecked after the snapshot.
CommitReview(m) ==
  LET n == tx[m].req.on  to == tx[m].req.what IN
  /\ At(m, "read", "review")
  /\ notice' = [notice EXCEPT ![n] = to]
  /\ \/ /\ to = "actioned" /\ tx[m].saw /\ MayRemove
        /\ SetModeration("removed")
        /\ Append(m, "remove", "copyright", n)
     \/ /\ to = "restored" /\ tx[m].saw /\ moderation = "removed"
        /\ SetModeration("approved")
        /\ Append(m, "restore", "copyright_claim_resolved", n)
     \/ /\ ~(to = "actioned" /\ tx[m].saw /\ MayRemove)
        /\ ~(to = "restored" /\ tx[m].saw /\ moderation = "removed")
        /\ UNCHANGED <<submissionVars, log>>
  /\ End(m)
  /\ UNCHANGED <<countering, appeal, clock>>

-----------------------------------------------------------------------------
(* The uploader: counter-notices and appeals.                              *)

\* CreateCounterNotice checks the notice without locking it ...
CheckCounter(n) ==
  /\ notice[n] = "actioned" /\ n \notin countering
  /\ countering' = countering \cup {n}
  /\ UNCHANGED <<submissionVars, log, notice, appeal, tx, clock>>

\* ... and later inserts its row, which waits for a review that has locked
\* the notice, and sets the status whatever it has become.
FileCounter(n) ==
  /\ n \in countering
  /\ ~Locked("review", n)
  /\ notice' = [notice EXCEPT ![n] = "countered"]
  /\ countering' = countering \ {n}
  /\ UNCHANGED <<submissionVars, log, appeal, tx, clock>>

\* One appeal per user and action.
CreateAppeal(e) ==
  /\ e \in log /\ e.action \in {"reject", "remove"}
  /\ appeal[e.at] = "none"
  /\ appeal' = [appeal EXCEPT ![e.at] = "pending"]
  /\ UNCHANGED <<submissionVars, log, notice, countering, tx, clock>>

-----------------------------------------------------------------------------
(* ReviewAppeal.                                                           *)

\* Mutant: SELECT without FOR UPDATE OF ap.
ReadAppealUnlocked(m) ==
  LET t == tx[m].req.on IN
  /\ At(m, "begun", "appeal")
  /\ IF appeal[t] = "pending" THEN Read(m, LatestIs(t)) ELSE Refuse(m)

ReadAppeal(m) ==
  LET t == tx[m].req.on IN
  /\ At(m, "begun", "appeal")
  /\ ~Locked("appeal", t)
  /\ IF appeal[t] = "pending" THEN Read(m, LatestIs(t)) ELSE Refuse(m)

CommitAppeal(m) ==
  LET t == tx[m].req.on  decision == tx[m].req.what IN
  /\ At(m, "read", "appeal")
  /\ decision = "upheld" \/ tx[m].saw
  /\ IF decision = "reversed"
       THEN SetModeration("approved") /\ Append(m, "restore", "appeal_reversed", t)
       ELSE UNCHANGED <<submissionVars, log>>
  /\ appeal' = [appeal EXCEPT ![t] = decision]
  /\ End(m)
  /\ UNCHANGED <<notice, countering, clock>>

\* A reversal of an action that is not the latest is refused (ErrInvalid).
RefuseReversal(m) ==
  /\ At(m, "read", "appeal") /\ tx[m].req.what = "reversed" /\ ~tx[m].saw
  /\ Refuse(m)

-----------------------------------------------------------------------------
(* The worker.                                                             *)

\* CompleteAutomatedAnalysis, also called by MarkAnalysisForManualReview.
Analysed(v) ==
  /\ verification \in Undecided
  /\ verification' = v.verification /\ moderation' = v.moderation
  /\ stamped' = (v.verification = "passed" /\ v.moderation = "approved")
  /\ UNCHANGED <<log, notice, countering, appeal, tx, clock>>

\* ClaimJob buries the analysis of a submission that is still pending.
Buried ==
  /\ verification = "pending" /\ ToReview \in Verdicts
  /\ verification' = "manual_review" /\ moderation' = "pending"
  /\ UNCHANGED <<stamped, log, notice, countering, appeal, tx, clock>>

-----------------------------------------------------------------------------
Next ==
  \/ \E m \in Moderator :
       \/ \E r \in Requests : Begin(m, r)
       \/ Act(m) \/ ReadNotice(m) \/ CommitReview(m)
       \/ ReadAppeal(m) \/ CommitAppeal(m) \/ RefuseReversal(m)
  \/ \E n \in Notice : CheckCounter(n) \/ FileCounter(n)
  \/ \E e \in log : CreateAppeal(e)
  \/ \E v \in Verdicts : Analysed(v)
  \/ Buried

Spec == Init /\ [][Next]_vars

-----------------------------------------------------------------------------
(* Properties.                                                             *)

Visible == verification = "passed" /\ moderation = "approved"

\* Seven statements in four files set the two statuses and published_at: what
\* is visible has a publication date, and only a passed clip has one.
PublicationIsStamped ==
  /\ Visible => stamped
  /\ stamped => verification = "passed"

\* However many moderators review a notice at once, a review moves it from the
\* status it checked, along the table of validCopyrightTransition.
ReviewsFollowTheTable ==
  [][\A m \in Moderator : CommitReview(m) =>
       ValidTransition(notice[tx[m].req.on], notice'[tx[m].req.on])]_vars

\* Two moderators cannot both act on an appeal: an appeal is reversed by one
\* action at most, and never by one once it was upheld.
OneReversalPerAppeal ==
  \A e \in log : e.reason = "appeal_reversed" =>
    /\ appeal[e.on] = "reversed"
    /\ \A f \in log : f.reason = "appeal_reversed" /\ f.on = e.on => f = e

\* A notice that is actioned "restricts the linked submission in the same
\* transaction" (README.md:270).
ActionedClaimRestricts ==
  (\E n \in Notice : notice[n] = "actioned") => moderation # "approved"
=============================================================================
