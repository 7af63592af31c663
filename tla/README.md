# HeatCheck: TLA+ models, checks and proofs

HeatCheck is a Go service for short video challenges: an API process, a worker
process, PostgreSQL and an S3 store. Almost all of its state is in PostgreSQL, so
almost all of its hard behaviour is about transactions: which of them see each
other, what a crash leaves between two of them, and what a retry does to the
results of the first try. This directory models those parts in TLA+, checks them
with TLC and proves the central ones with TLAPS.

Line numbers refer to the repository, e.g. `jobs.go:146` is line 146 of
`internal/store/jobs.go`. Unqualified `README.md:n` is the repository's README.

## 1. Inventory

| Component | State | Operations | Talks to | Hard behaviour | Correct when |
| --- | --- | --- | --- | --- | --- |
| **Job queue** `store/jobs.go`, `Worker.Run` | `jobs` rows: status, attempts, lock, available_at | enqueue, claim with recovery of expired locks, complete, fail, postpone, cancel, purge | every producer; the handlers | worker death, lost reports, late reports, retries, starvation, dedupe | accepted work is owed until done or tried in full; attempts are counted once; one live row per key; everything settles |
| **Submission analysis** `Worker.analyzeSubmission`, `store/analysis.go`, `store/media.go` | `submissions` verdict, `media_uploads` inspection columns, objects | open, process, put, record, ask, alert, decide; route to review; `UpdateVerification` | job queue, S3, ClamAV/ffmpeg, OpenAI, moderators | a crash or a second attempt between any two calls; an answer that differs on retry | only inspected clips pass; a verdict is stable; every submission is answered; published clips exist |
| **Moderation, appeals, copyright** `store/safety.go`, `store/copyright.go` | moderation_status, published_at, `moderation_actions`, `appeals`, `copyright_notices`, counter-notices | act, appeal, review appeal, review notice, counter-notice | the submission row that analysis writes | READ COMMITTED transactions on different rows; rules that read "the latest action" | notices follow their table; restrictions last; one decision per appeal |
| **Upload reservations** `store/subscriptions.go`, `CreateSubmission`, `createUpload`, `completeUpload` | `media_uploads`, `submission_usage_reservations` | reserve, release, complete, submit, sweep | billing, job queue | limits over windows, expiry racing with extension, midnight, stale clocks | no window above its limit; upload and reservation move together |
| **Billing and entitlements** `billing/revenuecat.go`, `billing_handlers.go`, `store/subscriptions.go` | `subscriptions`, `entitlements`, `billing_events` | webhook, client synchronisation, overview | RevenueCat, reservations | answers fetched and stored in any order, repeated deliveries, transfers, failures between fetch and store | a recorded event is in the rows; overview and upload agree; the database ends with what was paid |
| **Account export, deletion, cleanup** `store/accounts.go`, the handlers of `worker.go`, `account_handlers.go` | `account_exports`, `account_deletion_requests`, `media_uploads`, objects | request, cancel, build, delete, sweep | job queue, S3, RevenueCat | objects listed first and removed later; half a deletion; cancel racing with the worker; a sweep beside uploads and exports | what is served is stored; an erased account leaves nothing; a cancelled deletion deletes nothing; exports settle |
| **Sessions** `store/users.go`, `store/auth_workflows.go` | `refresh_tokens` families, one-time tokens | login, rotate, revoke, reset | - | concurrent rotation, replay, revocation racing with rotation | a session has at most one usable token and, once ended, stays ended; only an open link changes the password |
| **Policies** `store/policies.go` | versions, acceptances | publish, accept, ask for what is missing | every guarded request | overlapping publications under a partial unique index | one current version per kind |
| **Votes and blocks** `Vote`, `BlockUser` | `votes`, the submission's aggregate, `user_blocks` | vote, change a vote, block | submissions, moderation, account deletion | a snapshot aggregate under a row lock | the score shows every vote |
| **Rate limits** `store/rate_limits.go`, `middleware.go` | counters per key and window | one upsert, the sweep | every route | windows by the client's clock, a sweep by the database's | at most the maximum per window |
| challenges, public pages, reports, sanctions | rows | one statement or transaction each | | see section 6 | |
| mailer, field encryption, storage client, media processor, AI client, share cards, HTTP routing, configuration, migrations, commands | none of their own | pure functions, clients, wiring | | I/O errors | |

How they interact: the API writes rows and enqueues jobs in one transaction; the
workers claim jobs and call the outside world between transactions; moderators
write the same submission rows as the worker. There are no in-memory shared
structures and no messages between the processes other than job rows.

The hazards, each with its line and the properties aimed at it, are listed in
`PROJECT.json` under `hazards`.

## 2. Plan

Done, in this order:

1. `DurableJob` - what the job table promises, as an abstract specification.
2. `JobQueue` - the table and the `Run` loop; implements `DurableJob`; `JobQueueProofs` -
   the theorems of the queue.
3. `Analysis` - extends `JobQueue` with the analysis handler; `AnalysisProofs`, which rests
   on `JobQueueProofs` through the refinement.
4. `Enforcement` - moderation, appeals, copyright and verdicts on one submission;
   `EnforcementProofs`.
5. `Allowance` - reservations and their limits; `AllowanceProofs`.
6. `SessionFamily` - what a session's chain of refresh tokens promises; `Sessions` -
   the token and link workflows under their row locks; `SessionsProofs` - their
   theorems, with the refinement of `SessionFamily`.
7. `Accounts` - the export, the deletion and the sweep of an account, call by call;
   `AccountsProofs`.
8. `Entitlements` - webhooks and synchronisations; `EntitlementsProofs`.
9. `Community` - votes, blocks, policies and rate limits; `CommunityProofs`.

Every invariant, action property and refinement that a passing run checks is now a theorem.
Where the code allows an exception, the property names it and the theorem needs no
assumption that excludes it (`LimitsHold`, `RateLimitHolds`, `ServedObjectsExist`).
Next:

10. How many uploads a completion that waited for its locks can add to a window, and which
    links a second reset request leaves open.
11. `Sanctions` - suspensions, their appeals and roles; reports.

## 3. The modules and the code

### DurableJob

A job is owed nothing, owed work, done or given up; `tries` counts handler runs.
A try is allowed only while tries are left, a job is given up only when they are
spent or its owner may cancel it, a settled job is only ever forgotten. One step
may move several jobs, since the transaction that claims a job settles expired
ones on the way.

### JobQueue

Every store method is one transaction and one action. State and code:

| Model | Code |
| --- | --- |
| `status`, `attempts`, `lockedBy` | the columns of `jobs`; `"absent"` when there is no row |
| `stale` | running rows with `locked_at < now() - jobTimeout` |
| `available`, `ahead` | queued rows with `available_at <= now()` and, for each, the rows with an earlier `available_at` |
| `pc`, `hand`, `claimed` | where a worker's `Run` loop stands, the `domain.Job` in its hand and that job's `Attempts` |
| `Claim` | `ClaimJob`: recovery and claim in one transaction |
| `CompleteJob`, `FailJob`, `LateReport`, `LoseReport` | the report: accepted, `ErrConflict`, or failed as a database call |
| `Crash`, `Restart` | the process ends (a report in progress fails with its context) and is started again by the container runtime |
| `Postpone`, `Cancel` | the statements of `RequestAccountDeletion` and `CancelAccountDeletion` about the job row |

Points that are easy to get wrong and are modelled as the code has them:

- The recovery commits only with a claim. `ClaimJob` returns before `tx.Commit`
  when no row is left to take (`jobs.go:146`), so `Claim` is the only action that
  releases expired locks, and it is disabled without a claimable row.
- `FailJob` compares the attempts of the job in the worker's hand, not of the row.
- The report statements compare `locked_by` with the worker's name only; a name is
  one process (`WORKER_ID`, the host name by default).
- The table's rows are a finite set and are reused: a settled row that was purged
  may be enqueued again. In the code a new row is inserted; nothing reads the old
  one, so reuse loses no behaviour. The hourly sweep is fair in this sense: `Purge`
  stands for "a new row".

### Analysis

Extends `JobQueue`: a submission *is* its `submission.analyze` row. `step` is the
next call of `analyzeSubmission`, one action per call, so that a crash, an expired
context or another worker's attempt may come between any two. `Fail` puts the
worker at `route` when its attempt was the last one, as `Run` does before it calls
`FailJob`; `ClaimAndRoute` is `ClaimJob` with the routing it does first.
What clamd, ffprobe and the model answer is a free choice at each attempt.

Four CONSTANTS choose among behaviours that the code leaves open:

- `Overlap`: the handler's context starts after `locked_at`, so a call may still
  succeed just after the lock expired. Safety is checked with it.
- `RoutingMayFail`: whether the database may refuse the routing write.
- `AuditTyped`: PostgreSQL refuses the audit INSERT of `UpdateVerification`
  (`submissions.go:400`), so the action cannot be taken when this is FALSE. The
  gate it implements is checked with TRUE.
- `Decisions`: the moderation statuses moderators set; the rules of their own
  actions are in `Enforcement`.

### Enforcement

All rules concern one submission, so there is one, named by every notice. READ
COMMITTED is modelled by the steps the transactions can tell apart: `Begin` fixes
`now()`, the `created_at` of what it will insert; `ReadNotice`/`ReadAppeal` take
the row lock and the snapshot of the conditional UPDATE; `CommitReview` and
`CommitAppeal` recheck, as PostgreSQL does, the columns of the updated row but not
the subqueries on other tables. `Act` is one step, since its UPDATE has no
condition. `CheckCounter` and `FileCounter` are the two halves of
`CreateCounterNotice`, whose check takes no lock. `log` is `moderation_actions`;
`reason` is abstracted to what the queries compare.

Left out: actions on users and challenges, reports, the audit trail, e-mails.

### Allowance

The rows of uploads and reservations, one pair per `Upload`. Creations are
serialised by the user's row and the advisory lock 484395367125, the rest by the
upload's row, so each transaction is one action. Time is a tick counter with days
of `DayLength` and months of `MonthLength` days. A transaction uses a time `t` that
may be up to `MaxLag` ticks older than its commit - the handler reads its clock and
the transaction fixes `now()` before they wait for locks - but no older than the
moment the caller learnt the upload's id (`issued`). The entitlement is a Boolean
that changes at any time. `straddled` is a history variable, read by no guard: it records the
uploads created by a transaction whose day was over at its commit, and those completed or
submitted by one during which their reservation expired. These are the ones that
can go beyond a limit, and `LimitsHold` bounds all others.

### SessionFamily

A family of refresh tokens is named by its first token. It opens once, is handed on
to a token never used before, or ends; one step may end several. `holder` is the
one token of a family that can be used.

### Sessions

One user, since every statement names one, whose account exists throughout.

| Model | Code |
| --- | --- |
| `refresh`, `family` | `refresh_tokens.revoked_at`, `family_id`; `"none"` when there is no row |
| `link` | `consumed_at` of `email_verification_tokens` and `password_reset_tokens` |
| `expired` | rows with `expires_at <= now()` |
| `password`, `verified` | `users.password_hash`, by who set it and whether its parameters are current; `email_verified_at` |
| `tx` | a request in progress: its transaction and the statement it has reached, or the login it is in |
| `LockToken`, then `RotateRefreshToken` or `RevokeFamily`, `Revoke` | `RotateRefreshToken` of the store: SELECT FOR UPDATE, then rotation or the replay's revocation |
| `BeginRevocation`, `Revoke` | `RevokeSession` and `RevokeAllSessions` |
| `LockLink`, `UpdateUser`, `FindLinks`, `ConsumeLinks`, then `VerifyEmail`, or `FindTokens`, `ResetPassword` | the two workflows that redeem a link |
| `StartPasswordReset`, `StartEmailVerification`, `FindLinks`, `ConsumeLinks`, `MailLink` | the two that send one |
| `GetUserByEmail`, `ReplacePasswordHash`, `CreateRefreshToken` | `login`; each is a transaction of its own |

READ COMMITTED, as the steps show it: `LockedBy` is the set of rows a transaction
has locked until it ends. An UPDATE of several rows is two steps: its snapshot, and
its end once nobody else has a row of it locked; it does not see rows inserted
between them. What a transaction writes shows when it commits; rows it inserts are
drawn then. The user's row has three locks: FOR UPDATE and UPDATE exclude each other
and FOR SHARE, FOR SHARE admits FOR SHARE, and the foreign key of a new refresh
token waits for FOR UPDATE only. Redeeming locks the link first and the user second,
sending the other way round, so transactions can deadlock; `Abort` is PostgreSQL's
answer, and any other failure of a statement.

Left out: reads (`ListSessions`), e-mail jobs (rows of the queue), deletion of rows by
the sweep and by account deletion. `Expire` makes a row unusable; what happens to it
later does not matter to the workflows, which look at unexpired rows only. A
transaction that waits for a lock compares the expiry with the time it began; in the
model the row then expires after it is locked, and nothing else is told of it.

### Accounts

One account, its uploads and exports, and the jobs `account.export`, `account.delete` and
`maintenance.cleanup`. Each call of a handler to PostgreSQL, to the store or to
RevenueCat is an action; `CallFails` is an error of any of them, `Stop` and `Recover` a
worker that stops and the claim of its expired row. The queue itself is reduced to what
`JobQueue` has shown of it: one attempt of a row at a time, attempts counted, the last one buries the row. The
moment by which an attempt may outlast its lock (its context starts after `locked_at`,
`worker.go:119`) is checked in `Analysis` with `Overlap` and left out here.

| Model | Code |
| --- | --- |
| `user`, `request`, `due`, `customer` | `users.status`, the deletion request, `execute_after <= now()`, the record at RevenueCat |
| `export`, `outdated` | `account_exports.status`, `expires_at < now()` |
| `upload`, `lapsed` | `media_uploads.status`, and whether the time `ListCleanupObjects` compares has passed |
| `recorded`, `swapped` | `processed_object_key` is set; `object_key` is the processed clip since the original was swept |
| `objects`, `named` | keys in the bucket, and keys a row has ever named |
| `todo`, `hand` | the list a handler walks, and the object whose removal the sweep has not recorded yet |
| `parked` | the deletion's `available_at`, ahead of now |

Thumbnails go with their clip, as their keys are recorded together. One sweep
takes all that is due, as it does in the code below its `LIMIT 500`. The history variable
`late` records the uploads whose completion began in time and committed after it; it is
read by no guard. `DueArguments` says whether the first query of `AccountDeletionMedia` may
get the argument for its `$1`: `{FALSE}` is the code as it is (`accounts.go:394`), in which every
attempt of a deletion fails there. With both values, as in `accounts`, each attempt may go either
way, so that the rest of the deletion, which the code has and nothing reaches today, is
checked as well. One assumption is a guard: `BecomeDue` waits for work begun before the request,
which days of grace outlast. Suspensions are left out: a suspended account is neither
exported nor erased.

### Entitlements

RevenueCat is the environment: it changes customers, one event for each change, and delivers
an event until it is acknowledged. `SubscriptionFromCustomer` is the pure function of that
name, statuses and dates included; `FetchSubscription` evaluates it at the time of the
answer, which is the `source` the tables order by. `BeginWebhook`, the fetches and
`ApplyRevenueCatEvent` are separate steps, as are those of a synchronisation, so answers are
stored in any order. `Upsert` is the conflict clause of `upsertSubscription`,
`OverviewStatus` and `Entitled` are the two readers. `Paid` is not code but the reference:
what RevenueCat's dates say at the moment.

### Community

One clip with its owner, and any number of users who vote on it. A vote is a
request of seven steps: the middleware (`Authenticate`, `RequirePolicies`,
`AllowRateLimit`), then the statements of the transaction - the row lock, the look at
blocks, the upsert with the aggregate its snapshot computes, and the commit. A publication
of a policy is four: the snapshot and the row locks of the UPDATE, the INSERT under
`policies_one_current_per_kind`, the commit. Everything else is one statement and one step.
`letThrough` counts what the limit admitted, independently of the counter the
sweep deletes. Time is in ticks, windows have `Window` of them, and a request counts in the
window of the moment it read the clock, however much later its statement runs. Routes differ in the key of their counter only, so one
stands for all.

## 4. What is checked

Runs that pass:

| Run | Instance | Shows |
| --- | --- | --- |
| `queue_safety` | 2 workers, 3 rows, 2 with the same key, 1 deferrable, 2 attempts, 2 faults | `TypeOK`, `LockMeansCurrentAttempt`, `NoQueuedJobIsSpent`, `DeadJobsWereTriedInFull`, `OneLiveRowPerKey`, and that the queue implements `DurableJob` (`KeepsPromise`) |
| `analysis_safety` | 2 workers, 1 clip, the sweep, 2 attempts, 1 fault, overlapping attempts, manual overrides, failing routing writes | `AnalysisTypeOK`, `OnlyScannedClipsPass`, `VerdictSurvivesRetries`, `UsesTheQueue` |
| `analysis_liveness` | the same without overlap, moderators and failing routing writes | `DeadAnalysisIsReviewed`, `SubmissionsAreAnswered`, and the queue's `RequestedJobsSettle` |
| `enforcement_safety` | 2 moderators, 2 notices, all requests, all verdicts, 3 requests | `EnforcementTypeOK`, `PublicationIsStamped`, `OneReversalPerAppeal`, `ReviewsFollowTheTable` |
| `sessions` | 2 requests at once, 3 refresh tokens, 2 links of each kind, 1 expiry | `SessionsTypeOK`, `OneUsableToken`, `VerificationLinksSettle`, `PasswordChangesByLink`, and that sessions implement `SessionFamily` (`KeepsFamilies`) |
| `allowance` | 2 users, 3 uploads, 6 ticks (3 days, 2 months), times up to a tick old | `AllowanceTypeOK`, `LimitsHold`, `UploadHoldsReservation` |
| `accounts` | 1 upload, 1 export and the deletion of 2 attempts each, the sweep, 2 faults, attempts of the deletion with and without the missing argument | `AccountsTypeOK`, `ServedObjectsExist`, `DeletedAccountsLeaveNothing`, `DeletionActsForAnOpenRequest`, `ExportsSettle`, `ExpiredExportsMakeRoom` |
| `entitlements` | 2 users, 2 events, a webhook beside a synchronisation, 3 ticks, 1 fault | `EntitlementsTypeOK`, `RecordedEventsAreReflected`, `OverviewAgreesWithUploads`, `WebhooksConverge` |
| `community` | 2 voters and the owner, 2 requests, 2 scores, 2 windows of the limit; 2 publications at a time, 3 versions | `CommunityTypeOK`, `VotesAreCounted`, `RateLimitHolds`, `OneCurrentPolicy` |

Runs that find the code at odds with what the repository says of it; each
counterexample was read against the code, and `PROJECT.json` quotes the sentence
it contradicts:

| Run | What happens |
| --- | --- |
| `enforcement_verdict` | A notice is actioned while the clip is analysed; the verdict makes the clip visible. |
| `accounts_export` | A rejected clip is swept after a week; its submission stays in the export, whose `Open` then fails at every attempt. |
| `accounts_deletion` | A deletion becomes due, every attempt fails at the query without its argument, the job is buried and the account stays `deletion_pending` with all its objects and its RevenueCat customer. |

More things were seen while modelling, which no run is kept for. Where the model has a
constant for one, setting it reproduces the behaviour; the others are read from the code.

Job queue and analysis:

- The recovery of expired locks is rolled back when there is nothing left to claim
  (`jobs.go:146`), while the repository promises lock expiry (`README.md:23`). If the only
  live row expires on its last attempt, it stays `running`, its dedupe key blocks a new sweep,
  and nothing changes until some other row is enqueued.
- With `RoutingMayFail = TRUE`, `DeadAnalysisIsReviewed` and `SubmissionsAreAnswered`
  are violated: a failed routing write is logged (`worker.go:140`), the job is buried,
  and the submission stays `pending`.
- An attempt that timed out at its thumbnail removes the processed clip its successor has
  published under the same key (`worker.go:464`).
- An overlapping attempt whose ffprobe was killed marks the upload of a passed submission
  `rejected` (`media.go:141`); a week later the sweep removes its objects.
- PostgreSQL cannot type `$3` in `jsonb_build_object('status', $3)`
  (`submissions.go:400`), so `UpdateVerification` fails and no submission in manual
  review can be decided. `AuditTyped` stands for this.
- An attempt that enqueues the urgent alert (`worker.go:413`) and stops before its verdict
  leaves the clip to a retry whose answer may differ and publish it.
- After an original is swept, `object_key` is the processed clip but `actual_size` is the
  original's, and a later analysis rejects the clip (`processor.go:113`).

Moderation, appeals and copyright:

- Reversing the appeal against a copyright removal restores the clip while its notice
  stays `actioned` (`safety.go:491`): a second way to violate `ActionedClaimRestricts`.
- reject, then actioned, then restored: the removal of the notice is the latest action
  and hides the reject, so the restore approves a rejected clip (`copyright.go:286`).
- A counter-notice checks its notice before a review and marks it `countered` after it
  (`copyright.go:483`), which reopens a closed notice (`README.md:33`).
- At READ COMMITTED the restore of one notice does not see another being actioned
  (`copyright.go:279`): the clip is restored under an actioned notice
  (`README.md:272-273`).
- Actions on users: two admins can suspend each other at once; a reversed appeal lifts
  whatever suspension is the latest; a dismissed report becomes `resolved` by a
  later action that names it.

Allowances and sessions:

- Without `\ straddled`, `LimitsHold` is violated (`README.md:239`), in three ways: a completion
  that waited for its locks across its expiry revives a reservation whose place was given away
  (`subscriptions.go:431`); a submission that waited so is counted in a window that has given
  its place away; and a creation that waited across midnight counts the day that is over.
- The UPDATE of a revocation, of a replay or of a reset waits for a rotation in progress
  but does not see the token that rotation inserts (`auth_workflows.go:291`,
  `users.go:299`, `auth_workflows.go:218`): the session goes on with the new token.
  `KeepsFamilies` holds nevertheless, since the family did not end.
- `StartPasswordReset` locks the user FOR SHARE (`auth_workflows.go:148`), so two requests
  at once leave two open reset links; redeeming either consumes both.

Accounts:

- With `DueArguments = {TRUE}`, `accounts_deletion` passes: the missing argument is all that
  keeps deletions from being carried out.
- Without the exception for `late`, `ServedObjectsExist` is violated: the sweep lists an expired
  pending upload and removes its object, and a completion that began in time commits after that.
- An export whose worker dies on its last attempt is buried by `ClaimJob`, which does
  not know exports (`worker.go:144`): it stays `processing`, blocks the next export and the
  sweep of originals (`docs/FRONTEND_GUIDE.md:697-700`). `ExportsSettle` therefore speaks
  of exports that meet no further fault.
- An archive put by a last attempt that fails before `CompleteAccountExport` is named by
  no row and stays in the bucket (`worker.go:258-263`).
- A deletion that failed half way can be cancelled: the account is active again, without
  the objects and the customer record removed so far. Cancelling is accepted after
  `execute_after` as long as no attempt runs.
- `FailJob` sets `available_at` to its backoff although a new request has just moved it.
- Cancel locks the job row before the user row, a request the other way round
  (`accounts.go:346`); PostgreSQL aborts one of the two.
- A synchronisation between `DeleteCustomer` and the completion creates the customer record
  again.
- The sweep stops at its first error (`worker.go:299`), so an object that cannot be removed
  keeps `CleanupDatabase` from running; rows it has expired are listed again every week, and
  first.
- An original may be removed between its listing and a new report, notice or export that
  would have kept it; one removed but not yet recorded makes an export fail.
- Deleting the votes of an account recomputes no aggregate (`accounts.go:481`).

Entitlements and community:

- With a `RequestDate` coarser than the changes, `WebhooksConverge` is violated: of two answers
  with equal dates the older may be stored last.
- Without `clock <= Ends(k[2])`, `RateLimitHolds` is violated: a request that waited across the
  end of its window counts from zero after the sweep has deleted the counter.
- A block committed between a vote's look at blocks and its commit lets the vote stand;
  account status and policies are read before the transaction and may be stale in it.
- The second of two overlapping publications gets a conflict, and is not retried.

### Bounds, and why they are enough

- Two attempts per job give a retry and a last attempt, the only two cases the code
  tells apart. Two workers are the fewest that race; a third would meet the same
  row in no new state, since a row remembers only its last locker.
- `MaxFaults` bounds crashes and lost reports. One fault suffices to expire a lock
  with a worker that never reports; with two, both a first and a last attempt are
  lost. The theorems hold for any number, here and for the other modules.
- `analysis_liveness` allows one fault for a reason: with two, both rows of the instance
  can expire on their last attempt, and then no poll has a row to claim. That is the
  first of the observations above, not an artefact; a job settles only as long as
  some other row becomes claimable.
- `analysis_liveness` excludes overlap for size only; it passes with overlap as well.
- `MaxRequests` bounds moderator requests: three suffice for a double review, or for
  a removal, its appeal and a competing action; the disagreements need up to four.
- In `Allowance`, an uncompleted reservation lives as long as a day and a completed one
  longer, so that reservations cross midnight and the end of the month. Three uploads
  exceed every limit (1 a day, 2 a month, 2 for the platform). A time one tick old is enough for
  each of the three exceptions of `LimitsHold`: dropping any one of them violates it.
- In `Sessions`, two requests are the fewest that race; three tokens make a chain of two
  rotations, or a session beside another one. `MaxExpired = 1` lets any one row expire
  at any point.
- `analysis_safety` lets moderators set one status (`Decisions = {"approved"}`), the one that
  publishes; the others differ only in what `Enforcement` checks.
- `Accounts` follows one clip and one export, since its statements are about one row each
  and an account may have one active export; two faults interrupt both attempts of a
  job, or two of the three jobs. The sweep has one attempt, since the next sweep is its retry.
  The two runs that find disagreements need no fault. A second upload would
  add only the order of removals within one list.
- In `Entitlements`, two events are what a stale answer and a transfer need; the four
  customers are one without the entitlement, one in trouble within a grace period, one for
  life without an entry and one in the sandbox.
- In `Community`, two votes are what a lost update needs, and one window and the next are
  what the sweep tells apart. Three versions are what a publication needs to
  meet a current version it did not see. Policies and votes meet in one place, the check
  of missing policies before a vote; the CONSTRAINT `Bounds` therefore publishes policies beside
  one request up to its rate limit, and lets votes overlap while no policy is published.
- Symmetry is used for workers, notices, moderators, users, uploads, tokens, links and requests, in safety
  runs only.
- `CHECK_DEADLOCK FALSE` appears where the instance ends when its bounded requests,
  time or uploads are used up, and in `analysis_liveness`, where the system really
  comes to rest after the sweep has expired on its last attempt.

### Fairness

Weak fairness of: time (locks expire, backoffs end), handlers (their context ends,
so they return), polls and reports (the loop is sequential and does nothing else),
restarts (`restart: unless-stopped`, `compose.yaml:161`) and the hourly sweep (the
loop enqueues it). Weak is enough and is what the code gives: none of these steps
competes with another for a resource that could disable it for ever. Nothing is assumed
of users, of moderators or of success: a handler
may fail every time, a worker may crash whenever faults are left.

`Accounts` has weak fairness of the claim of a row, of each attempt's next call (its context
ends, its lock expires) and of the hourly sweep; not of the user's requests, nor of the
passage of `execute_after`. `Entitlements` has weak fairness of a request's next step and of
the delivery of an event that was not acknowledged, which is what RevenueCat promises;
none of clients.

## 5. What is proved

`JobQueueProofs` proves for every set of jobs and workers, every `max_attempts`, and
any number of faults:

| Theorem | Statement |
| --- | --- |
| `TypeCorrect` | `Spec => []TypeOK` |
| `QueueIsConsistent` | `Spec => []QueueInv` |
| `LockNamesCurrentAttempt` | `Spec => []LockMeansCurrentAttempt` |
| `QueuedJobsCanBeClaimed` | `Spec => []NoQueuedJobIsSpent` |
| `BuriedJobsWereTried` | `Spec => []DeadJobsWereTriedInFull` |
| `DedupeKeysAreUnique` | `Spec => []OneLiveRowPerKey` |
| `QueueKeepsPromise` | `Spec => KeepsPromise`, the refinement of `DurableJob` |

The assumptions are those of `JobQueueAssumption`: attempt limits are positive, keys
are total, and the null values are not rows or workers.

The argument. None of the four safety invariants is inductive alone. `FailJob`
decides between requeueing and burying by the attempt in the worker's hand, so
`NoQueuedJobIsSpent` needs that this equals the row's count whenever the report is
accepted: `LockMeansCurrentAttempt`. That in turn holds because a worker has one
job at a time and the only step that counts an attempt, `Claim`, also overwrites
the lock with the name of a worker that was polling. `RunningJobsAreWithinLimit`
turns `>=` in the code into the equality of `DeadJobsWereTriedInFull`.
`TimeSetsMatchStatus` and `BusyWorkersHaveAJob` are bookkeeping. Their conjunction is
`QueueInv`; `ReportStep` and `ClaimStep` prove its two hard steps, `InvStep` the rest.
`PromiseStep` then maps each step to `DurableJob`: a report to `Finish` or `GiveUp`
of its row, a claim to `Try` of its row and `GiveUp` of the buried ones, all
other steps to at most one move.

`SessionsProofs` proves for every set of tokens, links and concurrent requests:

| Theorem | Statement |
| --- | --- |
| `SessionSafety` | `Spec => []SessionInv` |
| `SessionTypes` | `Spec => []SessionsTypeOK` |
| `NoForkedSession` | `Spec => []OneUsableToken` |
| `PasswordByLinkOnly` | `Spec => PasswordChangesByLink` |
| `LinksSettle` | `Spec => []VerificationLinksSettle` |
| `SessionsAreFamilies` | `Spec => KeepsFamilies`, the refinement of `SessionFamily` |

It assumes `SessionsAssumption`: the tables are disjoint and the null value is no row.

The argument. `OneUsableToken` is not inductive: a rotation makes its new token usable
because of what it read when it locked the old one, several steps before. `SessionInv`
says that this reading is still true when it writes: `RotatedTokensAreUsable` for
tokens, `RedeemedLinksAreOpen` for links, both kept up by `LocksExclude` - a row lock has
one holder, and whoever writes a row another may have locked waits for it. That is
where the code's FOR UPDATE matters; the mutants `ReadToken` and
`StartEmailVerificationUnlocked` take it away. `FamiliesAreNamed` keeps a login from
joining a family that exists. In the proof, `OthersKeep` carries the invariant of
requests that do not move across a step, `Private` and `Commit` apply it to
steps before a commit and to commits, and one lemma per commit adds what it does to
tokens and links. For the refinement, `TokenSteps` reduces every step to opening,
rotating or ending, and `FamilyMoves` maps those to the moves of one family.
`LinksSettle` has an invariant of its own, `LinkInv`: the user's row lock lets one
transaction at a time write links that verify (`OneVerifies`), and an UPDATE that consumes
links has all that are open in its snapshot when it runs (`ConsumesAll`). Both workflows
have the user's row, by FOR UPDATE or an UPDATE of it, before they look for links;
`StartPasswordReset` locks it FOR SHARE only, which is why nothing of the kind is true of reset links.

`EntitlementsProofs` proves for every set of users, events and overlapping requests, every
set of customers and any number of faults:

| Theorem | Statement |
| --- | --- |
| `EntitlementTypes` | `Spec => []EntitlementsTypeOK` |
| `EventsAreReflected` | `Spec => []RecordedEventsAreReflected` |
| `OverviewIsHonest` | `Spec => []OverviewAgreesWithUploads` |

It assumes `EntitlementsAssumption`, of which the order matters: a later answer never has an
earlier `request_date`. The argument: a request in progress carries answers that were
fetched after the event it was called for (`CallsNameEvents`, `EventsArePast`,
`AnswersAreRecent`); storing them leaves every row at least as recent as they are, whatever was
stored in between (`UpsertIsMonotone`). So a row written together with the event's record is
no older than the event, and no later write makes it older. For the overview,
`AnswerIsConsistent` proves of the pure function that an answer's status and its `active` flag
agree, and `AnswersAgree` that both tables hold the same answer at all times: their upserts
have one condition, in one transaction. Together they are `EntitlementsInv`.

`CommunityProofs` proves for every set of users, requests and versions, every window and
maximum:

| Theorem | Statement |
| --- | --- |
| `CommunityTypes` | `Spec => []CommunityTypeOK` |
| `VotesCounted` | `Spec => []VotesAreCounted` |
| `ExactlyOnePolicy` | `Spec => []OneCurrentPolicy` |
| `LimitsAreKept` | `Spec => []RateLimitHolds` |

It assumes `CommunityAssumption`. `VoteInv` adds to `VotesAreCounted` that the clip's row lock has one holder
(`OneHolder`), so that the aggregate a transaction computed is still that of the stored
votes when it commits (`SumIsCurrent`). `PolicyInv` adds that one transaction at a time has an
entry in the unique index (`OneInserter`) and has retired every current version
(`InserterRetired`): what the INSERT found is still true at the commit. `CountIsKept` says
that a counter equals the requests let through until its window ends, which the sweep
waits for; a statement that runs later may count anew, but no longer changes what was let
through by then.

`AnalysisProofs` proves for every set of jobs, submissions and workers, every
`max_attempts`, any number of faults, and with overlapping attempts:

| Theorem | Statement |
| --- | --- |
| `AnalysisUsesTheQueue` | `AnalysisSpec => UsesTheQueue`, the refinement of `JobQueue` |
| `AnalysisKeepsQueueInv` | `AnalysisSpec => []QueueInv` |
| `AnalysesAreDurable` | `AnalysisSpec => KeepsPromise`, the refinement of `DurableJob` |
| `AnalysisTypes` | `AnalysisSpec => []AnalysisTypeOK` |
| `PassedClipsWereScanned` | `AnalysisSpec => []OnlyScannedClipsPass` |
| `VerdictsSurvive` | `AnalysisSpec => VerdictSurvivesRetries` |
| `BuriedAnalysesAreRouted` | `ASSUME ~RoutingMayFail PROVE AnalysisSpec /\ [][NoReset]_allVars => []DeadAnalysisIsReviewed` |
| `DeadAnalysesAreReviewed` | `ASSUME ~AuditTyped, ~RoutingMayFail PROVE AnalysisSpec => []DeadAnalysisIsReviewed` |

The argument. Each action of the handler leaves the queue alone or is its step
`HandlerReturns` (`CallShape`), so the refinement holds and the theorems of the queue carry over
to the analysis without another proof. `HandlerInv` says where a handler stands: one that asks
the model or decides has recorded the inspection of its clip (`HandlersAreConsistent`).
`VerdictWrites` lists all steps that change a verification, with what they change it from;
`PassedClipsWereScanned` and `VerdictsSurvive` follow. A job is buried by the recovery in a
claim, which routes in the same transaction, or by the report of a failed last attempt;
between its routing write and that report `LastFailuresAreRouted` keeps the submission out of
`pending`, which needs the queue's `LockMeansCurrentAttempt`: the attempt in hand is
the row's last. The assumptions are needed: a routing write that fails leaves the submission
`pending` (`worker.go:140`), and a moderator may set `pending` by hand, which `NoReset`
excludes and which today cannot happen, since the database refuses the audit INSERT
(`submissions.go:400`).

`EnforcementProofs` proves for any number of moderators, notices and requests:

| Theorem | Statement |
| --- | --- |
| `EnforcementTypes` | `Spec => []EnforcementTypeOK` |
| `VisibleClipsAreStamped` | `Spec => []PublicationIsStamped` |
| `ReviewsAreSound` | `Spec => []ReviewInv` |
| `AppealsAreDecidedOnce` | `Spec => []OneReversalPerAppeal` |
| `TransitionsFollowTheTable` | `Spec => ReviewsFollowTheTable` |

`PublicationIsStamped` is inductive with the types alone: each of the seven writers of the
statuses computes `published_at` from what it writes in the same statement. The other two are
not: a review and a decision of an appeal commit a step after they read. `ReviewInv` says that
the row locks on notices and on appeals exclude (`LocksExclude`) and that what was found
under them is still so (`ReviewsAreValid`: the transition is in the table, the appeal
pending); `ReversalsNameAppeals` ties a reversal in the log to its appeal, so that a second one
would have found the appeal decided.

`AllowanceProofs` proves for every set of users and uploads, every limit and every
length of days, months and lifetimes:

| Theorem | Statement |
| --- | --- |
| `AllowanceTypes` | `Spec => []AllowanceTypeOK` |
| `UploadsHoldReservations` | `Spec => []UploadHoldsReservation` |
| `LimitsAreKept` | `Spec => []LimitsHold` |

All three hold for every `MaxLag`, however long transactions wait for their locks. For the second,
`RowsAgree` adds that an upload has a row when its reservation has one, and that pending
ones expire together. For the third, `LimitInv` bounds what a window has consumed *and*
what may yet be consumed in it (`HeldOn`, `HeldIn`, `ReservedWithinLimits`): the reservations
that are pending and were issued by the window's end, since a request names an upload its
caller knows. A creation that commits on the day of its time counts all of these
(`CountedBefore`), so with the new one they reach the limits at most (`OneAdded`). Every other
step leaves the three bounds alone because it adds nothing to what a window holds but
straddling uploads (`NothingAdded`, `UploadAddsNothing`): a submission moves an upload from
pending to consumed, a completion extends a reservation that is still pending, and what has
expired by the time of either is `straddled`. `NothingInTheFuture` and `WindowsInOrder` put
the windows of these times in order. The counting rests on the library's theorems about
cardinality and on `IsFiniteSet(Held)`: at any moment finitely many uploads have a row, however
large `Upload` is.

`AccountsProofs` proves for every set of uploads and exports, every `max_attempts` and any
number of faults:

| Theorem | Statement |
| --- | --- |
| `AccountsTypes` | `Spec => []AccountsTypeOK` |
| `DeletionsActForARequest` | `Spec => []DeletionActsForAnOpenRequest` |
| `DeletionsAreComplete` | `Spec => []DeletedAccountsLeaveNothing` |
| `ServedObjectsStay` | `Spec => []ServedObjectsExist` |

It assumes `AccountsAssumption`. The argument for a deletion: while a request is open the account
is restricted, so nothing new can be begun, and by the time it is due nothing that was begun
before is left (`RequestsRestrict`). Hence from the moment the deletion reads its list until it ends, every
object under a key that a row has ever named is on that list (`ListIsComplete`). That needs
to know where objects can be that no row names any more: nowhere, because the sweep marks a row
only after it has removed the object (`KeysHaveRows`, `ListedStays`). These, with
`ExportsAreBuilt` and the types, are `AccountInv`; a deletion that fails, is retried from the start or meets the sweep
half way preserves them. For served objects the danger is the sweep's list, which is
read first and acted on later: `ServedInv` says that what was listed stays unserved until it is
removed: a listed upload is one that was rejected or given up, or whose time is over, and the
only way it is served nevertheless is a completion that commits late, which `late` records
and the property excepts. Archives and processed clips have no exception. The theorems hold for
every `DueArguments`: for `{FALSE}`, the code as it is, those about deletions say only that
nothing is lost without a deletion; for `{TRUE}` or both they are about a deletion that
goes through.

Only model-checked: liveness under fairness, which is out of the proof system's reach
(`WebhooksConverge`, `ExportsSettle`, `ExpiredExportsMakeRoom`, `RequestedJobsSettle`,
`SubmissionsAreAnswered`). The properties of the three runs that find the code at odds with the repository are false and so are not theorems.

## 6. What is not modelled, and why

Of components with state: challenges (one INSERT each, the rest are reads), reports and
the actions and appeals about users (transactions of the shape `Enforcement` checks for
submissions; section 4 lists what was seen in them) and the e-mail jobs, which are rows of the
queue with a handler of one call. The other components listed as `not_modelled` in
`PROJECT.json` have no state of their own: clients, wiring, pure formatting, drawing and
cryptography. Within the modelled parts the contents of e-mails, audit events, details and
object data are left out, and object sizes, so that the rejection of a clip whose original was
swept (`processor.go:113`) is noted and not checked. The signature and the parsing of
webhooks are pure and left out.

## 7. Running

In this directory, `tlc -config MCJobQueueSafety.cfg MCJobQueue.tla` and likewise for
the other `MC*.cfg`; `tlapm JobQueueProofs.tla`, and
likewise for the other `*Proofs.tla`, for the proofs. `PROJECT.json` lists
all runs with what is expected of them, and for each checked property a mutant of
the model (an operator commented *Mutant*) that violates it.
