------------------------------- MODULE Community -------------------------------
(***************************************************************************)
(* What users do to each other's clips and what they must have agreed to   *)
(* first: votes (internal/store/submissions.go), blocks (safety.go),       *)
(* policies and their acceptance (policies.go), the middleware that lets a *)
(* request in (internal/httpapi/middleware.go) and the rate limits it      *)
(* keeps in the database (rate_limits.go).                                 *)
(*                                                                         *)
(* There is one clip and one kind of policy, which requires acceptance:    *)
(* clips and kinds do not meet in any statement.  The middleware reads the *)
(* user, the policies and the limit in statements of their own, before the *)
(* transaction of the handler; transactions run at READ COMMITTED, one     *)
(* action per statement that others can tell apart.                        *)
(***************************************************************************)
EXTENDS Integers, FiniteSets

CONSTANTS
  User,
  Owner,            \* the user whose clip is voted on
  Caller,           \* bound: the users who send requests in the instance
  Score,
  Vote, Admin,      \* requests in progress: votes, and PublishPolicy
  Version,          \* versions of the policy's document
  Seeded,           \* the versions a migration has published
  MayBlock,         \* bound: the pairs <<blocker, blocked>> of the instance
  Maximum, Window,  \* of the route's rate limit
  MaxTime,          \* bound: ticks in a behaviour
  None

Time == 0 .. MaxTime
Truncate(t) == t \div Window
Windows == 0 .. Truncate(MaxTime)
Ends(w) == (w + 1) * Window

ASSUME CommunityAssumption ==
  /\ Owner \in User /\ Caller \subseteq User
  /\ None \notin Score \cup Version
  /\ Seeded \subseteq Version /\ Cardinality(Seeded) <= 1
  /\ MayBlock \subseteq {p \in User \X User : p[1] # p[2]}
  /\ {Maximum, Window} \subseteq Nat \ {0} /\ MaxTime \in Nat

VARIABLES
  clock,
  account,      \* User -> users.status
  public,       \* whether the clip is passed and approved
  votes,        \* User -> the score of its row in votes, or None
  counted,      \* User -> the score in style_score and vote_count, or None
  blocks,       \* rows of user_blocks
  published,    \* rows of policies
  current,      \* those with is_current
  accepted,     \* rows of policy_acceptances: <<user, version>>
  limits,       \* rows of rate_limits: <<user, window>> -> count
  letThrough,   \* <<user, window>> -> votes the limit has let through
  vote,         \* Vote -> the request it is serving
  publication   \* Admin -> the transaction it is in

policyVars == <<published, current, accepted, publication>>
limitVars == <<limits, letThrough>>
clipVars == <<public, votes, counted>>
userVars == <<account, blocks>>
vars == <<clock, userVars, clipVars, policyVars, limitVars, vote>>

-----------------------------------------------------------------------------
Steps == {"authenticated", "accepted", "limited", "locked", "clear", "stored"}

VoteRequest == [step : Steps, user : User, score : Score, at : Time,
                sum : [User -> Score \cup {None}]]
Publication == [step : {"begun", "retired", "inserted"}, version : Version,
                saw : SUBSET Version, retired : SUBSET Version]
Idle == [step |-> "idle"]
NoVotes == [u \in User |-> None]

CommunityTypeOK ==
  /\ clock \in Time
  /\ account \in [User -> {"active", "deletion_pending", "deleted"}]
  /\ public \in BOOLEAN
  /\ {votes, counted} \subseteq [User -> Score \cup {None}]
  /\ blocks \subseteq MayBlock
  /\ current \subseteq published /\ published \subseteq Version
  /\ accepted \subseteq User \X published
  /\ limits \in [User \X Windows -> 0 .. Maximum]
  /\ letThrough \in [User \X Windows -> Nat]
  /\ vote \in [Vote -> VoteRequest \cup {Idle}]
  /\ publication \in [Admin -> Publication \cup {Idle}]

Init ==
  /\ clock = 0
  /\ account = [u \in User |-> "active"] /\ blocks = {}
  /\ public = TRUE /\ votes = NoVotes /\ counted = NoVotes
  /\ published = Seeded /\ current = Seeded /\ accepted = {}
  /\ limits = [k \in User \X Windows |-> 0]
  /\ letThrough = [k \in User \X Windows |-> 0]
  /\ vote = [r \in Vote |-> Idle]
  /\ publication = [a \in Admin |-> Idle]

-----------------------------------------------------------------------------
(* The way in: authenticate, requireActive, requirePolicies, rateLimitActor *)

At(r, step) == vote[r].step = step
Enter(r, step) == vote' = [vote EXCEPT ![r].step = step]
End(r) == vote' = [vote EXCEPT ![r] = Idle]

Authenticate(r, u, s) ==
  /\ vote[r] = Idle /\ account[u] = "active"
  /\ vote' = [vote EXCEPT ![r] =
       [step |-> "authenticated", user |-> u, score |-> s, at |-> 0, sum |-> NoVotes]]
  /\ UNCHANGED <<clock, userVars, clipVars, policyVars, limitVars>>

\* NOT EXISTS an acceptance of a current version that requires one.
MissingRequiredPolicies(u) == {v \in current : <<u, v>> \notin accepted}

\* With its answer the request reads the clock for its rate limit.
RequirePolicies(r) ==
  /\ At(r, "authenticated")
  /\ IF MissingRequiredPolicies(vote[r].user) = {}
       THEN vote' = [vote EXCEPT ![r].step = "accepted", ![r].at = clock]
       ELSE End(r)
  /\ UNCHANGED <<clock, userVars, clipVars, policyVars, limitVars>>

\* Mutant: no WHERE count < maximum.
CountOnly(r) ==
  LET k == <<vote[r].user, Truncate(vote[r].at)>> IN
  /\ At(r, "accepted")
  /\ limits' = [limits EXCEPT ![k] = @ + 1]
  /\ letThrough' = [letThrough EXCEPT ![k] = @ + 1]
  /\ Enter(r, "limited")
  /\ UNCHANGED <<clock, userVars, clipVars, policyVars>>

\* One INSERT ... ON CONFLICT DO UPDATE ... WHERE count < maximum, in the window
\* of the time the request read, which may have ended since.
AllowRateLimit(r) ==
  LET k == <<vote[r].user, Truncate(vote[r].at)>> IN
  /\ At(r, "accepted")
  /\ IF limits[k] < Maximum
       THEN /\ limits' = [limits EXCEPT ![k] = @ + 1]
            /\ letThrough' = [letThrough EXCEPT ![k] = @ + 1]
            /\ vote' = [vote EXCEPT ![r].step = "limited", ![r].at = 0]
       ELSE End(r) /\ UNCHANGED limitVars
  /\ UNCHANGED <<clock, userVars, clipVars, policyVars>>

\* Mutant: rows are deleted by the start of their window.
DeleteStartedLimits ==
  /\ \E k \in DOMAIN limits : limits[k] # 0 /\ k[2] * Window < clock
  /\ limits' = [k \in DOMAIN limits |-> IF k[2] * Window < clock THEN 0 ELSE limits[k]]
  /\ UNCHANGED <<clock, userVars, clipVars, policyVars, letThrough, vote>>

\* CleanupDatabase: DELETE FROM rate_limits WHERE expires_at < now().
CleanupDatabase ==
  /\ \E k \in DOMAIN limits : limits[k] # 0 /\ Ends(k[2]) < clock
  /\ limits' = [k \in DOMAIN limits |-> IF Ends(k[2]) < clock THEN 0 ELSE limits[k]]
  /\ UNCHANGED <<clock, userVars, clipVars, policyVars, letThrough, vote>>

-----------------------------------------------------------------------------
(* Vote.                                                                   *)

Holds(r) == vote[r].step \in {"locked", "clear", "stored"}

Refused(u) == ~public \/ u = Owner

\* Mutant: SELECT without FOR UPDATE.
ReadSubmission(r) ==
  /\ At(r, "limited")
  /\ IF Refused(vote[r].user) THEN End(r) ELSE Enter(r, "locked")
  /\ UNCHANGED <<clock, userVars, clipVars, policyVars, limitVars>>

\* SELECT ... FOR UPDATE: the clip stays locked until the transaction ends.
LockSubmission(r) ==
  /\ At(r, "limited")
  /\ ~\E other \in Vote : Holds(other)
  /\ IF Refused(vote[r].user) THEN End(r) ELSE Enter(r, "locked")
  /\ UNCHANGED <<clock, userVars, clipVars, policyVars, limitVars>>

CheckBlocks(r) ==
  /\ At(r, "locked")
  /\ IF blocks \cap {<<vote[r].user, Owner>>, <<Owner, vote[r].user>>} = {}
       THEN Enter(r, "clear") ELSE End(r)
  /\ UNCHANGED <<clock, userVars, clipVars, policyVars, limitVars>>

\* The upsert of the vote, and the UPDATE whose subquery counts the votes its
\* snapshot sees: the committed ones and its own.
StoreVote(r) ==
  /\ At(r, "clear")
  /\ vote' = [vote EXCEPT ![r].step = "stored",
                          ![r].sum = [votes EXCEPT ![vote[r].user] = vote[r].score]]
  /\ UNCHANGED <<clock, userVars, clipVars, policyVars, limitVars>>

CommitVote(r) ==
  /\ At(r, "stored")
  /\ votes' = [votes EXCEPT ![vote[r].user] = vote[r].score]
  /\ counted' = vote[r].sum
  /\ End(r)
  /\ UNCHANGED <<clock, userVars, public, policyVars, limitVars>>

\* The request times out, its client leaves or its server stops: the
\* transaction is rolled back, the count of the limit is not.
VoteFails(r) ==
  /\ vote[r] # Idle
  /\ End(r)
  /\ UNCHANGED <<clock, userVars, clipVars, policyVars, limitVars>>

\* A moderator or the worker hides or restores the clip, whose row they lock.
Moderate ==
  /\ ~\E r \in Vote : Holds(r)
  /\ public' = ~public
  /\ UNCHANGED <<clock, userVars, votes, counted, policyVars, limitVars, vote>>

-----------------------------------------------------------------------------
(* BlockUser and UnblockUser, of active users without missing policies.    *)

MayAct(u) == account[u] = "active" /\ MissingRequiredPolicies(u) = {}

BlockUser(u, v) ==
  /\ MayAct(u) /\ account[v] # "deleted"
  /\ blocks' = blocks \cup {<<u, v>>}
  /\ UNCHANGED <<clock, account, clipVars, policyVars, limitVars, vote>>

UnblockUser(u, v) ==
  /\ MayAct(u) /\ <<u, v>> \in blocks
  /\ blocks' = blocks \ {<<u, v>>}
  /\ UNCHANGED <<clock, account, clipVars, policyVars, limitVars, vote>>

-----------------------------------------------------------------------------
(* AcceptPolicies and PublishPolicy.                                       *)

\* INSERT ... SELECT of a current version; one accepted before is ignored and
\* any other is refused.
AcceptPolicies(u, v) ==
  /\ account[u] # "deleted" /\ v \in current
  /\ accepted' = accepted \cup {<<u, v>>}
  /\ UNCHANGED <<clock, userVars, clipVars, published, current, publication, limitVars, vote>>

Publishes(a, step) == publication[a].step = step
EndPublication(a) == publication' = [publication EXCEPT ![a] = Idle]

\* UPDATE policies SET is_current = false: its snapshot ...
BeginPublication(a, v) ==
  /\ publication[a] = Idle
  /\ publication' = [publication EXCEPT ![a] =
       [step |-> "begun", version |-> v, saw |-> current, retired |-> {}]]
  /\ UNCHANGED <<clock, userVars, clipVars, published, current, accepted, limitVars, vote>>

\* ... and the rows it changes, when nobody else holds them, provided they are
\* still current.
RetireCurrent(a) ==
  /\ Publishes(a, "begun")
  /\ \A other \in Admin :
       publication[other] # Idle => publication[other].retired \cap publication[a].saw = {}
  /\ publication' = [publication EXCEPT ![a].step = "retired",
                                        ![a].retired = publication[a].saw \cap current]
  /\ UNCHANGED <<clock, userVars, clipVars, published, current, accepted, limitVars, vote>>

\* Mutant: no unique index on the current version of a kind.
InsertUnchecked(a) ==
  /\ Publishes(a, "retired")
  /\ ~\E other \in Admin : Publishes(other, "inserted")
  /\ IF publication[a].version \notin published
       THEN publication' = [publication EXCEPT ![a].step = "inserted"]
       ELSE EndPublication(a)
  /\ UNCHANGED <<clock, userVars, clipVars, published, current, accepted, limitVars, vote>>

\* The INSERT waits for another that policies_one_current_per_kind might set it
\* against, and fails on a current version the UPDATE did not see, or on its
\* own number.
InsertPolicy(a) ==
  /\ Publishes(a, "retired")
  /\ ~\E other \in Admin : Publishes(other, "inserted")
  /\ IF current \subseteq publication[a].retired /\ publication[a].version \notin published
       THEN publication' = [publication EXCEPT ![a].step = "inserted"]
       ELSE EndPublication(a)
  /\ UNCHANGED <<clock, userVars, clipVars, published, current, accepted, limitVars, vote>>

CommitPublication(a) ==
  /\ Publishes(a, "inserted")
  /\ published' = published \cup {publication[a].version}
  /\ current' = (current \ publication[a].retired) \cup {publication[a].version}
  /\ EndPublication(a)
  /\ UNCHANGED <<clock, userVars, clipVars, accepted, limitVars, vote>>

PublicationFails(a) ==
  /\ publication[a] # Idle
  /\ EndPublication(a)
  /\ UNCHANGED <<clock, userVars, clipVars, published, current, accepted, limitVars, vote>>

-----------------------------------------------------------------------------
(* The end of an account (Accounts has the whole of it).  The owner stays:  *)
(* with the account the clip would go.                                      *)

RequestAccountDeletion(u) ==
  /\ u # Owner /\ account[u] = "active"
  /\ account' = [account EXCEPT ![u] = "deletion_pending"]
  /\ UNCHANGED <<clock, blocks, clipVars, policyVars, limitVars, vote>>

CancelAccountDeletion(u) ==
  /\ account[u] = "deletion_pending"
  /\ account' = [account EXCEPT ![u] = "active"]
  /\ UNCHANGED <<clock, blocks, clipVars, policyVars, limitVars, vote>>

\* CompleteAccountDeletion, a grace period later, which outlasts requests: the
\* votes go, what was counted of them stays.
CompleteAccountDeletion(u) ==
  /\ account[u] = "deletion_pending"
  /\ \A r \in Vote : vote[r] # Idle => vote[r].user # u
  /\ account' = [account EXCEPT ![u] = "deleted"]
  /\ votes' = [votes EXCEPT ![u] = None]
  /\ blocks' = {p \in blocks : u \notin {p[1], p[2]}}
  /\ accepted' = {p \in accepted : p[1] # u}
  /\ UNCHANGED <<clock, public, counted, published, current, publication, limitVars, vote>>

-----------------------------------------------------------------------------
Tick ==
  /\ clock < MaxTime
  /\ clock' = clock + 1
  /\ UNCHANGED <<userVars, clipVars, policyVars, limitVars, vote>>

VoteStep(r) ==
  \/ \E u \in Caller, s \in Score : Authenticate(r, u, s)
  \/ RequirePolicies(r) \/ AllowRateLimit(r)
  \/ LockSubmission(r) \/ CheckBlocks(r) \/ StoreVote(r) \/ CommitVote(r)
  \/ VoteFails(r)

PublicationStep(a) ==
  \/ \E v \in Version : BeginPublication(a, v)
  \/ RetireCurrent(a) \/ InsertPolicy(a) \/ CommitPublication(a)
  \/ PublicationFails(a)

UserStep ==
  \/ \E p \in MayBlock : BlockUser(p[1], p[2]) \/ UnblockUser(p[1], p[2])
  \/ \E u \in Caller :
       \/ \E v \in Version : AcceptPolicies(u, v)
       \/ RequestAccountDeletion(u) \/ CancelAccountDeletion(u)
       \/ CompleteAccountDeletion(u)

Next ==
  \/ Tick \/ CleanupDatabase \/ Moderate \/ UserStep
  \/ \E r \in Vote : VoteStep(r)
  \/ \E a \in Admin : PublicationStep(a)

Spec == Init /\ [][Next]_vars

-----------------------------------------------------------------------------
(* Properties.                                                             *)

\* "Style votes with transactional score aggregation" (README.md:29): however
\* votes, changes of votes and failures overlap, the score shows the vote of
\* every user who still has an account, as the user last gave it.  (Votes that
\* went with an account are counted until the next vote, accounts.go:481.)
VotesAreCounted ==
  \A u \in User : account[u] # "deleted" => counted[u] = votes[u]

\* However publications overlap and fail, a kind of policy that was ever
\* published has exactly one current version: a second one could not be told
\* from it, and without one nobody would be asked to accept anything.
OneCurrentPolicy ==
  /\ Cardinality(current) <= 1
  /\ published # {} => current # {}

\* However many requests of a user there are at once, and whenever the sweep
\* runs, a window has not let more of them through than its maximum by the time
\* it ends.  (A request whose statement waited beyond that is counted anew once
\* the counter was swept.)
RateLimitHolds ==
  \A k \in DOMAIN letThrough : clock <= Ends(k[2]) => letThrough[k] <= Maximum
===============================================================================
