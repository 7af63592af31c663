--------------------------- MODULE CommunityProofs ---------------------------
(***************************************************************************)
(* Machine-checked theorems about Community, for every set of users,       *)
(* requests, administrators and versions and every rate limit.             *)
(***************************************************************************)
EXTENDS Community, FiniteSetTheorems, TLAPS

\* Counting one more for a key, below a maximum or without one.
LEMMA CountOne ==
  ASSUME NEW D, NEW k, NEW M \in Nat, NEW f
  PROVE  /\ f \in [D -> Nat] => [f EXCEPT ![k] = @ + 1] \in [D -> Nat]
         /\ f \in [D -> 0 .. M] /\ f[k] < M => [f EXCEPT ![k] = @ + 1] \in [D -> 0 .. M]
<1> DEFINE g == [f EXCEPT ![k] = @ + 1]
<1>1. ASSUME f \in [D -> Nat] PROVE g \in [D -> Nat]
  <2>1. \A x \in D : g[x] = IF x = k THEN f[x] + 1 ELSE f[x]
    BY <1>1
  <2>2. DOMAIN g = D /\ g = [x \in D |-> g[x]]
    BY <1>1
  <2> HIDE DEF g
  <2>3. \A x \in D : g[x] \in Nat
    BY <1>1, <2>1
  <2> QED
    BY <2>2, <2>3
<1>2. ASSUME f \in [D -> 0 .. M], f[k] < M PROVE g \in [D -> 0 .. M]
  <2>1. \A x \in D : g[x] = IF x = k THEN f[x] + 1 ELSE f[x]
    BY <1>2
  <2>2. DOMAIN g = D /\ g = [x \in D |-> g[x]]
    BY <1>2
  <2> HIDE DEF g
  <2>3. \A x \in D : g[x] \in 0 .. M
    BY <1>2, <2>1
  <2> QED
    BY <2>2, <2>3
<1> QED
  BY <1>1, <1>2

\* The types of the rows and of the transactions.
LEMMA TypeStep == CommunityTypeOK /\ [Next]_vars => CommunityTypeOK'
<1> SUFFICES ASSUME CommunityTypeOK, [Next]_vars PROVE CommunityTypeOK'
  OBVIOUS
<1> USE CommunityAssumption DEF CommunityTypeOK
<1> DEFINE Frame == UNCHANGED <<clock, userVars, clipVars, policyVars, limitVars>>
<1>zero. 0 \in Time
  BY DEF Time
<1>none. NoVotes \in [User -> Score \cup {None}]
  BY DEF NoVotes
<1>served. ASSUME NEW r \in Vote, NEW s \in Steps, At(r, s) PROVE vote[r] \in VoteRequest
  BY <1>served DEF At, Idle, Steps
<1>end. ASSUME NEW r \in Vote, End(r) PROVE vote' \in [Vote -> VoteRequest \cup {Idle}]
  BY <1>end DEF End
<1>enter. ASSUME NEW r \in Vote, NEW s \in Steps, vote[r] \in VoteRequest, Enter(r, s)
          PROVE  vote' \in [Vote -> VoteRequest \cup {Idle}]
  BY <1>enter DEF Enter, VoteRequest
<1>frame. ASSUME Frame, vote' \in [Vote -> VoteRequest \cup {Idle}] PROVE CommunityTypeOK'
  BY <1>frame DEF userVars, clipVars, policyVars, limitVars
<1>1. CASE UNCHANGED vars
  BY <1>1 DEF vars, userVars, clipVars, policyVars, limitVars
<1>2. CASE Tick
  BY <1>2 DEF Tick, Time, userVars, clipVars, policyVars, limitVars
<1>3. CASE CleanupDatabase
  BY <1>3 DEF CleanupDatabase, userVars, clipVars, policyVars
<1>4. CASE Moderate
  BY <1>4 DEF Moderate, userVars, policyVars, limitVars
<1>5. ASSUME NEW r \in Vote, NEW u \in Caller, NEW s \in Score, Authenticate(r, u, s)
      PROVE  CommunityTypeOK'
  <2>1. [step |-> "authenticated", user |-> u, score |-> s, at |-> 0, sum |-> NoVotes]
          \in VoteRequest
    BY <1>none, <1>zero DEF VoteRequest, Steps
  <2> QED
    BY <1>5, <2>1, <1>frame DEF Authenticate
<1>6. ASSUME NEW r \in Vote, RequirePolicies(r) PROVE CommunityTypeOK'
  <2>1. vote[r] \in VoteRequest
    BY <1>6, <1>served DEF RequirePolicies, Steps
  <2>2. [vote[r] EXCEPT !.step = "accepted", !.at = clock] \in VoteRequest
    BY <2>1 DEF VoteRequest, Steps
  <2>3. vote' = [vote EXCEPT ![r] = [vote[r] EXCEPT !.step = "accepted", !.at = clock]] \/ End(r)
    BY <1>6 DEF RequirePolicies
  <2>4. vote' \in [Vote -> VoteRequest \cup {Idle}]
    BY <2>2, <2>3, <1>end
  <2> QED
    BY <1>6, <2>4, <1>frame DEF RequirePolicies
<1>7. ASSUME NEW r \in Vote, AllowRateLimit(r) PROVE CommunityTypeOK'
  <2> DEFINE k == <<vote[r].user, Truncate(vote[r].at)>>
  <2>1. vote[r] \in VoteRequest
    BY <1>7, <1>served DEF AllowRateLimit, Steps
  <2>2. [vote[r] EXCEPT !.step = "limited", !.at = 0] \in VoteRequest
    BY <2>1, <1>zero DEF VoteRequest, Steps
  <2>3. CASE limits[k] < Maximum
    <3> HIDE DEF k
    <3>1. limits' = [limits EXCEPT ![k] = @ + 1] /\ letThrough' = [letThrough EXCEPT ![k] = @ + 1]
      BY <1>7, <2>3 DEF AllowRateLimit, k
    <3>2. limits' \in [User \X Windows -> 0 .. Maximum]
      BY <3>1, <2>3, CountOne
    <3>3. letThrough' \in [User \X Windows -> Nat]
      BY <3>1, CountOne
    <3>4. vote' \in [Vote -> VoteRequest \cup {Idle}]
      BY <1>7, <2>2, <2>3 DEF AllowRateLimit, k
    <3> QED
      BY <1>7, <3>2, <3>3, <3>4 DEF AllowRateLimit, userVars, clipVars, policyVars
  <2>4. CASE ~(limits[k] < Maximum)
    BY <1>7, <2>4, <1>end, <1>frame DEF AllowRateLimit, limitVars
  <2> QED
    BY <2>3, <2>4
<1>8. ASSUME NEW r \in Vote, LockSubmission(r) \/ CheckBlocks(r) PROVE CommunityTypeOK'
  <2>1. vote[r] \in VoteRequest
    BY <1>8, <1>served DEF LockSubmission, CheckBlocks, Steps
  <2>2. Enter(r, "locked") \/ Enter(r, "clear") \/ End(r)
    BY <1>8 DEF LockSubmission, CheckBlocks
  <2>3. vote' \in [Vote -> VoteRequest \cup {Idle}]
    BY <2>1, <2>2, <1>enter, <1>end DEF Steps
  <2> QED
    BY <1>8, <2>3, <1>frame DEF LockSubmission, CheckBlocks
<1>9. ASSUME NEW r \in Vote, StoreVote(r) PROVE CommunityTypeOK'
  <2>1. vote[r] \in VoteRequest
    BY <1>9, <1>served DEF StoreVote, Steps
  <2>2. [votes EXCEPT ![vote[r].user] = vote[r].score] \in [User -> Score \cup {None}]
    BY <2>1 DEF VoteRequest
  <2>3. [vote[r] EXCEPT !.step = "stored",
                        !.sum = [votes EXCEPT ![vote[r].user] = vote[r].score]] \in VoteRequest
    BY <2>1, <2>2 DEF VoteRequest, Steps
  <2> QED
    BY <1>9, <2>3, <1>frame DEF StoreVote
<1>10. ASSUME NEW r \in Vote, CommitVote(r) PROVE CommunityTypeOK'
  <2>1. vote[r] \in VoteRequest
    BY <1>10, <1>served DEF CommitVote, Steps
  <2>2. votes' \in [User -> Score \cup {None}] /\ counted' \in [User -> Score \cup {None}]
    BY <1>10, <2>1 DEF CommitVote, VoteRequest
  <2> QED
    BY <1>10, <2>2, <1>end DEF CommitVote, userVars, policyVars, limitVars
<1>11. ASSUME NEW r \in Vote, VoteFails(r) PROVE CommunityTypeOK'
  BY <1>11, <1>end, <1>frame DEF VoteFails
<1>12. ASSUME NEW p \in MayBlock, BlockUser(p[1], p[2]) \/ UnblockUser(p[1], p[2])
       PROVE  CommunityTypeOK'
  <2>1. <<p[1], p[2]>> = p
    OBVIOUS
  <2> QED
    BY <1>12, <2>1 DEF BlockUser, UnblockUser, clipVars, policyVars, limitVars
<1>13. ASSUME NEW u \in Caller, NEW v \in Version, AcceptPolicies(u, v) PROVE CommunityTypeOK'
  BY <1>13 DEF AcceptPolicies, userVars, clipVars, limitVars
<1>14. ASSUME NEW u \in Caller,
              RequestAccountDeletion(u) \/ CancelAccountDeletion(u)
       PROVE  CommunityTypeOK'
  BY <1>14 DEF RequestAccountDeletion, CancelAccountDeletion, clipVars, policyVars, limitVars
<1>15. ASSUME NEW u \in Caller, CompleteAccountDeletion(u) PROVE CommunityTypeOK'
  BY <1>15 DEF CompleteAccountDeletion, limitVars
<1>pub. ASSUME NEW a \in Admin, NEW x \in Publication \cup {Idle},
               publication' = [publication EXCEPT ![a] = x],
               UNCHANGED <<clock, userVars, clipVars, published, current, accepted, limitVars, vote>>
        PROVE  CommunityTypeOK'
  BY <1>pub DEF userVars, clipVars, limitVars
<1>open. ASSUME NEW a \in Admin, NEW s \in {"begun", "retired", "inserted"},
                Publishes(a, s)
         PROVE  publication[a] \in Publication
  BY <1>open DEF Publishes, Idle
<1>16. ASSUME NEW a \in Admin, NEW v \in Version, BeginPublication(a, v) PROVE CommunityTypeOK'
  <2>1. [step |-> "begun", version |-> v, saw |-> current, retired |-> {}] \in Publication
    BY DEF Publication
  <2> QED
    BY <1>16, <2>1, <1>pub DEF BeginPublication
<1>17. ASSUME NEW a \in Admin, RetireCurrent(a) PROVE CommunityTypeOK'
  <2>1. publication[a] \in Publication
    BY <1>17, <1>open DEF RetireCurrent
  <2>2. [publication[a] EXCEPT !.step = "retired", !.retired = publication[a].saw \cap current]
          \in Publication
    <3>1. current \subseteq Version
      OBVIOUS
    <3>2. publication[a].saw \cap current \in SUBSET Version
      BY <3>1
    <3> HIDE DEF CommunityTypeOK
    <3> QED
      BY <2>1, <3>2 DEF Publication
  <2>3. publication' = [publication EXCEPT ![a] =
          [publication[a] EXCEPT !.step = "retired", !.retired = publication[a].saw \cap current]]
    BY <1>17 DEF RetireCurrent
  <2>4. UNCHANGED <<clock, userVars, clipVars, published, current, accepted, limitVars, vote>>
    BY <1>17 DEF RetireCurrent
  <2> HIDE DEF CommunityTypeOK
  <2> QED
    BY <2>2, <2>3, <2>4, <1>pub
<1>18. ASSUME NEW a \in Admin, InsertPolicy(a) PROVE CommunityTypeOK'
  <2>1. publication[a] \in Publication
    BY <1>18, <1>open DEF InsertPolicy
  <2>2. [publication[a] EXCEPT !.step = "inserted"] \in Publication
    BY <2>1 DEF Publication
  <2> QED
    BY <1>18, <2>2, <1>pub DEF InsertPolicy, EndPublication
<1>19. ASSUME NEW a \in Admin, CommitPublication(a) PROVE CommunityTypeOK'
  <2>1. publication[a] \in Publication
    BY <1>19, <1>open DEF CommitPublication
  <2>2. publication[a].version \in Version
    BY <2>1 DEF Publication
  <2> QED
    BY <1>19, <2>2 DEF CommitPublication, EndPublication, userVars, clipVars, limitVars
<1>20. ASSUME NEW a \in Admin, PublicationFails(a) PROVE CommunityTypeOK'
  BY <1>20, <1>pub DEF PublicationFails, EndPublication
<1>21. CASE Tick \/ CleanupDatabase \/ Moderate
  BY <1>2, <1>3, <1>4, <1>21
<1>22. CASE \E r \in Vote : VoteStep(r)
  BY <1>5, <1>6, <1>7, <1>8, <1>9, <1>10, <1>11, <1>22 DEF VoteStep
<1>23. CASE \E a \in Admin : PublicationStep(a)
  BY <1>16, <1>17, <1>18, <1>19, <1>20, <1>23 DEF PublicationStep
<1>24. CASE UserStep
  BY <1>12, <1>13, <1>14, <1>15, <1>24 DEF UserStep
<1> QED
  BY <1>1, <1>21, <1>22, <1>23, <1>24 DEF Next

\* The initial tables: one current policy, no votes, blocks or counters.
LEMMA TypeInit == Init => CommunityTypeOK
BY CommunityAssumption DEF Init, CommunityTypeOK, Time, NoVotes

\* The database stays within its schema and the transactions within their
\* records.
THEOREM CommunityTypes == Spec => []CommunityTypeOK
BY TypeInit, TypeStep, PTL DEF Spec

-----------------------------------------------------------------------------
(* Votes.                                                                  *)

\* The lock on the clip's row is held by one transaction, whose sum is the
\* committed votes and its own: nobody else can have committed one since.
OneHolder == \A r, q \in Vote : Holds(r) /\ Holds(q) => r = q

SumIsCurrent ==
  \A r \in Vote : At(r, "stored") => \A u \in User : account[u] # "deleted" =>
    vote[r].sum[u] = IF u = vote[r].user THEN vote[r].score ELSE votes[u]

VoteInv == CommunityTypeOK /\ OneHolder /\ SumIsCurrent /\ VotesAreCounted

\* What leaves the votes and the requests alone, and revives no account.
LEMMA VotesUnchanged ==
  ASSUME VoteInv, UNCHANGED <<votes, counted, vote>>,
         \A u \in User : account[u] = "deleted" => account'[u] = "deleted"
  PROVE  OneHolder' /\ SumIsCurrent' /\ VotesAreCounted'
BY DEF VoteInv, OneHolder, SumIsCurrent, VotesAreCounted, Holds, At

\* A request that moves on without the lock, or lets it go.
LEMMA WithoutLock ==
  ASSUME VoteInv, UNCHANGED <<account, votes, counted>>, NEW r \in Vote, NEW x,
         vote' = [vote EXCEPT ![r] = x], x.step \notin {"locked", "clear", "stored"}
  PROVE  OneHolder' /\ SumIsCurrent' /\ VotesAreCounted'
<1>1. \A q \in Vote : vote'[q] = IF q = r THEN x ELSE vote[q]
  BY DEF VoteInv, CommunityTypeOK
<1> QED
  BY <1>1 DEF VoteInv, OneHolder, SumIsCurrent, VotesAreCounted, Holds, At

\* Only the committed votes of a transaction that holds the lock, and the end
\* of an account, change what is to be counted.
LEMMA VoteInvStep == VoteInv /\ [Next]_vars => VoteInv'
<1> SUFFICES ASSUME VoteInv, [Next]_vars PROVE OneHolder' /\ SumIsCurrent' /\ VotesAreCounted'
  BY TypeStep DEF VoteInv
<1> USE DEF userVars, clipVars, policyVars, limitVars
<1>1. CASE UNCHANGED vars
  BY <1>1, VotesUnchanged DEF vars
<1>2. CASE Tick \/ CleanupDatabase \/ Moderate
  BY <1>2, VotesUnchanged DEF Tick, CleanupDatabase, Moderate
<1>3. ASSUME NEW a \in Admin, PublicationStep(a)
      PROVE  UNCHANGED <<account, votes, counted, vote>>
  BY <1>3 DEF PublicationStep, BeginPublication, RetireCurrent, InsertPolicy,
              CommitPublication, PublicationFails
<1>4. ASSUME NEW r \in Vote, VoteStep(r)
      PROVE  OneHolder' /\ SumIsCurrent' /\ VotesAreCounted'
  <2>type. vote \in [Vote -> VoteRequest \cup {Idle}] /\ votes \in [User -> Score \cup {None}]
    BY DEF VoteInv, CommunityTypeOK
  <2>end. ASSUME End(r), UNCHANGED <<account, votes, counted>>
          PROVE  OneHolder' /\ SumIsCurrent' /\ VotesAreCounted'
    <3>1. Idle.step \notin {"locked", "clear", "stored"}
      BY DEF Idle
    <3> QED
      BY <2>end, <3>1, WithoutLock DEF End
  <2>1. ASSUME NEW u \in Caller, NEW s \in Score, Authenticate(r, u, s)
        PROVE  OneHolder' /\ SumIsCurrent' /\ VotesAreCounted'
    BY <2>1, WithoutLock DEF Authenticate
  <2>2. CASE RequirePolicies(r)
    <3>1. vote[r] \in VoteRequest
      BY <2>2, <2>type DEF RequirePolicies, At, Idle
    <3> DEFINE y == [vote[r] EXCEPT !.step = "accepted", !.at = clock]
    <3>2. y.step = "accepted"
      BY <3>1 DEF VoteRequest
    <3>3. CASE End(r)
      BY <2>2, <2>end, <3>3 DEF RequirePolicies
    <3>4. CASE ~End(r)
      <4>1. vote' = [vote EXCEPT ![r] = y] /\ UNCHANGED <<account, votes, counted>>
        BY <2>2, <3>4 DEF RequirePolicies
      <4> HIDE DEF y
      <4> QED
        BY <3>2, <4>1, WithoutLock
    <3> QED
      BY <3>3, <3>4
  <2>3. CASE AllowRateLimit(r)
    <3>1. vote[r] \in VoteRequest
      BY <2>3, <2>type DEF AllowRateLimit, At, Idle
    <3> DEFINE y == [vote[r] EXCEPT !.step = "limited", !.at = 0]
    <3>2. y.step = "limited"
      BY <3>1 DEF VoteRequest
    <3>3. CASE End(r)
      BY <2>3, <2>end, <3>3 DEF AllowRateLimit
    <3>4. CASE ~End(r)
      <4>1. vote' = [vote EXCEPT ![r] = y] /\ UNCHANGED <<account, votes, counted>>
        BY <2>3, <3>4 DEF AllowRateLimit
      <4> HIDE DEF y
      <4> QED
        BY <3>2, <4>1, WithoutLock
    <3> QED
      BY <3>3, <3>4
  <2>4. CASE LockSubmission(r)
    <3>1. CASE End(r)
      BY <2>4, <2>end, <3>1 DEF LockSubmission
    <3>2. CASE Enter(r, "locked")
      BY <2>4, <2>type, <3>2
         DEF LockSubmission, Enter, VoteInv, OneHolder, SumIsCurrent, VotesAreCounted, Holds,
             At, VoteRequest, Idle
    <3> QED
      BY <2>4, <3>1, <3>2 DEF LockSubmission
  <2>5. CASE CheckBlocks(r)
    <3>1. CASE End(r)
      BY <2>5, <2>end, <3>1 DEF CheckBlocks
    <3>2. CASE Enter(r, "clear")
      BY <2>5, <2>type, <3>2
         DEF CheckBlocks, Enter, VoteInv, OneHolder, SumIsCurrent, VotesAreCounted, Holds,
             At, VoteRequest, Idle
    <3> QED
      BY <2>5, <3>1, <3>2 DEF CheckBlocks
  <2>6. CASE StoreVote(r)
    <3> DEFINE x == [vote[r] EXCEPT !.step = "stored",
                       !.sum = [votes EXCEPT ![vote[r].user] = vote[r].score]]
    <3>1. vote[r] \in VoteRequest /\ Holds(r)
      BY <2>6, <2>type DEF StoreVote, At, Idle, Holds
    <3>2. /\ x.step = "stored" /\ x.user = vote[r].user /\ x.score = vote[r].score
          /\ \A u \in User : x.sum[u] = IF u = vote[r].user THEN vote[r].score ELSE votes[u]
      BY <2>type, <3>1 DEF VoteRequest
    <3>3. \A q \in Vote : vote'[q] = IF q = r THEN x ELSE vote[q]
      BY <2>6, <2>type DEF StoreVote
    <3> HIDE DEF x
    <3>4. OneHolder'
      BY <3>1, <3>3 DEF VoteInv, OneHolder, Holds
    <3>5. SumIsCurrent'
      <4>1. UNCHANGED <<account, votes>>
        BY <2>6 DEF StoreVote
      <4>2. ASSUME NEW q \in Vote, At(q, "stored")', NEW u \in User, account[u] # "deleted"
            PROVE  vote'[q].sum[u] = IF u = vote'[q].user THEN vote'[q].score ELSE votes[u]
        <5>1. CASE q = r
          BY <3>2, <3>3, <5>1
        <5>2. CASE q # r
          BY <3>3, <4>2, <5>2 DEF VoteInv, SumIsCurrent, At
        <5> QED
          BY <5>1, <5>2
      <4> QED
        BY <4>1, <4>2 DEF SumIsCurrent
    <3> QED
      BY <2>6, <3>4, <3>5 DEF StoreVote, VoteInv, VotesAreCounted
  <2>7. CASE CommitVote(r)
    <3>1. vote[r] \in VoteRequest /\ Holds(r)
      BY <2>7, <2>type DEF CommitVote, At, Idle, Holds
    <3>2. \A q \in Vote : vote'[q] = IF q = r THEN Idle ELSE vote[q]
      BY <2>7, <2>type DEF CommitVote, End
    <3>3. \A q \in Vote : ~Holds(q)'
      BY <3>1, <3>2 DEF VoteInv, OneHolder, Holds, Idle
    <3>4. \A u \in User : account[u] # "deleted" => counted'[u] = votes'[u]
      BY <2>7, <2>type DEF CommitVote, VoteInv, SumIsCurrent
    <3> QED
      BY <2>7, <3>3, <3>4 DEF CommitVote, OneHolder, SumIsCurrent, VotesAreCounted, Holds, At
  <2>8. CASE VoteFails(r)
    BY <2>8, <2>end DEF VoteFails
  <2> QED
    BY <1>4, <2>1, <2>2, <2>3, <2>4, <2>5, <2>6, <2>7, <2>8 DEF VoteStep
<1>5. ASSUME NEW u \in Caller, CompleteAccountDeletion(u)
      PROVE  OneHolder' /\ SumIsCurrent' /\ VotesAreCounted'
  <2>1. /\ account' = [account EXCEPT ![u] = "deleted"] /\ votes' = [votes EXCEPT ![u] = None]
        /\ counted' = counted /\ vote' = vote
        /\ \A r \in Vote : vote[r] # Idle => vote[r].user # u
    BY <1>5 DEF CompleteAccountDeletion
  <2>2. \A v \in User : /\ v = u => account'[v] = "deleted"
                        /\ v # u => account'[v] = account[v] /\ votes'[v] = votes[v]
    BY <2>1 DEF VoteInv, CommunityTypeOK
  <2>same. vote' = vote /\ counted' = counted
    BY <2>1
  <2>3. OneHolder' /\ VotesAreCounted'
    <3>1. OneHolder'
      BY <2>same DEF VoteInv, OneHolder, Holds
    <3>2. VotesAreCounted'
      BY <2>same, <2>2 DEF VoteInv, VotesAreCounted
    <3> QED
      BY <3>1, <3>2
  <2>4. ASSUME NEW r \in Vote, At(r, "stored"), NEW v \in User \ {u}, account[v] # "deleted"
        PROVE  vote[r].sum[v] = IF v = vote[r].user THEN vote[r].score ELSE votes'[v]
    BY <2>2, <2>4 DEF VoteInv, SumIsCurrent
  <2>5. SumIsCurrent'
    BY <2>same, <2>2, <2>4 DEF SumIsCurrent, At
  <2> QED
    BY <2>3, <2>5
<1>6. CASE UserStep
  <2>1. ASSUME NEW p \in MayBlock, BlockUser(p[1], p[2]) \/ UnblockUser(p[1], p[2])
        PROVE  UNCHANGED <<account, votes, counted, vote>>
    BY <2>1 DEF BlockUser, UnblockUser
  <2>2. ASSUME NEW u \in Caller, NEW v \in Version, AcceptPolicies(u, v)
        PROVE  UNCHANGED <<account, votes, counted, vote>>
    BY <2>2 DEF AcceptPolicies
  <2>3. ASSUME NEW u \in Caller, RequestAccountDeletion(u) \/ CancelAccountDeletion(u)
        PROVE  /\ UNCHANGED <<votes, counted, vote>>
               /\ \A v \in User : account[v] = "deleted" => account'[v] = "deleted"
    BY <2>3 DEF RequestAccountDeletion, CancelAccountDeletion, VoteInv, CommunityTypeOK
  <2> QED
    BY <1>5, <1>6, <2>1, <2>2, <2>3, VotesUnchanged DEF UserStep
<1> QED
  BY <1>1, <1>2, <1>3, <1>4, <1>6, VotesUnchanged DEF Next

\* Every vote of a user who has an account is in the score of the clip, and
\* only as it was last given.
THEOREM VotesCounted == Spec => []VotesAreCounted
<1>1. Init => VoteInv
  <2> SUFFICES ASSUME Init PROVE VoteInv
    OBVIOUS
  <2>1. CommunityTypeOK
    BY TypeInit
  <2> QED
    BY <2>1 DEF Init, VoteInv, OneHolder, SumIsCurrent, VotesAreCounted, Holds, At, Idle
<1>2. VoteInv => VotesAreCounted
  BY DEF VoteInv
<1> QED
  BY <1>1, <1>2, VoteInvStep, PTL DEF Spec

-----------------------------------------------------------------------------
(* Policies.                                                               *)

\* The index lets one transaction insert a current version at a time, and it
\* has retired whatever was current.
OneInserter ==
  \A a, b \in Admin : Publishes(a, "inserted") /\ Publishes(b, "inserted") => a = b

InserterRetired ==
  \A a \in Admin : Publishes(a, "inserted") => current \subseteq publication[a].retired

PolicyInv == CommunityTypeOK /\ OneInserter /\ InserterRetired /\ OneCurrentPolicy

\* A publication that goes on without inserting, or ends.
LEMMA NotInserting ==
  ASSUME PolicyInv, UNCHANGED <<published, current>>, NEW a \in Admin, NEW x,
         publication' = [publication EXCEPT ![a] = x], x.step # "inserted"
  PROVE  OneInserter' /\ InserterRetired' /\ OneCurrentPolicy'
<1>1. \A b \in Admin : publication'[b] = IF b = a THEN x ELSE publication[b]
  BY DEF PolicyInv, CommunityTypeOK
<1> QED
  BY <1>1 DEF PolicyInv, OneInserter, InserterRetired, OneCurrentPolicy, Publishes

\* Every step keeps the index's row and the transactions that hold it apart.
LEMMA PolicyInvStep == PolicyInv /\ [Next]_vars => PolicyInv'
<1> SUFFICES ASSUME PolicyInv, [Next]_vars
             PROVE  OneInserter' /\ InserterRetired' /\ OneCurrentPolicy'
  BY TypeStep DEF PolicyInv
<1>same. ASSUME UNCHANGED <<published, current, publication>>
         PROVE  OneInserter' /\ InserterRetired' /\ OneCurrentPolicy'
  BY <1>same DEF PolicyInv, OneInserter, InserterRetired, OneCurrentPolicy, Publishes
<1>1. CASE UNCHANGED vars
  BY <1>1, <1>same DEF vars, policyVars
<1>2. CASE Tick \/ CleanupDatabase \/ Moderate
  BY <1>2, <1>same DEF Tick, CleanupDatabase, Moderate, policyVars
<1>3. CASE UserStep
  BY <1>3, <1>same DEF UserStep, BlockUser, UnblockUser, AcceptPolicies,
     RequestAccountDeletion, CancelAccountDeletion, CompleteAccountDeletion, policyVars
<1>4. ASSUME NEW r \in Vote, VoteStep(r) PROVE UNCHANGED <<published, current, publication>>
  BY <1>4 DEF VoteStep, Authenticate, RequirePolicies, AllowRateLimit, LockSubmission,
     CheckBlocks, StoreVote, CommitVote, VoteFails, policyVars
<1>5. ASSUME NEW a \in Admin, PublicationStep(a)
      PROVE  OneInserter' /\ InserterRetired' /\ OneCurrentPolicy'
  <2>type. publication \in [Admin -> Publication \cup {Idle}]
    BY DEF PolicyInv, CommunityTypeOK
  <2>end. ASSUME EndPublication(a), UNCHANGED <<published, current>>
          PROVE  OneInserter' /\ InserterRetired' /\ OneCurrentPolicy'
    <3>1. Idle.step # "inserted"
      BY DEF Idle
    <3> QED
      BY <2>end, <3>1, NotInserting DEF EndPublication
  <2>1. ASSUME NEW v \in Version, BeginPublication(a, v)
        PROVE  OneInserter' /\ InserterRetired' /\ OneCurrentPolicy'
    <3> DEFINE x == [step |-> "begun", version |-> v, saw |-> current, retired |-> {}]
    <3>1. publication' = [publication EXCEPT ![a] = x] /\ UNCHANGED <<published, current>>
      BY <2>1 DEF BeginPublication
    <3>2. x.step # "inserted"
      OBVIOUS
    <3> HIDE DEF x
    <3> QED
      BY <3>1, <3>2, NotInserting
  <2>2. CASE RetireCurrent(a)
    <3> DEFINE x == [publication[a] EXCEPT !.step = "retired",
                                           !.retired = publication[a].saw \cap current]
    <3>1. publication[a] \in Publication
      BY <2>2, <2>type DEF RetireCurrent, Publishes, Idle
    <3>2. x.step = "retired"
      BY <3>1 DEF Publication
    <3>3. publication' = [publication EXCEPT ![a] = x] /\ UNCHANGED <<published, current>>
      BY <2>2 DEF RetireCurrent
    <3> HIDE DEF x
    <3> QED
      BY <3>2, <3>3, NotInserting
  <2>3. CASE InsertPolicy(a)
    <3> DEFINE x == [publication[a] EXCEPT !.step = "inserted"]
    <3>1. publication[a] \in Publication
      BY <2>3, <2>type DEF InsertPolicy, Publishes, Idle
    <3>2. x.step = "inserted" /\ x.retired = publication[a].retired
      BY <3>1 DEF Publication
    <3>3. CASE EndPublication(a)
      BY <2>3, <2>end, <3>3 DEF InsertPolicy
    <3>4. CASE ~EndPublication(a)
      <4>1. /\ publication' = [publication EXCEPT ![a] = x]
            /\ current \subseteq publication[a].retired
            /\ UNCHANGED <<published, current>>
            /\ \A b \in Admin : ~Publishes(b, "inserted")
        BY <2>3, <3>4 DEF InsertPolicy
      <4> HIDE DEF x
      <4>2. \A b \in Admin : publication'[b] = IF b = a THEN x ELSE publication[b]
        BY <2>type, <4>1
      <4> QED
        BY <3>2, <4>1, <4>2
           DEF PolicyInv, OneInserter, InserterRetired, OneCurrentPolicy, Publishes
    <3> QED
      BY <3>3, <3>4
  <2>4. CASE CommitPublication(a)
    <3> DEFINE v == publication[a].version
    <3>1. current' = {v} /\ v \in published'
      BY <2>4 DEF CommitPublication, PolicyInv, InserterRetired
    <3>2. OneCurrentPolicy'
      <4>1. Cardinality({v}) = 1
        BY FS_Singleton
      <4> QED
        BY <3>1, <4>1 DEF OneCurrentPolicy
    <3>3. \A b \in Admin : ~Publishes(b, "inserted")'
      <4>1. \A b \in Admin : publication'[b] = IF b = a THEN Idle ELSE publication[b]
        BY <2>4, <2>type DEF CommitPublication, EndPublication
      <4> QED
        BY <2>4, <4>1 DEF CommitPublication, PolicyInv, OneInserter, Publishes, Idle
    <3> QED
      <4>1. OneInserter'
        BY <3>3 DEF OneInserter
      <4>2. InserterRetired'
        BY <3>3 DEF InserterRetired
      <4> QED
        BY <3>2, <4>1, <4>2
  <2>5. CASE PublicationFails(a)
    BY <2>5, <2>end DEF PublicationFails
  <2> QED
    BY <1>5, <2>1, <2>2, <2>3, <2>4, <2>5 DEF PublicationStep
<1> QED
  BY <1>1, <1>2, <1>3, <1>4, <1>5, <1>same DEF Next

\* From the first publication of a kind on it has exactly one current version.
THEOREM ExactlyOnePolicy == Spec => []OneCurrentPolicy
<1>1. Init => PolicyInv
  <2> SUFFICES ASSUME Init PROVE PolicyInv
    OBVIOUS
  <2>1. CommunityTypeOK
    BY TypeInit
  <2> QED
    BY <2>1, CommunityAssumption
       DEF Init, PolicyInv, OneInserter, InserterRetired, OneCurrentPolicy, Publishes, Idle
<1>2. PolicyInv => OneCurrentPolicy
  BY DEF PolicyInv
<1> QED
  BY <1>1, <1>2, PolicyInvStep, PTL DEF Spec

-----------------------------------------------------------------------------
(* Rate limits.                                                            *)

\* A window has let through what its row counts, until the sweep may take the
\* row.
CountIsKept ==
  \A k \in User \X Windows : clock <= Ends(k[2]) => letThrough[k] = limits[k]

\* Every step keeps the counters and the attempts that were let through together.
LEMMA CountStep == CommunityTypeOK /\ CountIsKept /\ [Next]_vars => CountIsKept'
<1> SUFFICES ASSUME CommunityTypeOK, CountIsKept, [Next]_vars PROVE CountIsKept'
  OBVIOUS
<1>type. /\ clock \in Nat
         /\ limits \in [User \X Windows -> 0 .. Maximum]
         /\ letThrough \in [User \X Windows -> Nat]
         /\ \A k \in User \X Windows : Ends(k[2]) \in Int
  BY CommunityAssumption DEF CommunityTypeOK, Time, Windows, Ends
<1>same. ASSUME UNCHANGED <<clock, limits, letThrough>> PROVE CountIsKept'
  BY <1>same DEF CountIsKept, Ends
<1>1. CASE UNCHANGED vars
  BY <1>1, <1>same DEF vars, limitVars
<1>2. CASE Tick
  <2>1. clock' = clock + 1 /\ UNCHANGED <<limits, letThrough>>
    BY <1>2 DEF Tick, limitVars
  <2>2. ASSUME NEW k \in User \X Windows, clock' <= Ends(k[2]) PROVE clock <= Ends(k[2])
    BY <1>type, <2>1, <2>2
  <2> QED
    BY <2>1, <2>2 DEF CountIsKept, Ends
<1>3. CASE CleanupDatabase
  <2>1. /\ UNCHANGED <<clock, letThrough>>
        /\ limits' = [k \in DOMAIN limits |-> IF Ends(k[2]) < clock THEN 0 ELSE limits[k]]
    BY <1>3 DEF CleanupDatabase, Ends
  <2>2. ASSUME NEW k \in User \X Windows, clock <= Ends(k[2]) PROVE limits'[k] = limits[k]
    BY <1>type, <2>1, <2>2
  <2> QED
    BY <2>1, <2>2 DEF CountIsKept, Ends
<1>4. CASE Moderate \/ UserStep
  BY <1>4, <1>same DEF Moderate, UserStep, BlockUser, UnblockUser, AcceptPolicies,
     RequestAccountDeletion, CancelAccountDeletion, CompleteAccountDeletion, limitVars
<1>5. ASSUME NEW a \in Admin, PublicationStep(a) PROVE UNCHANGED <<clock, limits, letThrough>>
  BY <1>5 DEF PublicationStep, BeginPublication, RetireCurrent, InsertPolicy,
     CommitPublication, PublicationFails, limitVars
<1>6. ASSUME NEW r \in Vote, VoteStep(r) PROVE CountIsKept'
  <2>1. ASSUME NEW u \in Caller, NEW s \in Score, Authenticate(r, u, s)
        PROVE  UNCHANGED <<clock, limits, letThrough>>
    BY <2>1 DEF Authenticate, limitVars
  <2>2. CASE RequirePolicies(r) \/ LockSubmission(r) \/ CheckBlocks(r) \/ StoreVote(r)
             \/ CommitVote(r) \/ VoteFails(r)
    BY <2>2, <1>same DEF RequirePolicies, LockSubmission, CheckBlocks, StoreVote, CommitVote,
       VoteFails, limitVars
  <2>3. CASE AllowRateLimit(r)
    <3> DEFINE k == <<vote[r].user, Truncate(vote[r].at)>>
    <3>1. /\ clock' = clock
          /\ \/ UNCHANGED <<limits, letThrough>>
             \/ /\ limits' = [limits EXCEPT ![k] = @ + 1]
                /\ letThrough' = [letThrough EXCEPT ![k] = @ + 1]
      BY <2>3 DEF AllowRateLimit, limitVars
    <3> HIDE DEF k
    <3>2. ASSUME NEW x \in User \X Windows, letThrough[x] = limits[x]
          PROVE  letThrough'[x] = limits'[x]
      BY <1>type, <3>1, <3>2
    <3> QED
      BY <3>1, <3>2 DEF CountIsKept, Ends
  <2> QED
    BY <1>6, <1>same, <2>1, <2>2, <2>3 DEF VoteStep
<1> QED
  BY <1>1, <1>2, <1>3, <1>4, <1>5, <1>6, <1>same DEF Next

\* However requests overlap, however late their statements run and whenever the
\* sweep comes, a window has let no more than its maximum through when it ends.
THEOREM LimitsAreKept == Spec => []RateLimitHolds
<1>1. Init => CountIsKept
  BY DEF Init, CountIsKept
<1>2. CommunityTypeOK /\ CountIsKept => RateLimitHolds
  BY CommunityAssumption DEF CommunityTypeOK, CountIsKept, RateLimitHolds
<1> QED
  BY <1>1, <1>2, CountStep, CommunityTypes, PTL DEF Spec
===============================================================================
