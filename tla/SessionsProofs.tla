--------------------------- MODULE SessionsProofs ---------------------------
(***************************************************************************)
(* Machine-checked theorems about Sessions, for every set of tokens, links *)
(* and concurrent requests.                                                *)
(***************************************************************************)
EXTENDS Sessions, TLAPS

\* Every statement writes values of the types the schema declares.
LEMMA TypeStep == 
  SessionsTypeOK /\ RotatedTokensAreUsable /\ RedeemedLinksAreOpen /\ [Next]_vars
    => SessionsTypeOK'
<1> SUFFICES ASSUME SessionsTypeOK, RotatedTokensAreUsable, RedeemedLinksAreOpen, [Next]_vars
             PROVE  SessionsTypeOK'
  OBVIOUS
<1> USE DEF SessionsTypeOK
<1>tx. ASSUME NEW c \in Client, NEW r \in Tx, tx' = [tx EXCEPT ![c] = r]
       PROVE  tx' \in [Client -> Tx]
  BY <1>tx
<1>no. NoTx \in Tx
  BY DEF NoTx, Tx, Op, Registered, Hash
<1>done. ASSUME NEW c \in Client, Done(c) PROVE tx' \in [Client -> Tx]
  BY <1>done, <1>no DEF Done
<1>begin. ASSUME NEW c \in Client, NEW op \in Op, NEW at \in {"locked", "user"},
                 NEW row \in RefreshToken \cup Link \cup {NoRow}, Begin(c, op, at, row)
          PROVE  tx' \in [Client -> Tx]
  BY <1>begin, <1>no DEF Begin, Tx
<1>snap. ASSUME NEW c \in Client, NEW at \in {"consuming", "revoking"},
                NEW rows \in SUBSET (RefreshToken \cup Link), Snapshot(c, at, rows)
         PROVE  tx' \in [Client -> Tx]
  BY <1>snap DEF Snapshot, Tx
<1>1. ASSUME NEW c \in Client, Abort(c) PROVE SessionsTypeOK'
  BY <1>1, <1>done DEF Abort
<1>2. ASSUME NEW r \in RefreshToken \cup Link, Expire(r) PROVE SessionsTypeOK'
  BY <1>2 DEF Expire
<1>3. ASSUME NEW c \in Client, GetUserByEmail(c) PROVE SessionsTypeOK'
  <2>1. [NoTx EXCEPT !.op = "login", !.at = "read", !.hash = password] \in Tx
    BY <1>no DEF Tx, Op
  <2> QED
    BY <1>3, <2>1 DEF GetUserByEmail
<1>4. ASSUME NEW c \in Client, ReplacePasswordHash(c) PROVE SessionsTypeOK'
  <2>1. tx[c] \in Tx
    OBVIOUS
  <2>2. [tx[c].hash EXCEPT !.current = TRUE] \in Hash
    BY <2>1 DEF Tx, Hash
  <2>3. tx' \in [Client -> Tx]
    BY <1>4, <2>1 DEF ReplacePasswordHash, Tx
  <2> QED
    BY <1>4, <2>2, <2>3 DEF ReplacePasswordHash
<1>5. ASSUME NEW c \in Client, CreateRefreshToken(c) PROVE SessionsTypeOK'
  BY <1>5, <1>done DEF CreateRefreshToken
<1>6. ASSUME NEW c \in Client, NEW t \in RefreshToken, LockToken(c, t) PROVE SessionsTypeOK'
  <2>1. (IF refresh[t] = "usable" THEN "rotate" ELSE "replay") \in Op
    BY DEF Op
  <2> QED
    BY <1>6, <1>begin, <2>1 DEF LockToken
<1>7. ASSUME NEW c \in Client, RotateRefreshToken(c) PROVE SessionsTypeOK'
  <2>1. tx[c].on \in RefreshToken
    BY <1>7 DEF RotateRefreshToken, At, RotatedTokensAreUsable, RotatesUsable, Issued
  <2>2. PICK new \in RefreshToken :
          /\ refresh' = [refresh EXCEPT ![tx[c].on] = "revoked", ![new] = "usable"]
          /\ family' = [family EXCEPT ![new] = family[tx[c].on]]
    BY <1>7 DEF RotateRefreshToken
  <2>3. /\ refresh' \in [RefreshToken -> {"none", "usable", "revoked"}]
        /\ family' \in [RefreshToken -> RefreshToken]
    BY <2>1, <2>2
  <2> QED
    BY <1>7, <1>done, <2>3 DEF RotateRefreshToken
<1>8. ASSUME NEW c \in Client, RevokeFamily(c) PROVE SessionsTypeOK'
  BY <1>8, <1>snap DEF RevokeFamily, Issued
<1>9. ASSUME NEW c \in Client, BeginRevocation(c) PROVE SessionsTypeOK'
  <2>1. PICK rows \in {Issued} \cup
                    {{t \in Issued : refresh[t] = "usable" /\ family[t] = f} : f \in Issued} :
          tx' = [tx EXCEPT ![c] = [NoTx EXCEPT !.op = "revoke", !.at = "revoking", !.rows = rows]]
    BY <1>9, Zenon DEF BeginRevocation
  <2>2. rows \in SUBSET RefreshToken
    BY <2>1 DEF Issued
  <2>3. [NoTx EXCEPT !.op = "revoke", !.at = "revoking", !.rows = rows] \in Tx
    BY <1>no, <2>2 DEF Tx, Op
  <2> QED
    BY <1>9, <2>1, <2>3 DEF BeginRevocation
<1>10. ASSUME NEW c \in Client, Revoke(c) PROVE SessionsTypeOK'
  BY <1>10, <1>done DEF Revoke, Revoked
<1>11. ASSUME NEW t \in RefreshToken, RevokeRefreshToken(t) PROVE SessionsTypeOK'
  BY <1>11 DEF RevokeRefreshToken, Revoked
<1>12. ASSUME NEW c \in Client, StartPasswordReset(c) PROVE SessionsTypeOK'
  <2>1. "startReset" \in Op
    BY DEF Op
  <2> QED
    BY <1>12, <1>begin, <2>1 DEF StartPasswordReset
<1>13. ASSUME NEW c \in Client, StartEmailVerification(c) PROVE SessionsTypeOK'
  <2>1. "startVerify" \in Op
    BY DEF Op
  <2> QED
    BY <1>13, <1>begin, <2>1 DEF StartEmailVerification
<1>14. ASSUME NEW c \in Client, NEW l \in Link, LockLink(c, l) PROVE SessionsTypeOK'
  <2>1. (IF l \in ResetLink THEN "reset" ELSE "verify") \in Op
    BY DEF Op
  <2> QED
    BY <1>14, <1>begin, <2>1 DEF LockLink
<1>15. ASSUME NEW c \in Client, UpdateUser(c) PROVE SessionsTypeOK'
  BY <1>15 DEF UpdateUser, Tx
<1>16. ASSUME NEW c \in Client, FindLinks(c) PROVE SessionsTypeOK'
  <2>1. Open(LinksOf(c)) \in SUBSET (RefreshToken \cup Link)
    BY DEF Open, LinksOf, Link
  <2> QED
    BY <1>16, <1>snap, <2>1 DEF FindLinks
<1>17. ASSUME NEW c \in Client, ConsumeLinks(c) PROVE SessionsTypeOK'
  <2>1. Open(tx[c].rows) \subseteq Link
    BY <1>17 DEF ConsumeLinks, Open, RedeemedLinksAreOpen, RedeemsOpen
  <2> QED
    BY <1>17, <2>1 DEF ConsumeLinks, Tx
<1>18. ASSUME NEW c \in Client, MailLink(c) PROVE SessionsTypeOK'
  BY <1>18, <1>done DEF MailLink, Consumed
<1>19. ASSUME NEW c \in Client, VerifyEmail(c) PROVE SessionsTypeOK'
  BY <1>19, <1>done DEF VerifyEmail, Consumed
<1>20. ASSUME NEW c \in Client, FindTokens(c) PROVE SessionsTypeOK'
  BY <1>20, <1>snap DEF FindTokens, Issued
<1>21. ASSUME NEW c \in Client, ResetPassword(c) PROVE SessionsTypeOK'
  <2>1. tx[c].on \in ResetLink
    BY <1>21 DEF ResetPassword, At, RedeemedLinksAreOpen, RedeemsOpen
  <2>2. password' \in Hash
    BY <1>21, <2>1 DEF ResetPassword, Hash
  <2> QED
    BY <1>21, <1>done, <2>2 DEF ResetPassword, Revoked, Consumed
<1>22. CASE UNCHANGED vars
  BY <1>22 DEF vars
<1> QED
  BY <1>1, <1>2, <1>3, <1>4, <1>5, <1>6, <1>7, <1>8, <1>9, <1>10, <1>11, <1>12, <1>13,
     <1>14, <1>15, <1>16, <1>17, <1>18, <1>19, <1>20, <1>21, <1>22 DEF Next

-----------------------------------------------------------------------------
(* What a step leaves of the other requests.                               *)

\* The transaction of a request ends: it holds no lock any more.
LEMMA DoneEnds ==
  ASSUME SessionsTypeOK, NEW c \in Client, Done(c)
  PROVE  /\ tx'[c] = NoTx
         /\ \A o \in Others(c) : tx'[o] = tx[o]
  BY DEF SessionsTypeOK, Done, Others

\* It begins: it holds at most the row it has found.
LEMMA BeginFinds ==
  ASSUME SessionsTypeOK, NEW c \in Client, NEW op, NEW at, NEW row, Begin(c, op, at, row)
  PROVE  /\ tx'[c].op = op /\ tx'[c].at = at /\ tx'[c].on = row
         /\ tx'[c].rows = {} /\ tx'[c].wrote = {}
         /\ \A o \in Others(c) : tx'[o] = tx[o]
  BY DEF SessionsTypeOK, Begin, NoTx, Others

\* A statement takes its snapshot: no lock is taken yet.
LEMMA SnapshotTakes ==
  ASSUME SessionsTypeOK, NEW c \in Client, NEW at, NEW rows, Snapshot(c, at, rows)
  PROVE  /\ tx'[c].op = tx[c].op /\ tx'[c].at = at /\ tx'[c].on = tx[c].on
         /\ tx'[c].rows = rows /\ tx'[c].wrote = tx[c].wrote
         /\ \A o \in Others(c) : tx'[o] = tx[o]
  BY DEF SessionsTypeOK, Snapshot, Tx, Others

\* What the invariant says of a request survives the steps of others that
\* leave the rows it has locked alone.
LEMMA OthersKeep ==
  ASSUME SessionInv, NEW c \in Client, \A o \in Others(c) : tx'[o] = tx[o],
         Free(c, LockedBy(c)'), RotatesUsable(c)', RedeemsOpen(c)',
         \A o \in Others(c) : \A t \in RefreshToken :
           t \in LockedBy(o) => refresh'[t] = refresh[t],
         \A o \in Others(c) : \A l \in Link : l \in LockedBy(o) => link'[l] = link[l]
  PROVE  LocksExclude' /\ RotatedTokensAreUsable' /\ RedeemedLinksAreOpen'
<1>1. \A o \in Others(c) : LockedBy(o)' = LockedBy(o)
  BY DEF LockedBy
<1>2. LocksExclude'
  BY <1>1 DEF SessionInv, LocksExclude, Free, Others
<1>3. ASSUME NEW o \in Others(c) PROVE RotatesUsable(o)'
  BY DEF SessionInv, RotatedTokensAreUsable, RotatesUsable, LockedBy, Issued, Others
<1>4. ASSUME NEW o \in Others(c) PROVE RedeemsOpen(o)'
  BY DEF SessionInv, RedeemedLinksAreOpen, RedeemsOpen, LockedBy, Open, Others, Link
<1> QED
  BY <1>2, <1>3, <1>4 DEF RotatedTokensAreUsable, RedeemedLinksAreOpen, Others

\* The three parts about locks, and the two about the tokens' chains.
Locks == LocksExclude /\ RotatedTokensAreUsable /\ RedeemedLinksAreOpen
Chains == FamiliesAreNamed /\ OneUsableToken

\* A step that leaves tokens and links as they are keeps the invariant if it
\* does so for the request that takes it.
LEMMA Private ==
  ASSUME SessionInv, NEW c \in Client, \A o \in Others(c) : tx'[o] = tx[o],
         UNCHANGED <<refresh, family, link>>,
         Free(c, LockedBy(c)'), RotatesUsable(c)', RedeemsOpen(c)'
  PROVE  Locks' /\ Chains'
<1>1. Locks'
  BY OthersKeep DEF Locks
<1>2. FamiliesAreNamed'
  BY DEF SessionInv, FamiliesAreNamed, Issued
<1>3. OneUsableToken'
  BY DEF SessionInv, OneUsableToken
<1> QED
  BY <1>1, <1>2, <1>3 DEF Chains

\* A step that ends a transaction keeps the locks' part if it writes no row
\* that another has locked.
LEMMA Commit ==
  ASSUME SessionInv, NEW c \in Client, Done(c),
         \A o \in Others(c) : \A t \in RefreshToken :
           t \in LockedBy(o) => refresh'[t] = refresh[t],
         \A o \in Others(c) : \A l \in Link : l \in LockedBy(o) => link'[l] = link[l]
  PROVE  Locks'
<1>1. /\ tx'[c] = NoTx
      /\ \A o \in Others(c) : tx'[o] = tx[o]
  BY DoneEnds DEF SessionInv
<1>2. LockedBy(c)' = {}
  BY <1>1 DEF LockedBy, NoTx
<1>3. Free(c, LockedBy(c)')
  BY <1>2 DEF Free
<1>4. RotatesUsable(c)' /\ RedeemsOpen(c)'
  BY <1>1 DEF RotatesUsable, RedeemsOpen, NoTx
<1> QED
  BY <1>1, <1>3, <1>4, OthersKeep DEF Locks

\* Revoking tokens keeps the chains.
LEMMA RevokedChains ==
  ASSUME SessionInv, NEW rows, refresh' = Revoked(rows), UNCHANGED family
  PROVE  Chains'
<1>1. \A t \in RefreshToken : refresh'[t] = IF t \in rows THEN "revoked" ELSE refresh[t]
  BY DEF Revoked
<1>2. FamiliesAreNamed'
  BY <1>1 DEF SessionInv, FamiliesAreNamed, Issued
<1>3. OneUsableToken'
  BY <1>1 DEF SessionInv, OneUsableToken
<1> QED
  BY <1>2, <1>3 DEF Chains

\* Only issued tokens are locked.
LEMMA LockedTokens ==
  ASSUME SessionInv, NEW o \in Client, NEW t \in RefreshToken, t \in LockedBy(o)
  PROVE  t \in Issued
<1>1. tx[o].wrote \subseteq Link
  BY DEF SessionInv, SessionsTypeOK, Tx
<1>2. tx[o].op \in {"reset", "verify"} => tx[o].on \in Link
  BY DEF SessionInv, RedeemedLinksAreOpen, RedeemsOpen, Link
<1>3. t \notin Link
  BY SessionsAssumption
<1> QED
  BY <1>1, <1>2, <1>3 DEF SessionInv, LockedBy, RotatedTokensAreUsable, RotatesUsable

\* Only open links are.
LEMMA LockedLinks ==
  ASSUME SessionInv, NEW o \in Client, NEW l \in Link, l \in LockedBy(o)
  PROVE  link[l] = "open"
<1>1. l \notin RefreshToken
  BY SessionsAssumption
<1>2. tx[o].op \in {"rotate", "replay"} => tx[o].on # l
  BY <1>1 DEF SessionInv, RotatedTokensAreUsable, RotatesUsable, Issued
<1>3. l \in tx[o].wrote \/ (l = tx[o].on /\ tx[o].op \in {"rotate", "replay", "reset", "verify"})
  BY Zenon DEF LockedBy
<1> QED
  BY <1>2, <1>3 DEF SessionInv, RedeemedLinksAreOpen, RedeemsOpen, Open

-----------------------------------------------------------------------------
(* Every step keeps the invariant.                                         *)

\* A transaction that is rolled back, or one step before its commit.
LEMMA PrivateSteps ==
  ASSUME SessionInv, NEW c \in Client,
         \/ Abort(c) \/ GetUserByEmail(c) \/ ReplacePasswordHash(c)
         \/ (\E t \in RefreshToken : LockToken(c, t))
         \/ RevokeFamily(c) \/ BeginRevocation(c)
         \/ StartPasswordReset(c) \/ StartEmailVerification(c)
         \/ (\E l \in Link : LockLink(c, l))
         \/ UpdateUser(c) \/ FindLinks(c) \/ ConsumeLinks(c) \/ FindTokens(c)
  PROVE  Locks' /\ Chains'
<1> USE DEF SessionInv, Issued
<1> tx[c] \in Tx
  BY DEF SessionsTypeOK
<1>1. CASE Abort(c)
  <2>1. tx'[c] = NoTx /\ \A o \in Others(c) : tx'[o] = tx[o]
    BY <1>1, DoneEnds DEF Abort
  <2>2. Free(c, LockedBy(c)') /\ RotatesUsable(c)' /\ RedeemsOpen(c)'
    BY <2>1 DEF NoTx, LockedBy, Free, RotatesUsable, RedeemsOpen
  <2> QED
    BY <1>1, <2>1, <2>2, Private DEF Abort
<1>2. CASE GetUserByEmail(c)
  <2>1. /\ tx'[c].op = "login" /\ tx'[c].at = "read" /\ tx'[c].wrote = {}
        /\ \A o \in Others(c) : tx'[o] = tx[o]
    BY <1>2 DEF GetUserByEmail, NoTx, SessionsTypeOK, Others
  <2>2. Free(c, LockedBy(c)') /\ RotatesUsable(c)' /\ RedeemsOpen(c)'
    BY <2>1 DEF LockedBy, Free, RotatesUsable, RedeemsOpen
  <2> QED
    BY <1>2, <2>1, <2>2, Private DEF GetUserByEmail
<1>3. CASE ReplacePasswordHash(c)
  <2>1. /\ tx'[c].op = "login" /\ tx'[c].at = "rehashed" /\ tx'[c].wrote = tx[c].wrote
        /\ \A o \in Others(c) : tx'[o] = tx[o]
    BY <1>3 DEF ReplacePasswordHash, At, Tx, SessionsTypeOK, Others
  <2>2. Free(c, LockedBy(c)') /\ RotatesUsable(c)' /\ RedeemsOpen(c)'
    BY <1>3, <2>1 DEF ReplacePasswordHash, LockedBy, Free, LocksExclude, Others,
       RotatesUsable, RedeemedLinksAreOpen, RedeemsOpen, Open
  <2> QED
    BY <1>3, <2>1, <2>2, Private DEF ReplacePasswordHash
<1>4. ASSUME NEW t \in RefreshToken, LockToken(c, t) PROVE Locks' /\ Chains'
  <2> DEFINE op == IF refresh[t] = "usable" THEN "rotate" ELSE "replay"
  <2>1. /\ tx'[c].op = op /\ tx'[c].at = "locked" /\ tx'[c].on = t /\ tx'[c].wrote = {}
        /\ \A o \in Others(c) : tx'[o] = tx[o]
    BY <1>4, BeginFinds DEF LockToken
  <2>2. Free(c, LockedBy(c)') /\ RotatesUsable(c)' /\ RedeemsOpen(c)'
    BY <1>4, <2>1 DEF LockToken, LockedBy, Free, RotatesUsable, RedeemsOpen
  <2> QED
    BY <1>4, <2>1, <2>2, Private DEF LockToken
<1>5. CASE RevokeFamily(c) \/ FindTokens(c)
  <2>1. /\ tx'[c].op = tx[c].op /\ tx'[c].at = "revoking" /\ tx'[c].on = tx[c].on
        /\ tx'[c].wrote = tx[c].wrote
        /\ \A o \in Others(c) : tx'[o] = tx[o]
    BY <1>5, SnapshotTakes DEF RevokeFamily, FindTokens
  <2>2. Free(c, LockedBy(c)') /\ RotatesUsable(c)' /\ RedeemsOpen(c)'
    BY <1>5, <2>1 DEF RevokeFamily, FindTokens, At, LockedBy, Free, LocksExclude, Others,
       RotatedTokensAreUsable, RotatesUsable, RedeemedLinksAreOpen, RedeemsOpen, Open
  <2> QED
    BY <1>5, <2>1, <2>2, Private DEF RevokeFamily, FindTokens
<1>6. CASE BeginRevocation(c)
  <2>1. /\ tx'[c].op = "revoke" /\ tx'[c].at = "revoking" /\ tx'[c].wrote = {}
        /\ \A o \in Others(c) : tx'[o] = tx[o]
    BY <1>6 DEF BeginRevocation, NoTx, SessionsTypeOK, Others
  <2>2. Free(c, LockedBy(c)') /\ RotatesUsable(c)' /\ RedeemsOpen(c)'
    BY <2>1 DEF LockedBy, Free, RotatesUsable, RedeemsOpen
  <2> QED
    BY <1>6, <2>1, <2>2, Private DEF BeginRevocation
<1>7. CASE StartPasswordReset(c) \/ StartEmailVerification(c)
  <2>1. /\ tx'[c].op \in {"startReset", "startVerify"} /\ tx'[c].at = "user"
        /\ tx'[c].wrote = {}
        /\ \A o \in Others(c) : tx'[o] = tx[o]
    BY <1>7, BeginFinds DEF StartPasswordReset, StartEmailVerification
  <2>2. Free(c, LockedBy(c)') /\ RotatesUsable(c)' /\ RedeemsOpen(c)'
    BY <2>1 DEF LockedBy, Free, RotatesUsable, RedeemsOpen
  <2> QED
    BY <1>7, <2>1, <2>2, Private DEF StartPasswordReset, StartEmailVerification
<1>8. ASSUME NEW l \in Link, LockLink(c, l) PROVE Locks' /\ Chains'
  <2> DEFINE op == IF l \in ResetLink THEN "reset" ELSE "verify"
  <2>1. /\ tx'[c].op = op /\ tx'[c].at = "locked" /\ tx'[c].on = l /\ tx'[c].wrote = {}
        /\ \A o \in Others(c) : tx'[o] = tx[o]
    BY <1>8, BeginFinds DEF LockLink
  <2>2. Free(c, LockedBy(c)') /\ RotatesUsable(c)' /\ RedeemsOpen(c)'
    BY <1>8, <2>1 DEF LockLink, LockedBy, Free, Open, Link, RotatesUsable, RedeemsOpen
  <2> QED
    BY <1>8, <2>1, <2>2, Private DEF LockLink
<1>9. CASE UpdateUser(c)
  <2>1. /\ tx'[c].op = tx[c].op /\ tx'[c].at = "user" /\ tx'[c].on = tx[c].on
        /\ tx'[c].wrote = tx[c].wrote
        /\ \A o \in Others(c) : tx'[o] = tx[o]
    BY <1>9 DEF UpdateUser, Tx, SessionsTypeOK, Others
  <2>2. Free(c, LockedBy(c)') /\ RotatesUsable(c)' /\ RedeemsOpen(c)'
    BY <1>9, <2>1 DEF UpdateUser, At, LockedBy, Free, LocksExclude, Others,
       RotatesUsable, RedeemedLinksAreOpen, RedeemsOpen, Open
  <2> QED
    BY <1>9, <2>1, <2>2, Private DEF UpdateUser
<1>10. CASE FindLinks(c)
  <2>1. /\ tx'[c].op = tx[c].op /\ tx'[c].at = "consuming" /\ tx'[c].on = tx[c].on
        /\ tx'[c].rows = Open(LinksOf(c)) /\ tx'[c].wrote = tx[c].wrote
        /\ \A o \in Others(c) : tx'[o] = tx[o]
    BY <1>10, SnapshotTakes DEF FindLinks
  <2>2. Free(c, LockedBy(c)') /\ RotatesUsable(c)'
    BY <1>10, <2>1 DEF FindLinks, LockedBy, Free, LocksExclude, Others,
       RotatedTokensAreUsable, RotatesUsable
  <2>3. RedeemsOpen(c)'
    BY <1>10, <2>1 DEF FindLinks, Open, LinksOf, Link, RedeemedLinksAreOpen, RedeemsOpen
  <2> QED
    BY <1>10, <2>1, <2>2, <2>3, Private DEF FindLinks
<1>11. CASE ConsumeLinks(c)
  <2>1. /\ tx'[c].op = tx[c].op /\ tx'[c].at = "consumed" /\ tx'[c].on = tx[c].on
        /\ tx'[c].wrote = Open(tx[c].rows)
        /\ \A o \in Others(c) : tx'[o] = tx[o]
    BY <1>11 DEF ConsumeLinks, Tx, SessionsTypeOK, Others
  <2>2. Free(c, LockedBy(c)')
    BY <1>11, <2>1 DEF ConsumeLinks, LockedBy, Free, Open, LocksExclude, Others
  <2>3. RotatesUsable(c)'
    BY <1>11, <2>1 DEF ConsumeLinks, RotatedTokensAreUsable, RotatesUsable
  <2>4. RedeemsOpen(c)'
    BY <1>11, <2>1 DEF ConsumeLinks, Open, RedeemedLinksAreOpen, RedeemsOpen
  <2> QED
    BY <1>11, <2>1, <2>2, <2>3, <2>4, Private DEF ConsumeLinks
<1> QED
  BY <1>1, <1>2, <1>3, <1>4, <1>5, <1>6, <1>7, <1>8, <1>9, <1>10, <1>11

\* login opens a session: its first token names a family nobody is in.
LEMMA CreateStep ==
  ASSUME SessionInv, NEW c \in Client, CreateRefreshToken(c)
  PROVE  Locks' /\ Chains'
<1> USE DEF SessionInv
<1>1. PICK new \in RefreshToken \ Issued :
        /\ refresh' = [refresh EXCEPT ![new] = "usable"]
        /\ family' = [family EXCEPT ![new] = new]
  BY DEF CreateRefreshToken
<1>2. \A t \in RefreshToken :
        /\ refresh'[t] = IF t = new THEN "usable" ELSE refresh[t]
        /\ family'[t] = IF t = new THEN new ELSE family[t]
  BY <1>1 DEF SessionsTypeOK
<1>3. /\ refresh[new] = "none"
      /\ \A t \in RefreshToken : refresh[t] # "none" => family[t] # new
  BY DEF FamiliesAreNamed, Issued
<1>4. FamiliesAreNamed'
  BY <1>2 DEF FamiliesAreNamed, Issued, SessionsTypeOK
<1>5. OneUsableToken'
  BY <1>2, <1>3 DEF OneUsableToken
<1>6. ASSUME NEW o \in Others(c), NEW t \in RefreshToken, t \in LockedBy(o)
      PROVE  refresh'[t] = refresh[t]
  BY <1>2, <1>6, LockedTokens DEF Others
<1> QED
  BY <1>4, <1>5, <1>6, Commit DEF CreateRefreshToken, Chains

\* A rotation passes the family on from a token only it has locked.
LEMMA RotateStep ==
  ASSUME SessionInv, NEW c \in Client, RotateRefreshToken(c)
  PROVE  Locks' /\ Chains'
<1> USE DEF SessionInv
<1> DEFINE old == tx[c].on
<1>1. PICK new \in RefreshToken \ Issued :
        /\ refresh' = [refresh EXCEPT ![old] = "revoked", ![new] = "usable"]
        /\ family' = [family EXCEPT ![new] = family[old]]
  BY DEF RotateRefreshToken
<1>2. old \in RefreshToken /\ refresh[old] = "usable" /\ old \in LockedBy(c)
  BY DEF RotateRefreshToken, At, RotatedTokensAreUsable, RotatesUsable, Issued, LockedBy
<1>3. \A t \in RefreshToken :
        /\ refresh'[t] = IF t = new THEN "usable" ELSE IF t = old THEN "revoked" ELSE refresh[t]
        /\ family'[t] = IF t = new THEN family[old] ELSE family[t]
  BY <1>1, <1>2 DEF SessionsTypeOK
<1>4. FamiliesAreNamed'
  BY <1>2, <1>3 DEF FamiliesAreNamed, Issued, SessionsTypeOK
<1>5. OneUsableToken'
  BY <1>2, <1>3 DEF OneUsableToken
<1>6. ASSUME NEW o \in Others(c), NEW t \in RefreshToken, t \in LockedBy(o)
      PROVE  refresh'[t] = refresh[t]
  <2>1. t \in Issued
    BY <1>6, LockedTokens DEF Others
  <2>2. t # old
    BY <1>2, <1>6 DEF LocksExclude, Others
  <2> QED
    BY <1>3, <2>1, <2>2
<1> QED
  BY <1>4, <1>5, <1>6, Commit DEF RotateRefreshToken, Chains

\* Tokens are revoked by a statement that has waited for their locks.
LEMMA RevokeSteps ==
  ASSUME SessionInv, NEW c \in Client, Revoke(c)
  PROVE  Locks' /\ Chains'
<1>1. Chains'
  BY RevokedChains DEF Revoke
<1>2. ASSUME NEW o \in Others(c), NEW t \in RefreshToken, t \in LockedBy(o)
      PROVE  refresh'[t] = refresh[t]
  BY <1>2 DEF Revoke, Revoked, Free
<1> QED
  BY <1>1, <1>2, Commit DEF Revoke

\* So is the one token a logout revokes.
LEMMA LogoutStep ==
  ASSUME SessionInv, NEW t \in RefreshToken, RevokeRefreshToken(t)
  PROVE  Locks' /\ Chains'
<1> USE DEF SessionInv
<1>1. Chains'
  BY RevokedChains DEF RevokeRefreshToken
<1>2. LocksExclude'
  BY DEF RevokeRefreshToken, LocksExclude, LockedBy
<1>3. RedeemedLinksAreOpen'
  BY DEF RevokeRefreshToken, RedeemedLinksAreOpen, RedeemsOpen, Open
<1>4. ASSUME NEW o \in Client PROVE RotatesUsable(o)'
  BY DEF RevokeRefreshToken, Revoked, RotatedTokensAreUsable, RotatesUsable, LockedBy, Issued
<1> QED
  BY <1>1, <1>2, <1>3, <1>4 DEF Locks, RotatedTokensAreUsable

\* A workflow commits: the links it consumed are those it had locked.
LEMMA ConsumeSteps ==
  ASSUME SessionInv, NEW c \in Client, MailLink(c) \/ VerifyEmail(c)
  PROVE  Locks' /\ Chains'
<1> USE DEF SessionInv
<1>1. FamiliesAreNamed' /\ OneUsableToken'
  BY DEF MailLink, VerifyEmail, FamiliesAreNamed, Issued, OneUsableToken
<1>2. ASSUME NEW o \in Others(c), NEW l \in Link, l \in LockedBy(o)
      PROVE  link'[l] = link[l]
  <2>1. l \notin tx[c].wrote
    BY <1>2 DEF LocksExclude, LockedBy, Others
  <2>2. link[l] = "open"
    BY <1>2, LockedLinks DEF Others
  <2> QED
    BY <2>1, <2>2 DEF MailLink, VerifyEmail, Consumed
<1> QED
  BY <1>1, <1>2, Commit DEF MailLink, VerifyEmail, Chains

\* A reset commits both.
LEMMA ResetStep ==
  ASSUME SessionInv, NEW c \in Client, ResetPassword(c)
  PROVE  Locks' /\ Chains'
<1>1. Chains'
  BY RevokedChains DEF ResetPassword
<1>2. ASSUME NEW o \in Others(c), NEW t \in RefreshToken, t \in LockedBy(o)
      PROVE  refresh'[t] = refresh[t]
  BY <1>2 DEF ResetPassword, Revoked, Free
<1>3. ASSUME NEW o \in Others(c), NEW l \in Link, l \in LockedBy(o)
      PROVE  link'[l] = link[l]
  BY <1>3 DEF ResetPassword, Consumed, SessionInv, LocksExclude, LockedBy, Others
<1> QED
  BY <1>1, <1>2, <1>3, Commit DEF ResetPassword

\* Every step of Next keeps the invariant.
LEMMA InvStep == SessionInv /\ [Next]_vars => SessionInv'
<1> SUFFICES ASSUME SessionInv, [Next]_vars PROVE SessionInv'
  OBVIOUS
<1>1. SessionsTypeOK'
  BY TypeStep DEF SessionInv
<1>2. Locks' /\ Chains'
  <2>1. CASE \E t \in RefreshToken : RevokeRefreshToken(t)
    BY <2>1, LogoutStep
  <2>2. CASE \E r \in RefreshToken \cup Link : Expire(r)
    BY <2>2 DEF Expire, SessionInv, Locks, Chains, LocksExclude, LockedBy,
       RotatedTokensAreUsable, RotatesUsable, RedeemedLinksAreOpen, RedeemsOpen,
       FamiliesAreNamed, OneUsableToken, Issued, Open
  <2>3. CASE UNCHANGED vars
    BY <2>3 DEF vars, SessionInv, Locks, Chains, LocksExclude, LockedBy,
       RotatedTokensAreUsable, RotatesUsable, RedeemedLinksAreOpen, RedeemsOpen,
       FamiliesAreNamed, OneUsableToken, Issued, Open
  <2> QED
    BY <2>1, <2>2, <2>3, PrivateSteps, CreateStep, RotateStep, RevokeSteps,
       ConsumeSteps, ResetStep DEF Next
<1> QED
  BY <1>1, <1>2 DEF SessionInv, Locks, Chains

\* It holds of an account just registered.
LEMMA InitInv == Init => SessionInv
<1> SUFFICES ASSUME Init PROVE SessionInv
  OBVIOUS
<1> USE DEF Init
<1>1. SessionsTypeOK
  BY DEF SessionsTypeOK, Tx, NoTx, Op, Registered, Hash, Link
<1>2. \A c \in Client : tx[c] = NoTx
  OBVIOUS
<1>3. LocksExclude /\ RotatedTokensAreUsable /\ RedeemedLinksAreOpen
  BY <1>2 DEF NoTx, LocksExclude, LockedBy, RotatedTokensAreUsable, RotatesUsable,
     RedeemedLinksAreOpen, RedeemsOpen
<1>4. FamiliesAreNamed /\ OneUsableToken
  BY DEF FamiliesAreNamed, OneUsableToken, Issued
<1> QED
  BY <1>1, <1>3, <1>4 DEF SessionInv

-----------------------------------------------------------------------------
(* Theorems.                                                               *)

\* The inductive invariant: what a request found when it locked a row still
\* holds when it writes, however requests overlap, fail and expire.
THEOREM SessionSafety == Spec => []SessionInv
  BY InitInv, InvStep, PTL DEF Spec

\* Type correctness of every step of every handler.
THEOREM SessionTypes == Spec => []SessionsTypeOK
<1>1. SessionInv => SessionsTypeOK
  BY DEF SessionInv
<1> QED
  BY <1>1, SessionSafety, PTL

\* A session never has two usable refresh tokens, however many requests
\* present its tokens at once.
THEOREM NoForkedSession == Spec => []OneUsableToken
<1>1. SessionInv => OneUsableToken
  BY DEF SessionInv
<1> QED
  BY <1>1, SessionSafety, PTL

\* Only redeeming an open reset link changes whose password it is: a login
\* that stores a stronger hash never undoes a reset it did not see.
THEOREM PasswordByLinkOnly == Spec => PasswordChangesByLink
<1> DEFINE ByLink == password'.by # password.by =>
                       /\ password'.by \in Open(ResetLink)
                       /\ link'[password'.by] = "used"
<1>1. SessionInv /\ [Next]_vars => [ByLink]_vars
  <2> SUFFICES ASSUME SessionInv, Next, password'.by # password.by
               PROVE  ByLink
    OBVIOUS
  <2>1. \E c \in Client : ReplacePasswordHash(c) \/ ResetPassword(c)
    BY DEF Next, Abort, Expire, GetUserByEmail, CreateRefreshToken, LockToken,
       RotateRefreshToken, RevokeFamily, BeginRevocation, Revoke, RevokeRefreshToken,
       StartPasswordReset, StartEmailVerification, LockLink, UpdateUser, FindLinks,
       ConsumeLinks, MailLink, VerifyEmail, FindTokens
  <2>2. PICK c \in Client : ReplacePasswordHash(c) \/ ResetPassword(c)
    BY <2>1
  <2>3. ~ReplacePasswordHash(c)
    <3>1. tx[c].hash \in Hash
      BY DEF SessionInv, SessionsTypeOK, Tx
    <3>2. [tx[c].hash EXCEPT !.current = TRUE].by = tx[c].hash.by
      BY <3>1 DEF Hash
    <3> QED
      BY <3>2, Zenon DEF ReplacePasswordHash
  <2>4. ResetPassword(c)
    BY <2>2, <2>3
  <2>5. /\ tx[c].on \in ResetLink /\ link[tx[c].on] = "open" /\ tx[c].on \in tx[c].wrote
        /\ password'.by = tx[c].on
    BY <2>4 DEF ResetPassword, At, SessionInv, RedeemedLinksAreOpen, RedeemsOpen
  <2>6. link'[tx[c].on] = "used"
    BY <2>4, <2>5 DEF ResetPassword, Consumed, Link
  <2> QED
    BY <2>5, <2>6 DEF Open
<1> QED
  BY <1>1, SessionSafety, PTL DEF Spec, PasswordChangesByLink

-----------------------------------------------------------------------------
(* The links that verify an address.                                       *)

\* Whether a transaction has the user's row to itself and may write links
\* that verify the address.
Verifies(c) == tx[c].op = "startVerify" \/ (tx[c].op = "verify" /\ tx[c].at # "locked")
OneVerifies == \A c, d \in Client : c # d => ~(Verifies(c) /\ Verifies(d))

\* A workflow consumes every open link of its kind, and none of the other; one
\* that sends a link to verify an address found it not verified.
ConsumesAll(c) ==
  /\ tx[c].at \in {"user", "consuming", "consumed"} =>
       tx[c].op \in {"reset", "verify", "startReset", "startVerify"}
  /\ tx[c].op \in {"verify", "startVerify"} =>
       /\ tx[c].at = "consuming" => tx[c].rows = Open(VerificationLink)
       /\ tx[c].at = "consumed" => tx[c].wrote = Open(VerificationLink)
  /\ tx[c].op \in {"reset", "startReset"} =>
       /\ tx[c].at = "consuming" => tx[c].rows \subseteq ResetLink
       /\ tx[c].wrote \subseteq ResetLink
  /\ tx[c].op = "startVerify" => ~verified

LinkInv == OneVerifies /\ (\A c \in Client : ConsumesAll(c)) /\ VerificationLinksSettle

\* A step of one request keeps what is said of the others: it writes a
\* verification link only if it has the user's row.
LEMMA LinksKeep ==
  ASSUME SessionInv, LinkInv, NEW c \in Client, \A o \in Others(c) : tx'[o] = tx[o],
         Verifies(c)' => Verifies(c) \/ \A o \in Others(c) : ~Verifies(o),
         Verifies(c) \/ (UNCHANGED verified /\ \A l \in VerificationLink : link'[l] = link[l]),
         ConsumesAll(c)', VerificationLinksSettle'
  PROVE  LinkInv'
<1>1. \A o \in Others(c) : Verifies(o)' = Verifies(o)
  BY DEF Verifies
<1>2. OneVerifies'
  BY <1>1 DEF LinkInv, OneVerifies, Others
<1>3. ASSUME NEW o \in Others(c) PROVE ConsumesAll(o)'
  <2>1. ConsumesAll(o) /\ tx'[o] = tx[o]
    BY DEF LinkInv, Others
  <2>2. CASE Verifies(c)
    <3>1. ~Verifies(o)
      BY <2>2 DEF LinkInv, OneVerifies, Others
    <3> QED
      BY <2>1, <3>1 DEF ConsumesAll, Verifies
  <2>3. CASE UNCHANGED verified /\ \A l \in VerificationLink : link'[l] = link[l]
    <3>1. Open(VerificationLink)' = Open(VerificationLink)
      BY <2>3 DEF Open
    <3> QED
      BY <2>1, <2>3, <3>1 DEF ConsumesAll
  <2> QED
    BY <2>2, <2>3
<1> QED
  BY <1>2, <1>3 DEF LinkInv, Others

\* A step that writes no link and does not verify the address, for a request
\* that does not take the user's row by it.
LEMMA LinksRest ==
  ASSUME SessionInv, LinkInv, NEW c \in Client, \A o \in Others(c) : tx'[o] = tx[o],
         Verifies(c)' => Verifies(c) \/ \A o \in Others(c) : ~Verifies(o),
         UNCHANGED <<link, verified>>, ConsumesAll(c)'
  PROVE  LinkInv'
<1>1. VerificationLinksSettle'
  BY DEF LinkInv, VerificationLinksSettle, Open
<1> QED
  BY <1>1, LinksKeep

\* Who has the user's row excludes the others that verify.
LEMMA UserFreed ==
  ASSUME NEW c \in Client, UserFree(c)
  PROVE  \A o \in Others(c) : ~Verifies(o)
BY DEF UserFree, UserShareable, UpdatesUser, Verifies

\* Every step of Next keeps the links' invariant.
LEMMA LinkStep == SessionInv /\ LinkInv /\ [Next]_vars => LinkInv'
<1> SUFFICES ASSUME SessionInv, LinkInv, [Next]_vars PROVE LinkInv'
  OBVIOUS
<1> USE DEF SessionInv
<1>kinds. /\ \A l \in VerificationLink : l \in Link /\ l \notin ResetLink
          /\ \A l \in ResetLink : l \in Link /\ l \notin VerificationLink
  BY SessionsAssumption DEF Link
<1>tx. \A c \in Client : tx[c] \in Tx
  BY DEF SessionsTypeOK
<1>1. CASE UNCHANGED <<link, verified, tx>>
  BY <1>1 DEF LinkInv, OneVerifies, Verifies, ConsumesAll, VerificationLinksSettle, Open
<1>2. ASSUME NEW c \in Client, Done(c), UNCHANGED <<link, verified>> PROVE LinkInv'
  <2>1. tx'[c] = NoTx /\ \A o \in Others(c) : tx'[o] = tx[o]
    BY <1>2, DoneEnds
  <2>2. ~Verifies(c)' /\ ConsumesAll(c)'
    BY <2>1 DEF NoTx, Verifies, ConsumesAll
  <2> QED
    BY <1>2, <2>1, <2>2, LinksRest
<1>3. ASSUME NEW c \in Client,
             \/ GetUserByEmail(c) \/ ReplacePasswordHash(c)
             \/ \E t \in RefreshToken : LockToken(c, t)
             \/ BeginRevocation(c) \/ RevokeFamily(c)
      PROVE  LinkInv'
  <2>1. /\ tx'[c].op \in {"login", "rotate", "replay", "revoke"}
        /\ tx'[c].at \in {"read", "rehashed", "locked", "revoking"}
        /\ \A o \in Others(c) : tx'[o] = tx[o]
        /\ UNCHANGED <<link, verified>>
    <3>1. CASE GetUserByEmail(c)
      BY <3>1 DEF GetUserByEmail, NoTx, SessionsTypeOK, Others
    <3>2. CASE ReplacePasswordHash(c)
      BY <1>tx, <3>2 DEF ReplacePasswordHash, At, Tx, SessionsTypeOK, Others
    <3>3. ASSUME NEW t \in RefreshToken, LockToken(c, t)
          PROVE  /\ tx'[c].op \in {"rotate", "replay"} /\ tx'[c].at = "locked"
                 /\ \A o \in Others(c) : tx'[o] = tx[o]
                 /\ UNCHANGED <<link, verified>>
      BY <3>3, BeginFinds DEF LockToken
    <3>4. CASE BeginRevocation(c)
      BY <3>4 DEF BeginRevocation, NoTx, SessionsTypeOK, Others
    <3>5. CASE RevokeFamily(c)
      BY <3>5, SnapshotTakes DEF RevokeFamily, At
    <3> QED
      BY <1>3, <3>1, <3>2, <3>3, <3>4, <3>5
  <2>2. ~Verifies(c)' /\ ConsumesAll(c)'
    BY <2>1 DEF Verifies, ConsumesAll
  <2> QED
    BY <2>1, <2>2, LinksRest
<1>4. ASSUME NEW c \in Client, StartPasswordReset(c) PROVE LinkInv'
  <2>1. /\ tx'[c].op = "startReset" /\ tx'[c].at = "user" /\ tx'[c].wrote = {}
        /\ \A o \in Others(c) : tx'[o] = tx[o] /\ UNCHANGED <<link, verified>>
    BY <1>4, BeginFinds DEF StartPasswordReset
  <2>2. ~Verifies(c)' /\ ConsumesAll(c)'
    BY <2>1 DEF Verifies, ConsumesAll
  <2> QED
    BY <1>4, <2>1, <2>2, LinksRest DEF StartPasswordReset
<1>5. ASSUME NEW c \in Client, StartEmailVerification(c) PROVE LinkInv'
  <2>1. /\ tx'[c].op = "startVerify" /\ tx'[c].at = "user"
        /\ \A o \in Others(c) : tx'[o] = tx[o]
        /\ UNCHANGED <<link, verified>> /\ ~verified
    BY <1>5, BeginFinds DEF StartEmailVerification
  <2>2. ConsumesAll(c)'
    BY <2>1 DEF ConsumesAll
  <2>3. \A o \in Others(c) : ~Verifies(o)
    BY <1>5, UserFreed DEF StartEmailVerification
  <2> QED
    BY <2>1, <2>2, <2>3, LinksRest
<1>6. ASSUME NEW c \in Client, NEW l \in Link, LockLink(c, l) PROVE LinkInv'
  <2>1. /\ tx'[c].op \in {"reset", "verify"} /\ tx'[c].at = "locked" /\ tx'[c].wrote = {}
        /\ \A o \in Others(c) : tx'[o] = tx[o]
        /\ UNCHANGED <<link, verified>>
    BY <1>6, BeginFinds DEF LockLink
  <2>2. ~Verifies(c)' /\ ConsumesAll(c)'
    BY <2>1 DEF Verifies, ConsumesAll
  <2> QED
    BY <2>1, <2>2, LinksRest
<1>7. ASSUME NEW c \in Client, UpdateUser(c) PROVE LinkInv'
  <2>1. /\ tx[c].op \in {"reset", "verify"} /\ tx'[c].op = tx[c].op /\ tx'[c].at = "user"
        /\ tx'[c].wrote = tx[c].wrote
        /\ \A o \in Others(c) : tx'[o] = tx[o]
        /\ UNCHANGED <<link, verified>>
    BY <1>tx, <1>7 DEF UpdateUser, At, Tx, SessionsTypeOK, Others
  <2>2. ConsumesAll(c)'
    BY <2>1 DEF ConsumesAll, LinkInv
  <2>3. \A o \in Others(c) : ~Verifies(o)
    BY <1>7, UserFreed DEF UpdateUser
  <2> QED
    BY <2>1, <2>2, <2>3, LinksRest
<1>8. ASSUME NEW c \in Client, FindLinks(c) PROVE LinkInv'
  <2>1. /\ tx[c].at = "user" /\ tx'[c].op = tx[c].op /\ tx'[c].at = "consuming"
        /\ tx'[c].rows = Open(LinksOf(c)) /\ tx'[c].wrote = tx[c].wrote
        /\ \A o \in Others(c) : tx'[o] = tx[o]
        /\ UNCHANGED <<link, verified>>
    BY <1>8, SnapshotTakes DEF FindLinks
  <2>2. ConsumesAll(c)'
    BY <2>1 DEF ConsumesAll, LinkInv, LinksOf, Open
  <2>3. Verifies(c)' => Verifies(c)
    BY <2>1 DEF Verifies
  <2> QED
    BY <2>1, <2>2, <2>3, LinksRest
<1>9. ASSUME NEW c \in Client, ConsumeLinks(c) PROVE LinkInv'
  <2>1. /\ tx[c].at = "consuming" /\ tx'[c].op = tx[c].op /\ tx'[c].at = "consumed"
        /\ tx'[c].wrote = Open(tx[c].rows)
        /\ \A o \in Others(c) : tx'[o] = tx[o]
        /\ UNCHANGED <<link, verified>>
    BY <1>tx, <1>9 DEF ConsumeLinks, Tx, SessionsTypeOK, Others
  <2>2. ConsumesAll(c)'
    BY <2>1 DEF ConsumesAll, LinkInv, Open
  <2>3. Verifies(c)' => Verifies(c)
    BY <2>1 DEF Verifies
  <2> QED
    BY <2>1, <2>2, <2>3, LinksRest
<1>10. ASSUME NEW c \in Client, FindTokens(c) PROVE LinkInv'
  <2>1. /\ tx[c].op = "reset" /\ tx'[c].op = tx[c].op /\ tx'[c].at = "revoking"
        /\ tx'[c].wrote = tx[c].wrote
        /\ \A o \in Others(c) : tx'[o] = tx[o]
        /\ UNCHANGED <<link, verified>>
    BY <1>10, SnapshotTakes DEF FindTokens, At
  <2>2. ~Verifies(c)' /\ ConsumesAll(c)'
    BY <2>1 DEF Verifies, ConsumesAll, LinkInv
  <2> QED
    BY <2>1, <2>2, LinksRest
<1>11. ASSUME NEW c \in Client, MailLink(c) \/ VerifyEmail(c) \/ ResetPassword(c) PROVE LinkInv'
  <2>1. tx'[c] = NoTx /\ \A o \in Others(c) : tx'[o] = tx[o]
    BY <1>11, DoneEnds DEF MailLink, VerifyEmail, ResetPassword
  <2>2. ~Verifies(c)' /\ ConsumesAll(c)'
    BY <2>1 DEF NoTx, Verifies, ConsumesAll
  <2>3. CASE tx[c].op \in {"reset", "startReset"}
    <3>1. UNCHANGED verified /\ \A l \in VerificationLink : link'[l] = link[l]
      <4>1. tx[c].wrote \subseteq ResetLink
        BY <2>3 DEF LinkInv, ConsumesAll
      <4> QED
        BY <1>11, <1>kinds, <2>3, <4>1
        DEF MailLink, VerifyEmail, ResetPassword, At, Consumed, LinksOf
    <3>2. VerificationLinksSettle'
      BY <3>1 DEF LinkInv, VerificationLinksSettle, Open
    <3> QED
      BY <2>1, <2>2, <3>1, <3>2, LinksKeep
  <2>4. CASE tx[c].op = "startVerify"
    <3>1. MailLink(c) /\ tx[c].wrote = Open(VerificationLink) /\ ~verified
      BY <1>11, <2>4 DEF MailLink, VerifyEmail, ResetPassword, At, LinkInv, ConsumesAll
    <3>2. PICK l \in VerificationLink : link' = [Consumed(c) EXCEPT ![l] = "open"]
      BY <2>4, <3>1 DEF MailLink, LinksOf
    <3>3. \A k \in VerificationLink : k # l => link'[k] # "open"
      BY <1>kinds, <3>1, <3>2 DEF Consumed, Open
    <3>4. VerificationLinksSettle'
      BY <3>1, <3>3 DEF VerificationLinksSettle, Open, MailLink
    <3> QED
      BY <2>1, <2>2, <2>4, <3>4, LinksKeep DEF Verifies
  <2>5. CASE tx[c].op = "verify"
    <3>1. VerifyEmail(c) /\ tx[c].at = "consumed" /\ tx[c].wrote = Open(VerificationLink)
      BY <1>11, <2>5 DEF MailLink, VerifyEmail, ResetPassword, At, LinkInv, ConsumesAll
    <3>2. \A k \in VerificationLink : link'[k] # "open"
      BY <1>kinds, <3>1 DEF VerifyEmail, Consumed, Open
    <3>3. VerificationLinksSettle'
      BY <3>2 DEF VerificationLinksSettle, Open
    <3> QED
      BY <2>1, <2>2, <2>5, <3>1, <3>3, LinksKeep DEF Verifies
  <2> QED
    BY <1>11, <2>3, <2>4, <2>5 DEF MailLink, VerifyEmail, ResetPassword, At
<1>12. ASSUME NEW c \in Client,
              Abort(c) \/ CreateRefreshToken(c) \/ RotateRefreshToken(c) \/ Revoke(c)
       PROVE  LinkInv'
  BY <1>2, <1>12 DEF Abort, CreateRefreshToken, RotateRefreshToken, Revoke
<1>13. ASSUME \/ \E t \in RefreshToken : RevokeRefreshToken(t)
              \/ \E r \in RefreshToken \cup Link : Expire(r)
       PROVE  LinkInv'
  BY <1>1, <1>13 DEF RevokeRefreshToken, Expire
<1>14. CASE UNCHANGED vars
  BY <1>1, <1>14 DEF vars
<1> QED
  BY <1>3, <1>4, <1>5, <1>6, <1>7, <1>8, <1>9, <1>10, <1>11, <1>12, <1>13, <1>14 DEF Next

\* Only the latest verification link works, and none once the address is
\* verified, however many requests send and redeem links at once: each takes
\* the user's row before it looks for the links it consumes.
THEOREM LinksSettle == Spec => []VerificationLinksSettle
<1>1. Init => LinkInv
  <2> SUFFICES ASSUME Init PROVE LinkInv
    OBVIOUS
  <2>1. OneVerifies /\ \A c \in Client : ConsumesAll(c)
    BY DEF Init, NoTx, OneVerifies, Verifies, ConsumesAll
  <2>2. VerificationLinksSettle
    BY DEF Init, VerificationLinksSettle, Open, Link
  <2> QED
    BY <2>1, <2>2 DEF LinkInv
<1>2. LinkInv => VerificationLinksSettle
  BY DEF LinkInv
<1> QED
  BY <1>1, <1>2, LinkStep, SessionSafety, PTL DEF Spec

-----------------------------------------------------------------------------
(* Sessions implement SessionFamily.                                       *)

Holds(t, f) == refresh[t] = "usable" /\ family[t] = f

\* The holder of a session is its usable token.
LEMMA HolderIs ==
  ASSUME OneUsableToken, NEW f
  PROVE  /\ \A t \in RefreshToken : Holds(t, f) => Holder(f) = t
         /\ (\A t \in RefreshToken : ~Holds(t, f)) => Holder(f) = NoRow
  BY DEF OneUsableToken, Holder, Holds

\* The same of the next state.
LEMMA HolderWillBe ==
  ASSUME OneUsableToken', NEW f
  PROVE  /\ \A t \in RefreshToken : Holds(t, f)' => Holder(f)' = t
         /\ (\A t \in RefreshToken : ~Holds(t, f)') => Holder(f)' = NoRow
  BY DEF OneUsableToken, Holder, Holds

\* What a step may do to the tokens.
Opens(new) ==
  /\ new \notin Issued
  /\ \A t \in RefreshToken :
       /\ refresh'[t] = IF t = new THEN "usable" ELSE refresh[t]
       /\ family'[t] = IF t = new THEN new ELSE family[t]
Rotates(old, new) ==
  /\ refresh[old] = "usable" /\ new \notin Issued
  /\ \A t \in RefreshToken :
       /\ refresh'[t] = IF t = new THEN "usable" ELSE IF t = old THEN "revoked" ELSE refresh[t]
       /\ family'[t] = IF t = new THEN family[old] ELSE family[t]
Ends(rows) ==
  \A t \in RefreshToken :
    /\ refresh'[t] = IF t \in rows THEN "revoked" ELSE refresh[t]
    /\ family'[t] = family[t]

\* A step opens a session, rotates a token, or revokes some tokens or none.
LEMMA TokenSteps ==
  ASSUME SessionInv, [Next]_vars
  PROVE  \/ \E new \in RefreshToken : Opens(new)
         \/ \E old, new \in RefreshToken : Rotates(old, new)
         \/ \E rows \in SUBSET (RefreshToken \cup Link) : Ends(rows)
<1> USE DEF SessionInv
<1>1. ASSUME NEW c \in Client, CreateRefreshToken(c)
      PROVE  \E new \in RefreshToken : Opens(new)
  BY <1>1 DEF CreateRefreshToken, SessionsTypeOK, Opens
<1>2. ASSUME NEW c \in Client, RotateRefreshToken(c)
      PROVE  \E old, new \in RefreshToken : Rotates(old, new)
  <2>1. tx[c].on \in RefreshToken /\ refresh[tx[c].on] = "usable"
    BY <1>2 DEF RotateRefreshToken, At, RotatedTokensAreUsable, RotatesUsable, Issued
  <2>2. PICK new \in RefreshToken \ Issued :
          /\ refresh' = [refresh EXCEPT ![tx[c].on] = "revoked", ![new] = "usable"]
          /\ family' = [family EXCEPT ![new] = family[tx[c].on]]
    BY <1>2 DEF RotateRefreshToken
  <2>3. Rotates(tx[c].on, new)
    BY <2>1, <2>2 DEF SessionsTypeOK, Rotates
  <2> QED
    BY <2>1, <2>3
<1>3. ASSUME NEW c \in Client, Revoke(c) \/ ResetPassword(c)
      PROVE  \E rows \in SUBSET (RefreshToken \cup Link) : Ends(rows)
  <2>1. tx[c].rows \in SUBSET (RefreshToken \cup Link)
    BY DEF SessionsTypeOK, Tx
  <2>2. Ends(tx[c].rows)
    BY <1>3 DEF Revoke, ResetPassword, Revoked, Ends
  <2> QED
    BY <2>1, <2>2
<1>4. ASSUME NEW t \in RefreshToken, RevokeRefreshToken(t)
      PROVE  \E rows \in SUBSET (RefreshToken \cup Link) : Ends(rows)
  <2>1. Ends({t})
    BY <1>4 DEF RevokeRefreshToken, Revoked, Ends
  <2> QED
    BY <2>1
<1>5. ASSUME UNCHANGED <<refresh, family>>
      PROVE  \E rows \in SUBSET (RefreshToken \cup Link) : Ends(rows)
  <2>1. Ends({})
    BY <1>5 DEF Ends
  <2> QED
    BY <2>1
<1> QED
  BY <1>1, <1>2, <1>3, <1>4, <1>5 DEF Next, vars, Abort, Expire, GetUserByEmail,
     ReplacePasswordHash, LockToken, RevokeFamily, BeginRevocation,
     StartPasswordReset, StartEmailVerification, LockLink, UpdateUser, FindLinks,
     ConsumeLinks, MailLink, VerifyEmail, FindTokens

\* One session's step: it opens, goes on, ends or stays.
LEMMA FamilyMoves ==
  ASSUME SessionInv, SessionInv', [Next]_vars, NEW f \in RefreshToken
  PROVE  \/ Holder(f)' = Holder(f)
         \/ f \notin Issued /\ Holder(f) = NoRow /\ Holder(f)' = f
         \/ Holder(f) # NoRow /\ Holder(f)' \in RefreshToken \ Issued
         \/ Holder(f) # NoRow /\ Holder(f)' = NoRow
<1>1. /\ \A t \in RefreshToken : Holds(t, f) => Holder(f) = t
      /\ (\A t \in RefreshToken : ~Holds(t, f)) => Holder(f) = NoRow
  BY HolderIs DEF SessionInv
<1>2. /\ \A t \in RefreshToken : Holds(t, f)' => Holder(f)' = t
      /\ (\A t \in RefreshToken : ~Holds(t, f)') => Holder(f)' = NoRow
  BY HolderWillBe DEF SessionInv
<1>3. NoRow \notin RefreshToken
  BY SessionsAssumption
<1>4. ASSUME NEW new \in RefreshToken, Opens(new)
      PROVE  \/ Holder(f)' = Holder(f)
             \/ f \notin Issued /\ Holder(f) = NoRow /\ Holder(f)' = f
  <2>1. CASE f = new
    <3>1. \A t \in RefreshToken : ~Holds(t, f)
      BY <1>4, <2>1 DEF Opens, Holds, Issued, SessionInv, FamiliesAreNamed
    <3>2. Holds(f, f)'
      BY <1>4, <2>1 DEF Opens, Holds
    <3> QED
      BY <1>1, <1>2, <1>4, <2>1, <3>1, <3>2 DEF Opens
  <2>2. CASE f # new
    <3>1. \A t \in RefreshToken : Holds(t, f)' <=> Holds(t, f)
      BY <1>4, <2>2 DEF Opens, Holds, Issued
    <3> QED
      BY <1>1, <1>2, <3>1
  <2> QED
    BY <2>1, <2>2
<1>5. ASSUME NEW old \in RefreshToken, NEW new \in RefreshToken, Rotates(old, new)
      PROVE  \/ Holder(f)' = Holder(f)
             \/ Holder(f) # NoRow /\ Holder(f)' \in RefreshToken \ Issued
  <2>1. CASE f = family[old]
    <3>1. Holds(old, f) /\ Holds(new, f)'
      BY <1>5, <2>1 DEF Rotates, Holds
    <3> QED
      BY <1>1, <1>2, <1>3, <1>5, <3>1 DEF Rotates
  <2>2. CASE f # family[old]
    <3>1. \A t \in RefreshToken : Holds(t, f)' <=> Holds(t, f)
      BY <1>5, <2>2 DEF Rotates, Holds, Issued
    <3> QED
      BY <1>1, <1>2, <3>1
  <2> QED
    BY <2>1, <2>2
<1>6. ASSUME NEW rows, Ends(rows)
      PROVE  \/ Holder(f)' = Holder(f)
             \/ Holder(f) # NoRow /\ Holder(f)' = NoRow
  <2>1. \A t \in RefreshToken : Holds(t, f)' => Holds(t, f)
    BY <1>6 DEF Ends, Holds
  <2> QED
    BY <1>1, <1>2, <2>1
<1> QED
  BY <1>4, <1>5, <1>6, TokenSteps

\* Rotation, replay, logout, revocation and reset, however they overlap, only
\* ever continue a session from its last token or end it for good.
THEOREM SessionsAreFamilies == Spec => KeepsFamilies
<1> DEFINE holder == [f \in RefreshToken |-> Holder(f)]
<1>1. Init => Families!Init
  <2> SUFFICES ASSUME Init PROVE Families!Init
    OBVIOUS
  <2>1. \A t \in RefreshToken : refresh[t] = "none"
    BY DEF Init
  <2> QED
    BY <2>1 DEF Families!Init, Holder, Issued
<1>2. SessionInv /\ SessionInv' /\ [Next]_vars => Families!Next
  <2> SUFFICES ASSUME SessionInv, SessionInv', [Next]_vars PROVE Families!Next
    OBVIOUS
  <2>1. ASSUME NEW f \in RefreshToken
        PROVE  \/ Holder(f)' = NoRow
               \/ \E t \in RefreshToken : Holder(f)' = t /\ Holds(t, f)'
    BY HolderWillBe DEF SessionInv
  <2>2. ASSUME NEW f \in RefreshToken, Holder(f)' # NoRow
        PROVE  /\ Holder(f)' \in Issued'
               /\ \A g \in RefreshToken \ {f} : Holder(g)' # Holder(f)'
    <3>1. PICK t \in RefreshToken : Holder(f)' = t /\ Holds(t, f)'
      BY <2>1, <2>2
    <3>2. t \in Issued'
      BY <3>1 DEF Holds, Issued
    <3>3. ASSUME NEW g \in RefreshToken \ {f} PROVE Holder(g)' # t
      <4>1. ~Holds(t, g)'
        BY <3>1 DEF Holds
      <4> QED
        BY <2>1, <4>1, SessionsAssumption
    <3> QED
      BY <3>1, <3>2, <3>3
  <2>3. Issued \subseteq Issued'
    BY TokenSteps DEF Issued, Opens, Rotates, Ends
  <2>4. holder' \in [RefreshToken -> RefreshToken \cup {NoRow}]
    BY <2>1
  <2>5. ASSUME NEW f \in RefreshToken
        PROVE  \/ holder'[f] = holder[f]
               \/ f \notin Issued /\ holder[f] = NoRow /\ holder'[f] = f
               \/ holder[f] # NoRow /\ holder'[f] \in RefreshToken \ Issued
               \/ holder[f] # NoRow /\ holder'[f] = NoRow
    BY FamilyMoves
  <2> QED
    BY <2>2, <2>3, <2>4, <2>5
       DEF Families!Next, Families!Stay, Families!Open, Families!Rotate, Families!End
<1>3. SessionInv /\ SessionInv' /\ [Next]_vars => [Families!Next]_<<holder, Issued>>
  BY <1>2
<1> QED
  BY <1>1, <1>3, SessionSafety, PTL DEF Spec, KeepsFamilies, Families!Spec
=============================================================================
