------------------------------ MODULE Sessions ------------------------------
(***************************************************************************)
(* A user's sessions and the links mailed to them: refresh tokens          *)
(* (internal/store/users.go), e-mail verification and password reset       *)
(* (internal/store/auth_workflows.go), and the login handler that spans    *)
(* several statements (internal/httpapi/auth_handlers.go).  Every          *)
(* statement names one user, so there is one; the account exists           *)
(* throughout.                                                             *)
(*                                                                         *)
(* The database runs at READ COMMITTED.  A row lock is held until the      *)
(* transaction ends.  An UPDATE of several rows takes a snapshot when it   *)
(* starts, waits for the rows others have locked, and never sees a row     *)
(* inserted since.  A statement that waits for no lock, or only for the    *)
(* lock of a single row it knows by its hash, is one step; what a          *)
(* transaction wrote shows when it commits.                                *)
(***************************************************************************)
EXTENDS Naturals, FiniteSets

CONSTANTS
  RefreshToken,      \* refresh_tokens rows
  ResetLink,         \* password_reset_tokens rows
  VerificationLink,  \* email_verification_tokens rows
  Client,            \* requests in progress at once
  NoRow,
  MaxExpired         \* bound: rows that expire in a behaviour

Link == ResetLink \cup VerificationLink

ASSUME SessionsAssumption ==
  /\ RefreshToken \cap Link = {}
  /\ ResetLink \cap VerificationLink = {}
  /\ NoRow \notin RefreshToken \cup Link
  /\ MaxExpired \in Nat

VARIABLES
  refresh,    \* token -> "none", "usable" or "revoked" (revoked_at is set)
  family,     \* token -> family_id, named by the family's first token
  link,       \* link -> "none", "open" or "used" (consumed_at is set)
  expired,    \* rows with expires_at <= now()
  password,   \* users.password_hash
  verified,   \* whether users.email_verified_at is set
  tx          \* client -> its transaction, or the login it is in

vars == <<refresh, family, link, expired, password, verified, tx>>

\* A hash tells whose password it is of, that of the registration (NoRow) or
\* of a reset, and whether its parameters are the current ones.
Hash == [by : ResetLink \cup {NoRow}, current : BOOLEAN]
Registered == [by |-> NoRow, current |-> FALSE]

Op == {"none", "login", "rotate", "replay", "revoke", "reset", "verify",
       "startReset", "startVerify"}

\* on: the row found by its hash, under FOR UPDATE; rows: the snapshot of the
\* statement that runs; wrote: links its transaction has marked as consumed.
Tx == [op : Op,
       at : {"idle", "read", "rehashed", "locked", "user", "consuming", "consumed", "revoking"},
       on : RefreshToken \cup Link \cup {NoRow},
       rows : SUBSET (RefreshToken \cup Link),
       wrote : SUBSET Link,
       hash : Hash]
NoTx == [op |-> "none", at |-> "idle", on |-> NoRow, rows |-> {}, wrote |-> {},
         hash |-> Registered]

SessionsTypeOK ==
  /\ refresh \in [RefreshToken -> {"none", "usable", "revoked"}]
  /\ family \in [RefreshToken -> RefreshToken]
  /\ link \in [Link -> {"none", "open", "used"}]
  /\ expired \subseteq RefreshToken \cup Link
  /\ password \in Hash
  /\ verified \in BOOLEAN
  /\ tx \in [Client -> Tx]

\* CreateUser mails the first verification link.
Init ==
  /\ refresh = [t \in RefreshToken |-> "none"]
  /\ family = [t \in RefreshToken |-> t]
  /\ \E l \in VerificationLink :
       link = [k \in Link |-> IF k = l THEN "open" ELSE "none"]
  /\ expired = {}
  /\ password = Registered
  /\ verified = FALSE
  /\ tx = [c \in Client |-> NoTx]

-----------------------------------------------------------------------------
(* Transactions and locks.                                                 *)

Issued == {t \in RefreshToken : refresh[t] # "none"}
Open(links) == {l \in links : link[l] = "open"}

Others(c) == Client \ {c}
At(c, ops, at) == tx[c].op \in ops /\ tx[c].at = at

Begin(c, op, at, row) ==
  /\ tx[c] = NoTx
  /\ tx' = [tx EXCEPT ![c] = [NoTx EXCEPT !.op = op, !.at = at, !.on = row]]
Snapshot(c, at, rows) == tx' = [tx EXCEPT ![c] = [@ EXCEPT !.at = at, !.rows = rows]]
Done(c) == tx' = [tx EXCEPT ![c] = NoTx]

LockedBy(c) ==
  tx[c].wrote \cup
  (IF tx[c].op \in {"rotate", "replay", "reset", "verify"} THEN {tx[c].on} ELSE {})
Free(c, rows) == \A o \in Others(c) : LockedBy(o) \cap rows = {}

\* The user's row: FOR UPDATE, UPDATE and FOR SHARE exclude one another,
\* except FOR SHARE itself; the foreign key of an INSERT yields to FOR UPDATE.
UpdatesUser(c) == tx[c].op \in {"reset", "verify"} /\ tx[c].at # "locked"
UserShareable(c) ==
  \A o \in Others(c) : tx[o].op # "startVerify" /\ ~UpdatesUser(o)
UserFree(c) == UserShareable(c) /\ \A o \in Others(c) : tx[o].op # "startReset"
UserReferable(c) == \A o \in Others(c) : tx[o].op # "startVerify"

\* Any statement may fail: the request is cancelled, the connection is lost,
\* or PostgreSQL breaks a deadlock.  The transaction is rolled back.
Abort(c) ==
  /\ tx[c] # NoTx /\ Done(c)
  /\ UNCHANGED <<refresh, family, link, expired, password, verified>>

Expire(r) ==
  /\ r \in Issued \cup {l \in Link : link[l] # "none"} /\ r \notin expired
  /\ Cardinality(expired) < MaxExpired
  /\ expired' = expired \cup {r}
  /\ UNCHANGED <<refresh, family, link, password, verified, tx>>

-----------------------------------------------------------------------------
(* login: reads the hash, checks the password, which takes long, and may   *)
(* store a stronger hash of it before it opens a session.                  *)

GetUserByEmail(c) ==
  /\ tx[c] = NoTx
  /\ tx' = [tx EXCEPT ![c] = [NoTx EXCEPT !.op = "login", !.at = "read", !.hash = password]]
  /\ UNCHANGED <<refresh, family, link, expired, password, verified>>

\* Mutant: WHERE id = $1, whatever the hash is by now.
ReplaceAnyHash(c) ==
  /\ At(c, {"login"}, "read") /\ ~tx[c].hash.current
  /\ UserFree(c)
  /\ password' = [tx[c].hash EXCEPT !.current = TRUE]
  /\ tx' = [tx EXCEPT ![c] = [@ EXCEPT !.at = "rehashed"]]
  /\ UNCHANGED <<refresh, family, link, expired, verified>>

ReplacePasswordHash(c) ==
  /\ At(c, {"login"}, "read") /\ ~tx[c].hash.current
  /\ UserFree(c)
  /\ password' = IF password = tx[c].hash
                   THEN [tx[c].hash EXCEPT !.current = TRUE] ELSE password
  /\ tx' = [tx EXCEPT ![c] = [@ EXCEPT !.at = "rehashed"]]
  /\ UNCHANGED <<refresh, family, link, expired, verified>>

\* A failing rehash is only logged, so the session may open without it.
CreateRefreshToken(c) ==
  /\ tx[c].op = "login" /\ UserReferable(c)
  /\ \E t \in RefreshToken \ Issued :
       /\ refresh' = [refresh EXCEPT ![t] = "usable"]
       /\ family' = [family EXCEPT ![t] = t]
  /\ Done(c)
  /\ UNCHANGED <<link, expired, password, verified>>

-----------------------------------------------------------------------------
(* Refresh tokens.                                                         *)

\* Mutant: SELECT without FOR UPDATE.
ReadToken(c, t) ==
  /\ t \in Issued \ expired
  /\ Begin(c, IF refresh[t] = "usable" THEN "rotate" ELSE "replay", "locked", t)
  /\ UNCHANGED <<refresh, family, link, expired, password, verified>>

\* Mutant: revoked_at is not looked at.
LockAnyToken(c, t) ==
  /\ t \in Issued \ expired /\ Free(c, {t})
  /\ Begin(c, "rotate", "locked", t)
  /\ UNCHANGED <<refresh, family, link, expired, password, verified>>

\* RotateRefreshToken: SELECT ... FOR UPDATE of the token presented.
LockToken(c, t) ==
  /\ t \in Issued \ expired /\ Free(c, {t})
  /\ Begin(c, IF refresh[t] = "usable" THEN "rotate" ELSE "replay", "locked", t)
  /\ UNCHANGED <<refresh, family, link, expired, password, verified>>

\* ... a token still usable is replaced by a new one of its family,
RotateRefreshToken(c) ==
  LET old == tx[c].on IN
  /\ At(c, {"rotate"}, "locked") /\ UserReferable(c)
  /\ \E new \in RefreshToken \ Issued :
       /\ refresh' = [refresh EXCEPT ![old] = "revoked", ![new] = "usable"]
       /\ family' = [family EXCEPT ![new] = family[old]]
  /\ Done(c)
  /\ UNCHANGED <<link, expired, password, verified>>

\* ... and one presented a second time revokes its family.
RevokeFamily(c) ==
  /\ At(c, {"replay"}, "locked")
  /\ Snapshot(c, "revoking", {t \in Issued : family[t] = family[tx[c].on]})
  /\ UNCHANGED <<refresh, family, link, expired, password, verified>>

\* RevokeSession and RevokeAllSessions, one UPDATE each.
BeginRevocation(c) ==
  /\ tx[c] = NoTx
  /\ \E rows \in {Issued} \cup
                 {{t \in Issued : refresh[t] = "usable" /\ family[t] = f} : f \in Issued} :
       tx' = [tx EXCEPT ![c] = [NoTx EXCEPT !.op = "revoke", !.at = "revoking", !.rows = rows]]
  /\ UNCHANGED <<refresh, family, link, expired, password, verified>>

Revoked(rows) ==
  [t \in RefreshToken |-> IF t \in rows THEN "revoked" ELSE refresh[t]]

\* Mutant: DELETE instead of UPDATE.
DeleteTokens(c) ==
  /\ At(c, {"replay", "revoke"}, "revoking") /\ Free(c, tx[c].rows)
  /\ refresh' = [t \in RefreshToken |-> IF t \in tx[c].rows THEN "deleted" ELSE refresh[t]]
  /\ Done(c)
  /\ UNCHANGED <<family, link, expired, password, verified>>

Revoke(c) ==
  /\ At(c, {"replay", "revoke"}, "revoking") /\ Free(c, tx[c].rows)
  /\ refresh' = Revoked(tx[c].rows)
  /\ Done(c)
  /\ UNCHANGED <<family, link, expired, password, verified>>

\* RevokeRefreshToken: logout of the session the token belongs to.
RevokeRefreshToken(t) ==
  /\ refresh[t] = "usable" /\ \A o \in Client : t \notin LockedBy(o)
  /\ refresh' = Revoked({t})
  /\ UNCHANGED <<family, link, expired, password, verified, tx>>

-----------------------------------------------------------------------------
(* Links.  Starting a workflow locks the user first and then the older     *)
(* links; redeeming a link locks it first and then the user.               *)

\* StartPasswordReset: SELECT ... FOR SHARE of the user.
StartPasswordReset(c) ==
  /\ UserShareable(c)
  /\ Begin(c, "startReset", "user", NoRow)
  /\ UNCHANGED <<refresh, family, link, expired, password, verified>>

\* Mutant: SELECT without FOR UPDATE.
StartEmailVerificationUnlocked(c) ==
  /\ ~verified
  /\ Begin(c, "startVerify", "user", NoRow)
  /\ UNCHANGED <<refresh, family, link, expired, password, verified>>

\* StartEmailVerification: SELECT ... FOR UPDATE of the user.
StartEmailVerification(c) ==
  /\ UserFree(c) /\ ~verified
  /\ Begin(c, "startVerify", "user", NoRow)
  /\ UNCHANGED <<refresh, family, link, expired, password, verified>>

\* VerifyEmail and ResetPassword: SELECT ... FOR UPDATE of the link, ...
LockLink(c, l) ==
  /\ l \in Open(Link) \ expired /\ Free(c, {l})
  /\ Begin(c, IF l \in ResetLink THEN "reset" ELSE "verify", "locked", l)
  /\ UNCHANGED <<refresh, family, link, expired, password, verified>>

\* ... then UPDATE users.
UpdateUser(c) ==
  /\ At(c, {"reset", "verify"}, "locked") /\ UserFree(c)
  /\ tx' = [tx EXCEPT ![c] = [@ EXCEPT !.at = "user"]]
  /\ UNCHANGED <<refresh, family, link, expired, password, verified>>

\* All four consume the user's open links of the kind, in one UPDATE.
LinksOf(c) == IF tx[c].op \in {"reset", "startReset"} THEN ResetLink ELSE VerificationLink

FindLinks(c) ==
  /\ tx[c].at = "user"
  /\ Snapshot(c, "consuming", Open(LinksOf(c)))
  /\ UNCHANGED <<refresh, family, link, expired, password, verified>>

ConsumeLinks(c) ==
  /\ tx[c].at = "consuming" /\ Free(c, tx[c].rows)
  /\ tx' = [tx EXCEPT ![c] = [@ EXCEPT !.at = "consumed", !.rows = {},
                                         !.wrote = Open(tx[c].rows)]]
  /\ UNCHANGED <<refresh, family, link, expired, password, verified>>

Consumed(c) == [l \in Link |-> IF l \in tx[c].wrote THEN "used" ELSE link[l]]

\* The new link and the job that mails it; then COMMIT.
MailLink(c) ==
  /\ At(c, {"startReset", "startVerify"}, "consumed")
  /\ \E l \in {k \in LinksOf(c) : link[k] = "none"} :
       link' = [Consumed(c) EXCEPT ![l] = "open"]
  /\ Done(c)
  /\ UNCHANGED <<refresh, family, expired, password, verified>>

VerifyEmail(c) ==
  /\ At(c, {"verify"}, "consumed")
  /\ link' = Consumed(c)
  /\ verified' = TRUE
  /\ Done(c)
  /\ UNCHANGED <<refresh, family, expired, password>>

\* A reset also revokes every refresh token of the user.
FindTokens(c) ==
  /\ At(c, {"reset"}, "consumed")
  /\ Snapshot(c, "revoking", Issued)
  /\ UNCHANGED <<refresh, family, link, expired, password, verified>>

ResetPassword(c) ==
  /\ At(c, {"reset"}, "revoking") /\ Free(c, tx[c].rows)
  /\ refresh' = Revoked(tx[c].rows)
  /\ link' = Consumed(c)
  /\ password' = [by |-> tx[c].on, current |-> TRUE]
  /\ Done(c)
  /\ UNCHANGED <<family, expired, verified>>

-----------------------------------------------------------------------------
Next ==
  \/ \E c \in Client :
       \/ GetUserByEmail(c) \/ ReplacePasswordHash(c) \/ CreateRefreshToken(c)
       \/ \E t \in RefreshToken : LockToken(c, t)
       \/ RotateRefreshToken(c) \/ RevokeFamily(c) \/ BeginRevocation(c) \/ Revoke(c)
       \/ StartPasswordReset(c) \/ StartEmailVerification(c)
       \/ \E l \in Link : LockLink(c, l)
       \/ UpdateUser(c) \/ FindLinks(c) \/ ConsumeLinks(c) \/ MailLink(c)
       \/ VerifyEmail(c) \/ FindTokens(c) \/ ResetPassword(c)
       \/ Abort(c)
  \/ \E t \in RefreshToken : RevokeRefreshToken(t)
  \/ \E r \in RefreshToken \cup Link : Expire(r)

Spec == Init /\ [][Next]_vars

-----------------------------------------------------------------------------
(* Properties.                                                             *)

\* However many requests present tokens at once, a session never has two
\* usable refresh tokens.
OneUsableToken ==
  \A s, t \in RefreshToken :
    refresh[s] = "usable" /\ refresh[t] = "usable" /\ family[s] = family[t] => s = t

\* "Replay-resistant refresh-token families" (README.md:16): a session is a
\* chain of tokens that, once ended, stays ended, whatever races with its end.
Holder(f) ==
  IF \E t \in RefreshToken : refresh[t] = "usable" /\ family[t] = f
    THEN CHOOSE t \in RefreshToken : refresh[t] = "usable" /\ family[t] = f
    ELSE NoRow
Families == INSTANCE SessionFamily WITH
  Token <- RefreshToken, NoToken <- NoRow,
  holder <- [f \in RefreshToken |-> Holder(f)],
  issued <- Issued
KeepsFamilies == Families!Spec

\* Only redeeming an open link changes the password, each link once: a login
\* that read the old hash before a reset never brings it back.
PasswordChangesByLink ==
  [][password'.by # password.by =>
       /\ password'.by \in Open(ResetLink)
       /\ link'[password'.by] = "used"]_vars

\* Only the latest verification link works, and none once the address is
\* verified, however the requests that send and redeem links overlap.
VerificationLinksSettle ==
  /\ \A k, l \in Open(VerificationLink) : k = l
  /\ verified => Open(VerificationLink) = {}

\* The parts of the inductive invariant behind the theorems of SessionsProofs.

\* A family's first token is issued before any other of the family.
FamiliesAreNamed ==
  \A t \in RefreshToken :
    IF t \in Issued THEN family[t] \in Issued ELSE family[t] = t

\* A row lock has one holder.
LocksExclude ==
  \A c, d \in Client : c # d => LockedBy(c) \cap LockedBy(d) = {}

\* The token a rotation found usable stays so while it is locked.
RotatesUsable(c) ==
  /\ tx[c].op \in {"rotate", "replay"} => tx[c].on \in Issued
  /\ tx[c].op = "rotate" => refresh[tx[c].on] = "usable"
RotatedTokensAreUsable == \A c \in Client : RotatesUsable(c)

\* The links a workflow has locked stay open until it commits, and the one it
\* redeems is among those it consumes.
RedeemsOpen(c) ==
  /\ tx[c].at = "consuming" => tx[c].rows \subseteq Link
  /\ tx[c].wrote \subseteq Open(Link)
  /\ tx[c].op = "reset" => tx[c].on \in ResetLink
  /\ tx[c].op = "verify" => tx[c].on \in VerificationLink
  /\ tx[c].op \in {"reset", "verify"} =>
       /\ tx[c].at \in {"locked", "user", "consuming", "consumed", "revoking"}
       /\ link[tx[c].on] = "open"
       /\ tx[c].at = "consuming" => tx[c].on \in tx[c].rows
       /\ tx[c].at \in {"consumed", "revoking"} => tx[c].on \in tx[c].wrote
RedeemedLinksAreOpen == \A c \in Client : RedeemsOpen(c)

SessionInv ==
  /\ SessionsTypeOK
  /\ FamiliesAreNamed
  /\ LocksExclude
  /\ RotatedTokensAreUsable
  /\ RedeemedLinksAreOpen
  /\ OneUsableToken
=============================================================================
