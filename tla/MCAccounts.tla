----------------------------- MODULE MCAccounts -----------------------------
(* Instances of Accounts for TLC. *)
EXTENDS Accounts

CONSTANTS e1, u1

\* An export and a deletion have a retry and a last attempt, and a sweep that
\* fails is followed by the next one.
Tries == [j \in Job |-> IF j = Cleanup THEN 1 ELSE 2]
=============================================================================
