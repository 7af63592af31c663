----------------------------- MODULE MCSessions -----------------------------
(* Instances of Sessions for TLC. *)
EXTENDS Sessions, TLC

CONSTANTS t1, t2, t3, r1, r2, v1, v2, c1, c2

Alike ==
  Permutations(RefreshToken) \cup Permutations(ResetLink)
    \cup Permutations(VerificationLink) \cup Permutations(Client)
=============================================================================
