----------------------------- MODULE MCAllowance -----------------------------
(* Instances of Allowance for TLC. *)
EXTENDS Allowance, TLC

CONSTANTS ann, ben, u1, u2, u3

Alike == Permutations(User) \cup Permutations(Upload)
=============================================================================
