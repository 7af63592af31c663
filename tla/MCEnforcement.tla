---------------------------- MODULE MCEnforcement ----------------------------
(* Instances of Enforcement for TLC. *)
EXTENDS Enforcement, TLC

CONSTANTS n1, n2, alice, bob

Review(outcomes) == [op : {"review"}, what : outcomes, on : Notice]

AnyRequest == AllRequests
AnyVerdict == AllVerdicts
Copyright == Review({"actioned", "restored", "closed"})

\* A clip that passed is decided before the moderators are asked.
PassedClip == {[verification |-> "passed", moderation |-> "approved"]}

NoticesAlike == Permutations(Notice)
ModeratorsAlike == Permutations(Moderator)
Alike == NoticesAlike \cup ModeratorsAlike
=============================================================================
