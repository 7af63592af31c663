----------------------------- MODULE MCCommunity -----------------------------
(* Instances of Community for TLC. *)
EXTENDS Community, TLC

CONSTANTS owner, u1, u2, r1, r2, a1, a2, v0, v1, v2

OneBlock == {<<u1, owner>>}

RequestsAlike == Permutations(Vote) \cup Permutations(Admin)

-----------------------------------------------------------------------------
(* Bounds.  Policies and votes meet in RequirePolicies only.  So policies   *)
(* are published beside one request, up to its rate limit, before anything  *)
(* else has happened, and votes overlap while no policy is published.       *)

NoPolicies == published = {} /\ \A a \in Admin : publication[a] = Idle

OneRequest ==
  /\ clock = 0 /\ public /\ blocks = {} /\ \A u \in User : account[u] = "active"
  /\ limits = [k \in User \X Windows |-> 0]
  /\ \A r, q \in Vote : vote[r] # Idle /\ vote[q] # Idle => r = q

\* One of the two voters changes its vote, the other repeats it.
OneChangesItsVote == \A r \in Vote : vote[r] # Idle /\ vote[r].user = u2 => vote[r].score = 5

Bounds == (NoPolicies \/ OneRequest) /\ OneChangesItsVote
=============================================================================
