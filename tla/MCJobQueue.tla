----------------------------- MODULE MCJobQueue -----------------------------
(* Instances of JobQueue for TLC. *)
EXTENDS JobQueue, TLC

CONSTANTS mail, sweep, sweepAgain, erase, w1, w2, kMail, kSweep, kErase

\* Two attempts are enough for a retry and for a last attempt.
TwoAttempts == [j \in Job |-> 2]

\* The second sweep row competes for the key of the first.
Keys == [j \in Job |->
  CASE j = mail -> kMail [] j = erase -> kErase [] OTHER -> kSweep]

WorkersAlike == Permutations(Worker)
=============================================================================
