----------------------------- MODULE MCAnalysis -----------------------------
(* Instances of Analysis for TLC. *)
EXTENDS Analysis, TLC

CONSTANTS clip, sweep, w1, w2, kClip, kSweep

\* Two attempts are enough for a retry and for a last attempt.
TwoAttempts == [j \in Job |-> 2]

Keys == [j \in Job |-> IF j = clip THEN kClip ELSE kSweep]

WorkersAlike == Permutations(Worker)
=============================================================================
