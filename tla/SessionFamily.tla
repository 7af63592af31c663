--------------------------- MODULE SessionFamily ---------------------------
(***************************************************************************)
(* What "replay-resistant refresh-token families" (README.md:16) promise:  *)
(* a session is a chain of refresh tokens of which only the last can be    *)
(* used, each rotation continues it with a token never used before, and a  *)
(* session that has ended never has a usable token again.                  *)
(*                                                                         *)
(* Sessions move independently, and one step may end several of them.      *)
(***************************************************************************)

CONSTANTS
  Token,     \* refresh tokens; a family is named by its first one
  NoToken

VARIABLES
  holder,    \* family -> its usable token
  issued     \* tokens given out so far

Init ==
  /\ holder = [f \in Token |-> NoToken]
  /\ issued = {}

Stay(f) == holder'[f] = holder[f]

Open(f) == f \notin issued /\ holder[f] = NoToken /\ holder'[f] = f

Rotate(f) == holder[f] # NoToken /\ holder'[f] \in Token \ issued

End(f) == holder[f] # NoToken /\ holder'[f] = NoToken

Next ==
  /\ holder' \in [Token -> Token \cup {NoToken}]
  /\ issued \subseteq issued'
  /\ \A f \in Token :
       /\ Stay(f) \/ Open(f) \/ Rotate(f) \/ End(f)
       /\ holder'[f] # NoToken =>
            /\ holder'[f] \in issued'
            /\ \A g \in Token \ {f} : holder'[g] # holder'[f]

Spec == Init /\ [][Next]_<<holder, issued>>
=============================================================================
