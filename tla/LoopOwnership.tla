---------------------------- MODULE LoopOwnership ----------------------------
(***************************************************************************)
(* What the smart-charging service promises about the regulation loops of  *)
(* a power block: at any time at most one loop owns the block, a loop owns *)
(* it once and from its birth, and it does not end while it owns it.       *)
(* A loop that lost the block may go on for a while, then ends.            *)
(***************************************************************************)
CONSTANTS Loops, NoLoop

VARIABLES
  owner,  \* the loop that owns the block, or NoLoop
  alive   \* the loops that have not ended

vars == <<owner, alive>>

Init == owner = NoLoop /\ alive = {}

Take(l) == l \notin alive /\ owner' = l /\ alive' = alive \union {l}

Release == owner # NoLoop /\ owner' = NoLoop /\ UNCHANGED alive

End(l) == l \in alive \ {owner} /\ alive' = alive \ {l} /\ UNCHANGED owner

(* The service stops and starts again with no loop. *)
Wipe == owner' = NoLoop /\ alive' = {}

Next == (\E l \in Loops : Take(l) \/ End(l)) \/ Release \/ Wipe

Spec == Init /\ [][Next]_vars
=============================================================================
