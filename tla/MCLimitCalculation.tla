------------------------- MODULE MCLimitCalculation -------------------------
EXTENDS LimitCalculation

(* Blocks that serve none, one, two and three sessions, with a fraction and  *)
(* with a remainder.                                                         *)
MCMaxCurrents == {500, 1150, 1200, 1850, 2200, 3220}

(* Two weights, two arrival times; an idle car, one that takes half and one  *)
(* that takes all; never limited, at the minimum, or above its fair share.   *)
MCVehicles ==
  {v \in [weight : {1, 3, 10}, start : {1, 2}, cons : {0, 740, 1600},
          last : {NoLimit, 600, 1500}, grace : BOOLEAN] :
     /\ v.last = NoLimit => v.grace
     /\ v.last = 600 => v.cons < 1600
     /\ v.grace => v.cons = 0}
=============================================================================
