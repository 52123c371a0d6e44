-------------------------- MODULE LimitCalculation --------------------------
(***************************************************************************)
(* One distribution of a power block's current: the rows of the block are  *)
(* fetched, then its limits are computed.  The invariants say what         *)
(* calculateLimits promises about every block the engine may fetch.        *)
(***************************************************************************)
EXTENDS LimitAllocation

CONSTANTS
  MaxCurrents,  \* values of PowerBlocks.max_a
  Vehicles,     \* the states a vehicle of the block may be in
  MaxVehicles   \* bound: vehicles in one block

ASSUME BlockAssumption ==
  /\ MaxCurrents \subseteq Nat
  /\ Vehicles \subseteq [weight : Nat \ {0}, start : Nat, cons : Nat,
                         last : Nat \union {NoLimit}, grace : BOOLEAN]
  /\ MaxVehicles \in Nat \ {0}

VARIABLES
  maxA,    \* the block's maximum current
  evs,     \* its active sessions
  limits   \* the limits computed for them, <<>> before the calculation

vars == <<maxA, evs, limits>>

Init ==
  /\ maxA \in MaxCurrents
  /\ evs = <<>>
  /\ limits = <<>>

(* fetchPowerBlockState appends one row per active transaction, in whatever  *)
(* order the database returns them.                                          *)
FetchRow ==
  /\ limits = <<>> /\ Len(evs) < MaxVehicles
  /\ \E v \in Vehicles : evs' = Append(evs, v)
  /\ UNCHANGED <<maxA, limits>>

(* executeCalculation only gets here when the block has a session. *)
Calculate ==
  /\ limits = <<>> /\ evs # <<>>
  /\ limits' = CalculateLimits(maxA, evs)
  /\ UNCHANGED <<maxA, evs>>

Next == FetchRow \/ Calculate

Spec == Init /\ [][Next]_vars

-----------------------------------------------------------------------------
Calculated == limits # <<>>
Rows == DOMAIN evs
Admission == Admitted(maxA, evs)
TotalWeight == WeightOf(evs, Admitted(maxA, evs))

(* A row whose limit may come from the underload loop. *)
MayBeHeld(i) == Underloaded(maxA, evs[i], TotalWeight) /\ limits[i] = Needed(evs[i])

(* A session is suspended or gets a current a vehicle can charge with,       *)
(* never something between: no sequence of subtractions leaves an admitted   *)
(* row less than the 6 A minimum (engine.go 340-345, 393-406).               *)
SuspendedOrUsable ==
  Calculated =>
    LET admission == Admission
    IN  \A i \in Rows : IF i \in admission THEN limits[i] >= MinAmps ELSE limits[i] = 0

(* Suspension follows priority: whoever is suspended ranks behind whoever    *)
(* charges, by station weight and then by arrival, and nobody is suspended   *)
(* while the block could still serve one more minimum (engine.go 270-282).   *)
SuspensionFollowsPriority ==
  Calculated =>
    /\ \A i, j \in Rows : limits[i] = 0 /\ limits[j] > 0 => Precedes(evs, j, i)
    /\ (\E i \in Rows : limits[i] = 0) =>
          (Cardinality({j \in Rows : limits[j] > 0}) + 1) * MinAmps > maxA

(* The block's limit can only be passed by the 6 A minimum itself: when the  *)
(* limits add up to more than max_a, every row that is not held at its       *)
(* measured need has exactly the minimum, and the excess is smaller than     *)
(* those minimums together (engine.go 323-357 with 393-406).                 *)
ExcessOnlyFromMinimum ==
  Calculated /\ Total(limits) > maxA =>
    LET free == {i \in Admission : ~MayBeHeld(i)}
    IN  /\ \E i \in Admission : MayBeHeld(i)
        /\ \A i \in free : limits[i] = MinAmps
        /\ Total(limits) - maxA < MinAmps * Cardinality(Admission)

(* Everything is handed out: less than one ampere of max_a is left over      *)
(* whenever the block can serve a session at all, whatever was held back     *)
(* from underloaded vehicles (engine.go 330-332, 420-434).                   *)
NothingLeftOver ==
  Calculated /\ Capacity(maxA) > 0 => Total(limits) > maxA - Amp

(* Among the rows that are not held, a heavier station never gets less than  *)
(* a lighter one, and equal stations differ by at most one rounding ampere   *)
(* (engine.go 410-434).                                                      *)
HeavierGetsMore ==
  Calculated => \A i, j \in {r \in Admission : ~MayBeHeld(r)} :
    /\ evs[i].weight > evs[j].weight => limits[i] >= limits[j]
    /\ evs[i].weight = evs[j].weight => limits[i] - limits[j] <= Amp

(* The block's maximum is respected, as the project's report promises of     *)
(* every power group.                                                        *)
PowerGroupLimit == Calculated => Total(limits) <= maxA
=============================================================================
