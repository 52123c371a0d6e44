------------------------ MODULE LimitCalculation_proofs ------------------------
(***************************************************************************)
(* Every distribution keeps its promises: the invariants of                *)
(* LimitCalculation for every max_a, every state of the vehicles and any   *)
(* number of them.                                                         *)
(***************************************************************************)
EXTENDS LimitCalculation, LimitAllocation_proofs

(* The rows are vehicles, and limits that were calculated are the ones     *)
(* that the algorithm computes for them.                                   *)
CalculationInv ==
  /\ maxA \in Nat
  /\ evs \in Seq(Vehicle)
  /\ Calculated => evs # <<>> /\ limits = CalculateLimits(maxA, evs)

(* The invariant holds before the rows are fetched.                        *)
LEMMA InitCalculation == Init => CalculationInv
<1> SUFFICES ASSUME Init PROVE CalculationInv
  OBVIOUS
<1>1. maxA \in Nat /\ evs = <<>> /\ limits = <<>>
  BY BlockAssumption DEF Init
<1> QED
  BY <1>1 DEF CalculationInv, Calculated

(* Fetching a row and calculating keep it.                                 *)
LEMMA NextCalculation == CalculationInv /\ [Next]_vars => CalculationInv'
<1> SUFFICES ASSUME CalculationInv, [Next]_vars PROVE CalculationInv'
  OBVIOUS
<1>1. CASE FetchRow
  <2>1. PICK v \in Vehicles : evs' = Append(evs, v)
    BY <1>1 DEF FetchRow
  <2>2. v \in Vehicle
    BY BlockAssumption DEF Vehicle
  <2>3. evs' \in Seq(Vehicle)
    BY <2>1, <2>2 DEF CalculationInv
  <2>4. maxA' = maxA /\ limits' = <<>>
    BY <1>1 DEF FetchRow
  <2> QED
    BY <2>3, <2>4 DEF CalculationInv, Calculated
<1>2. CASE Calculate
  <2>1. maxA' = maxA /\ evs' = evs /\ evs # <<>> /\ limits' = CalculateLimits(maxA, evs)
    BY <1>2 DEF Calculate
  <2> QED
    BY <2>1 DEF CalculationInv, Calculated
<1>3. CASE UNCHANGED vars
  BY <1>3 DEF vars, CalculationInv, Calculated
<1> QED
  BY <1>1, <1>2, <1>3 DEF Next

(* Whatever was calculated has the outcome of a distribution.              *)
LEMMA CalculatedLimits ==
  CalculationInv /\ Calculated => IsBlock(maxA, evs) /\ Outcome(maxA, evs, limits)
<1> SUFFICES ASSUME CalculationInv, Calculated
             PROVE  IsBlock(maxA, evs) /\ Outcome(maxA, evs, limits)
  OBVIOUS
<1>1. IsBlock(maxA, evs) /\ limits = CalculateLimits(maxA, evs)
  BY DEF CalculationInv, IsBlock
<1> QED
  BY <1>1, CalculatedOutcome

(* The held rows of the invariants are those of the outcome.               *)
LEMMA HeldRows == \A i : MayBeHeld(i) <=> HeldAt(maxA, evs, limits, i)
BY DEF MayBeHeld, HeldAt, TotalWeight

(* A session is suspended or gets at least the 6 A minimum, whatever the   *)
(* loops subtracted before its turn.                                       *)
THEOREM SuspendedOrUsableAlways == Spec => []SuspendedOrUsable
<1>1. CalculationInv => SuspendedOrUsable
  BY CalculatedLimits DEF SuspendedOrUsable, Outcome, Rows, Admission
<1> QED
  BY <1>1, InitCalculation, NextCalculation, PTL DEF Spec

(* Who is suspended ranks behind whoever charges, and the block could not  *)
(* serve one more minimum.                                                 *)
THEOREM SuspensionFollowsPriorityAlways == Spec => []SuspensionFollowsPriority
<1>1. ASSUME CalculationInv PROVE SuspensionFollowsPriority
  <2> SUFFICES ASSUME Calculated
               PROVE  /\ \A i, j \in Rows : limits[i] = 0 /\ limits[j] > 0 => Precedes(evs, j, i)
                      /\ (\E i \in Rows : limits[i] = 0) =>
                            (Cardinality({j \in Rows : limits[j] > 0}) + 1) * MinAmps > maxA
    BY DEF SuspensionFollowsPriority
  <2>1. PICK A, K : A = Admitted(maxA, evs) /\ K = DOMAIN evs
    OBVIOUS
  <2>2. IsBlock(maxA, evs) /\ limits \in [K -> Int]
        /\ \A i \in K : IF i \in A THEN limits[i] >= 600 ELSE limits[i] = 0
    BY <1>1, <2>1, CalculatedLimits DEF Outcome, MinAmps, Amp
  <2>3. /\ A \subseteq K /\ IsFiniteSet(A) /\ Cardinality(A) \in Nat
        /\ A # K => Sorted(maxA, evs) /\ maxA < 600 * (Cardinality(A) + 1)
    BY <2>1, <2>2, AdmittedRows DEF MinAmps, Amp
  <2>4. \A i \in K : (limits[i] = 0 <=> i \notin A) /\ (limits[i] > 0 <=> i \in A)
    BY <2>2
  <2>5. ASSUME NEW i \in K, NEW j \in K, limits[i] = 0, limits[j] > 0
        PROVE  Precedes(evs, j, i)
    <3>1. i \notin A /\ j \in A /\ Sorted(maxA, evs)
      BY <2>3, <2>4, <2>5
    <3>2. A = {k \in K : Rank(evs, K, k) < Capacity(maxA)}
      BY <2>1, <3>1 DEF Admitted
    <3>3. K \in SUBSET DOMAIN evs /\ i \in K /\ j \in K
      BY <2>1
    <3>4. Rank(evs, K, i) \in Nat /\ Rank(evs, K, j) \in Nat
      BY <2>2, <3>3, RankType
    <3>5. Capacity(maxA) \in Int
      <4>1. maxA \in Nat
        BY <2>2 DEF IsBlock
      <4> QED
        BY <4>1 DEF Capacity, MinAmps, Amp
    <3>6. Rank(evs, K, j) < Rank(evs, K, i)
      BY <2>5, <3>1, <3>2, <3>4, <3>5
    <3> QED
      BY <2>2, <3>3, <3>6, RankOrder
  <2>6. ASSUME NEW i \in K, limits[i] = 0
        PROVE  (Cardinality({j \in K : limits[j] > 0}) + 1) * MinAmps > maxA
    <3>1. {j \in K : limits[j] > 0} = A
      BY <2>3, <2>4
    <3>2. maxA < 600 * (Cardinality(A) + 1) /\ maxA \in Nat
      BY <2>2, <2>3, <2>4, <2>6 DEF IsBlock
    <3>3. (Cardinality(A) + 1) * 600 > maxA
      BY <2>3, <3>2
    <3> QED
      BY <3>1, <3>3 DEF MinAmps, Amp
  <2> QED
    BY <2>1, <2>5, <2>6 DEF Rows
<1> QED
  BY <1>1, InitCalculation, NextCalculation, PTL DEF Spec

(* The limits pass max_a only by minimums of rows that are not held, when  *)
(* some row is held.                                                       *)
THEOREM ExcessOnlyFromMinimumAlways == Spec => []ExcessOnlyFromMinimum
<1>1. ASSUME CalculationInv PROVE ExcessOnlyFromMinimum
  <2> SUFFICES ASSUME Calculated, Total(limits) > maxA
               PROVE  /\ \E i \in Admission : MayBeHeld(i)
                      /\ \A i \in Admission : ~MayBeHeld(i) => limits[i] = MinAmps
                      /\ Total(limits) - maxA < MinAmps * Cardinality(Admission)
    BY DEF ExcessOnlyFromMinimum
  <2>1. Outcome(maxA, evs, limits)
    BY <1>1, CalculatedLimits
  <2> QED
    BY <2>1, HeldRows DEF Outcome, Admission
<1> QED
  BY <1>1, InitCalculation, NextCalculation, PTL DEF Spec

(* Less than one ampere of max_a is left over in a block that can serve a  *)
(* session.                                                                *)
THEOREM NothingLeftOverAlways == Spec => []NothingLeftOver
<1>1. CalculationInv => NothingLeftOver
  BY CalculatedLimits DEF NothingLeftOver, Outcome
<1> QED
  BY <1>1, InitCalculation, NextCalculation, PTL DEF Spec

(* Among rows that are not held, weight decides, up to one rounding ampere  *)
(* between equal weights.                                                  *)
THEOREM HeavierGetsMoreAlways == Spec => []HeavierGetsMore
<1>1. ASSUME CalculationInv PROVE HeavierGetsMore
  <2> SUFFICES ASSUME Calculated, NEW i \in Admission, NEW j \in Admission,
                      ~MayBeHeld(i), ~MayBeHeld(j)
               PROVE  /\ evs[i].weight > evs[j].weight => limits[i] >= limits[j]
                      /\ evs[i].weight = evs[j].weight => limits[i] - limits[j] <= Amp
    BY DEF HeavierGetsMore
  <2>1. Outcome(maxA, evs, limits)
    BY <1>1, CalculatedLimits
  <2> QED
    BY <2>1, HeldRows DEF Outcome, Admission
<1> QED
  BY <1>1, InitCalculation, NextCalculation, PTL DEF Spec
=============================================================================
