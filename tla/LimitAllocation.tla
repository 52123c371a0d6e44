--------------------------- MODULE LimitAllocation ---------------------------
(***************************************************************************)
(* The load-balancing algorithm of the smart-charging service              *)
(* (engine.go, calculateLimits and distributeWeightedRest) as operators.   *)
(*                                                                         *)
(* Currents are integers in hundredths of an ampere, the resolution of     *)
(* PowerBlocks.max_a, NUMERIC(8,2).  Quotients are exact here; the code    *)
(* computes them in float64, which agrees except when a fractional max_a   *)
(* puts a quotient within one rounding error of an integer.                *)
(*                                                                         *)
(* evs is the sequence of electric vehicles of a block in the order of the *)
(* database rows.  Each is a record                                        *)
(*   weight : priority of its station, at least 1                          *)
(*   start  : instant the engine first saw the session                     *)
(*   cons   : last measured current                                        *)
(*   last   : last limit the engine applied, or NoLimit                    *)
(*   grace  : TRUE while the session is inside its grace period            *)
(***************************************************************************)
EXTENDS Integers, Sequences, FiniteSets

Amp == 100
MinAmps == 6 * Amp
NoLimit == -1

Floor(x) == (x \div Amp) * Amp
Floor10(x) == (x \div (Amp \div 10)) * (Amp \div 10)
Round(x) == Floor(x + Amp \div 2)

(* Whole amperes of the part of `current` that falls to `weight`. *)
Share(current, weight, total) == Floor((current * weight) \div total)

(* The comparison of both sort.SliceStable calls; the row order breaks the   *)
(* remaining ties because the sort is stable.                                *)
Precedes(evs, i, j) ==
  \/ evs[i].weight > evs[j].weight
  \/ /\ evs[i].weight = evs[j].weight
     /\ \/ evs[i].start < evs[j].start
        \/ evs[i].start = evs[j].start /\ i < j

(* Mutant: equal weights keep the order of the rows. *)
MutantRank(evs, rows, i) ==
  Cardinality({j \in rows : \/ evs[j].weight > evs[i].weight
                            \/ evs[j].weight = evs[i].weight /\ j < i})

(* The index of row i once `rows` are sorted. *)
Rank(evs, rows, i) == Cardinality({j \in rows : Precedes(evs, j, i)})

(* The sum of a sequence, as the loops over the rows add it up.              *)
Total(f) ==
  LET upTo[n \in 0 .. Len(f)] == IF n = 0 THEN 0 ELSE upTo[n - 1] + f[n]
  IN  upTo[Len(f)]

WeightOf(evs, rows) ==
  Total([i \in DOMAIN evs |-> IF i \in rows THEN evs[i].weight ELSE 0])

Capacity(maxA) == maxA \div MinAmps

Sorted(maxA, evs) == Len(evs) > Capacity(maxA)

(* Rows that take part in the distribution: all of them, or the first ones   *)
(* of a block with more vehicles than it can serve, which is sorted.         *)
Admitted(maxA, evs) ==
  IF Sorted(maxA, evs)
  THEN {i \in DOMAIN evs : Rank(evs, DOMAIN evs, i) < Capacity(maxA)}
  ELSE DOMAIN evs

(* The row of a non-empty set that the loops visit first. *)
First(maxA, evs, rows) ==
  CHOOSE i \in rows : \A j \in rows \ {i} :
    IF Sorted(maxA, evs) THEN Precedes(evs, i, j) ELSE i < j

-----------------------------------------------------------------------------
(* A distribution in progress: the rows still open, the current left for     *)
(* them, and the limits decided so far.                                      *)

Underloaded(maxA, ev, total) ==
  LET base == Share(maxA, ev.weight, total)
      current == IF ev.last = NoLimit THEN base ELSE ev.last
  IN  /\ ~ev.grace
      /\ \/ ev.cons <= current - 2 * Amp
         \/ current < base

(* Mutant: without the minimum. *)
MutantNeeded(ev) == Round(ev.cons) + Amp

Needed(ev) ==
  LET need == Round(ev.cons) + Amp IN IF need < MinAmps THEN MinAmps ELSE need

(* Mutants: the rest is not reduced; the first open row is removed.          *)
MutantKeepsRest(d, i, limit) ==
  [open |-> d.open \ {i}, rest |-> d.rest, limit |-> [d.limit EXCEPT ![i] = limit]]

MutantWrongRow(d, i, limit) ==
  [open  |-> d.open \ {CHOOSE j \in d.open : \A k \in d.open : j <= k},
   rest  |-> d.rest - limit,
   limit |-> [d.limit EXCEPT ![i] = limit]]

Settle(d, i, limit) ==
  [open |-> d.open \ {i}, rest |-> d.rest - limit, limit |-> [d.limit EXCEPT ![i] = limit]]

(* One turn of the underload loop: the first open row whose need is below    *)
(* its share of the rest is held at that need.  A single open row is left    *)
(* to distributeWeightedRest, which overwrites what the loop gave it.        *)
Holdable(maxA, evs, total, d) ==
  {i \in d.open : /\ Underloaded(maxA, evs[i], total)
                  /\ Needed(evs[i]) < Share(d.rest, evs[i].weight, WeightOf(evs, d.open))}

HoldOne(maxA, evs, total, d) ==
  LET rows == Holdable(maxA, evs, total, d)
      i == First(maxA, evs, rows)
  IN  IF Cardinality(d.open) > 1 /\ rows # {} THEN Settle(d, i, Needed(evs[i])) ELSE d

HoldUnderloaded(maxA, evs, d0) ==
  LET total == WeightOf(evs, d0.open)
      turn[n \in 0 .. Cardinality(d0.open)] ==
        IF n = 0 THEN d0 ELSE HoldOne(maxA, evs, total, turn[n - 1])
  IN  turn[Cardinality(d0.open)]

(* One turn of the first loop of distributeWeightedRest: the first open row  *)
(* whose share is below the minimum gets the minimum.                        *)
BelowMin(evs, d) ==
  LET total == WeightOf(evs, d.open)
  IN  {i \in d.open : d.rest * evs[i].weight < MinAmps * total}

RaiseOne(maxA, evs, d) ==
  IF BelowMin(evs, d) # {} THEN Settle(d, First(maxA, evs, BelowMin(evs, d)), MinAmps) ELSE d

RaiseToMinimum(maxA, evs, d0) ==
  LET turn[n \in 0 .. Cardinality(d0.open)] ==
        IF n = 0 THEN d0 ELSE RaiseOne(maxA, evs, turn[n - 1])
  IN  turn[Cardinality(d0.open)]

(* Mutant: the amperes lost to rounding are not given back. *)
MutantNoBonus(evs, d) ==
  LET total == WeightOf(evs, d.open)
  IN  [i \in DOMAIN d.limit |->
         IF i \in d.open THEN Share(d.rest, evs[i].weight, total) ELSE d.limit[i]]

(* The weighted shares of the rows still open, in whole amperes, then the    *)
(* amperes lost to rounding, one each, to the rows of highest priority.      *)
ShareOut(evs, d) ==
  LET total == WeightOf(evs, d.open)
      share == [i \in DOMAIN d.limit |->
                  IF i \in d.open THEN Share(d.rest, evs[i].weight, total) ELSE 0]
      lost == d.rest - Total(share)
      bonus(i) == IF Rank(evs, d.open, i) < lost \div Amp THEN Amp ELSE 0
  IN  [i \in DOMAIN d.limit |->
         IF i \in d.open THEN share[i] + bonus(i) ELSE d.limit[i]]

DistributeWeightedRest(maxA, evs, d) == ShareOut(evs, RaiseToMinimum(maxA, evs, d))

CalculateLimits(maxA, evs) ==
  LET rows == Admitted(maxA, evs)
      zero == [i \in DOMAIN evs |-> 0]
      start == [open |-> rows, rest |-> maxA, limit |-> zero]
  IN  IF Cardinality(rows) > 1
      THEN DistributeWeightedRest(maxA, evs, HoldUnderloaded(maxA, evs, start))
      ELSE [i \in DOMAIN evs |-> IF i \in rows THEN Floor10(maxA) ELSE 0]
=============================================================================
