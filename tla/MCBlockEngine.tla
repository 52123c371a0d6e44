--------------------------- MODULE MCBlockEngine ---------------------------
(***************************************************************************)
(* Sessions are numbered in the order of their arrival.                    *)
(***************************************************************************)
EXTENDS BlockEngine

Algorithm == INSTANCE LimitAllocation
Seqs == INSTANCE SequencesExt

(* The limits calculateLimits gives stations of equal weight whose vehicles  *)
(* take all they are given: admitted in the order of their arrival, they     *)
(* share the block evenly and the first ones get the amperes left over.      *)
MCAllocate ==
  [m \in MaxCurrents |-> [S \in SUBSET Sessions |->
     LET served == IF Cardinality(S) * 600 > m THEN m \div 600 ELSE Cardinality(S)
         each == ((m \div served) \div 100) * 100
         rank(s) == Cardinality({r \in S : r < s})
         limit(s) == IF served = 1 THEN (m \div 10) * 10
                     ELSE IF (rank(s) + 1) * 100 <= m - served * each THEN each + 100
                     ELSE each
     IN  [s \in Sessions |-> IF s \in S /\ rank(s) < served THEN limit(s) ELSE 0]]]

(* That is the algorithm of LimitAllocation on such a block. *)
ASSUME MCAllocateIsTheAlgorithm ==
  \A m \in MaxCurrents, S \in SUBSET Sessions :
    LET rows == Seqs!SetToSortSeq(S, LAMBDA r, s : r < s)
        evs == [i \in DOMAIN rows |-> [weight |-> 1, start |-> i, cons |-> 0,
                                       last |-> Algorithm!NoLimit, grace |-> TRUE]]
    IN  \A i \in DOMAIN rows :
          MCAllocate[m][S][rows[i]] = Algorithm!CalculateLimits(m, evs)[i]

(* Liveness is checked of two scenarios: two sessions of a block of 11 A that  *)
(* stays as it is, where only one of them can charge, and the second session   *)
(* alone while the block is resized.  Only webhooks that report a new session  *)
(* are sure to arrive.                                                         *)
Scenario ==
  /\ session'[1] # session[1] => maxA = 1100 /\ edits = 0
  /\ edits' # edits => session[1] = "none"
  /\ \A e \in events \ events' : e.kind = "started" => activeLoop' # activeLoop

MCFairSpec == Init /\ [][Next /\ Scenario]_vars /\ Fairness
=============================================================================
