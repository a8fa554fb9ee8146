--------------------------- MODULE ExecutionTarget ---------------------------
(* From the gate's execution fraction to the arguments of the two contract *)
(* calls: the council scales the proposed move (buildExecutionTarget),     *)
(* then the chain client rounds the fraction for record_decision and the   *)
(* scaled weights for reallocate.  The source computes in doubles: each    *)
(* scaled weight may be off by an error far below a basis point, which is  *)
(* the nondeterministic choice of Noise.                                   *)
EXTENDS BpsAllocation

CONSTANTS
    TotalBps,       \* the whole in basis points
    Fine,           \* units of a weight per basis point
    Grain,          \* execution fractions are multiples of 1 / Grain
    Sleeves,        \* number of sleeves
    CurrentSums,    \* what the current weights of the evidence may sum to
    Noise           \* errors of a scaled weight, in units of 1 / Grain

Whole == TotalBps * Fine
Unit  == Fine * Grain       \* one basis point of a scaled weight

Weights(sums) == {w \in [1 .. Sleeves -> 0 .. Whole] : SumOf(w) \in sums}

ASSUME TargetAssumption ==
    /\ TotalBps \in Nat \ {0}
    /\ Fine \in Nat \ {0}
    /\ Grain \in Nat \ {0}
    /\ Sleeves \in Nat \ {0}

(* The scale is fine enough for doubles: an error is at most one unit, a   *)
(* basis point is more than one step of a weight, and the errors of all    *)
(* sleeves, with what is kept of a current book that misses the whole by   *)
(* less than a basis point, stay below a basis point.                      *)
ASSUME NoiseAssumption ==
    /\ Noise \subseteq -1 .. 1
    /\ Fine > 1
    /\ Sleeves < Fine + Grain - 1

VARIABLES
    current,    \* the weights of the evidence packet
    target,     \* the weights of the proposal
    share,      \* the execution fraction, in 1 / Grain
    raw,        \* the execution target, << >> before it is built
    fraction,   \* the argument of record_decision, in basis points
    weights     \* the argument of reallocate, << >> before it is computed

vars == <<current, target, share, raw, fraction, weights>>

(* A fraction of zero builds no target and sends no reallocation.          *)
Init ==
    /\ current \in Weights(CurrentSums)
    /\ target \in Weights({Whole})
    /\ share \in 1 .. Grain
    /\ raw = << >>
    /\ fraction = 0
    /\ weights = << >>

BuildExecutionTarget ==
    /\ raw = << >>
    /\ \E noise \in [1 .. Sleeves -> Noise] :
           LET exact == ExecutionTarget(current, target, share, Grain)
               sum   == [i \in 1 .. Sleeves |-> exact[i] + noise[i]]
           IN  /\ \A i \in 1 .. Sleeves : sum[i] >= 0
               /\ raw' = sum
    /\ UNCHANGED <<current, target, share, fraction, weights>>

Submit ==
    /\ raw # << >>
    /\ weights = << >>
    /\ fraction' = RoundedShare(share, Grain, TotalBps)
    /\ weights' = ToBpsAllocation(raw, TotalBps, Unit)
    /\ UNCHANGED <<current, target, share, raw>>

Next == BuildExecutionTarget \/ Submit

Spec == Init /\ [][Next]_vars

(***************************************************************************)
(* Properties.                                                             *)
(***************************************************************************)
Submitted == weights # << >>

(* The type of the conversion: what is submitted fits the arguments of the *)
(* contracts, a fraction and weights between 0 and the whole.              *)
TypeOK ==
    /\ current \in [1 .. Sleeves -> 0 .. Whole]
    /\ target \in [1 .. Sleeves -> 0 .. Whole]
    /\ share \in 1 .. Grain
    /\ raw = << >> \/ raw \in [1 .. Sleeves -> Nat]
    /\ fraction \in 0 .. TotalBps
    /\ weights = << >> \/ weights \in [1 .. Sleeves -> 0 .. TotalBps]

Abs(n) == IF n < 0 THEN -n ELSE n

(* "so the sum is exactly 10000 (the Treasury contract enforces this)"     *)
(* (casperClient.ts:67-68): it is, whatever the rounding errors of the     *)
(* doubles did, as long as the current weights, which nothing checks, sum  *)
(* to the whole to less than one basis point; then reallocate never        *)
(* reverts for its sum.                                                    *)
SumIsExact ==
    Submitted /\ Abs(SumOf(current) - Whole) < Fine => SumOf(weights) = TotalBps

(* The conversion never turns the order of two sleeves around: one that    *)
(* the council weighs visibly more never gets fewer basis points.          *)
OrderIsKept ==
    Submitted => \A i, j \in 1 .. Sleeves :
        raw[i] > raw[j] => weights[i] >= weights[j]

(* What an auditor of the chain can count on: the weights that reallocate  *)
(* is given and the execution fraction that record_decision is given were  *)
(* rounded apart, yet the move of each sleeve is the recorded fraction of  *)
(* the proposed one, to less than one and a half basis points (and the     *)
(* error of the doubles).                                                  *)
MoveMatchesRecord ==
    Submitted => \A i \in 1 .. Sleeves :
        LET proposed == target[i] - current[i]
            moved    == weights[i] * Fine - current[i]
            slack    == TotalBps * (Unit + 1)
        IN  2 * Abs(Grain * TotalBps * moved - Grain * fraction * proposed)
                < 2 * slack + Grain * Whole
=============================================================================
