---------------------------- MODULE BpsAllocation ----------------------------
(* How a deliberation becomes contract arguments: the execution target of  *)
(* the council (orchestrator/src/agents/council.ts) and its conversion to  *)
(* basis points (orchestrator/src/chain/casperClient.ts).                  *)
(* A weight is a number of units of a fixed point scale; sleeves are       *)
(* positions of a sequence, in the sorted order the client gives them.     *)
EXTENDS Integers, Sequences, FiniteSets, Functions

SumOf(s) == FoldFunction(+, 0, s)

(* Math.round(fraction * 10_000) for a fraction of share / grain.          *)
RoundedShare(share, grain, total) == (2 * share * total + grain) \div (2 * grain)

(* Faulty variant: the whole target is added, not the difference.          *)
OvershootTarget(current, target, share, grain) ==
    [i \in DOMAIN current |-> grain * current[i] + share * target[i]]

(* current + fraction * (target - current), a sleeve at a time, with the   *)
(* unit divided by grain to keep it whole.                                 *)
ExecutionTarget(current, target, share, grain) ==
    [i \in DOMAIN current |-> grain * current[i] + share * (target[i] - current[i])]

Floors(raw, unit) == [i \in DOMAIN raw |-> raw[i] \div unit]

(* The sort by decreasing fractional part, which keeps the order of equal  *)
(* ones.                                                                   *)
Precedes(raw, unit, i, j) ==
    \/ raw[i] % unit > raw[j] % unit
    \/ raw[i] % unit = raw[j] % unit /\ i < j

Rank(raw, unit, i) == Cardinality({j \in DOMAIN raw : Precedes(raw, unit, j, i)})

(* Faulty variant: the remainder is not handed out.                        *)
FlooredAllocation(raw, total, unit) == Floors(raw, unit)

(* Faulty variant: the remainder goes to the first sleeves.                *)
FirstComeAllocation(raw, total, unit) ==
    LET floored   == Floors(raw, unit)
        remainder == total - SumOf(floored)
    IN  [i \in DOMAIN raw |-> floored[i] + (IF i <= remainder THEN 1 ELSE 0)]

(* Faulty variant: the whole remainder goes to the largest fraction.       *)
WinnerTakesAllAllocation(raw, total, unit) ==
    LET floored   == Floors(raw, unit)
        remainder == total - SumOf(floored)
    IN  [i \in DOMAIN raw |->
            floored[i] + (IF Rank(raw, unit, i) = 0 THEN remainder ELSE 0)]

(* Each weight is rounded down to a basis point, and what is missing from  *)
(* the total is handed out one basis point at a time, largest fractional   *)
(* part first; when nothing is missing, nothing is taken back.             *)
ToBpsAllocation(raw, total, unit) ==
    LET floored   == Floors(raw, unit)
        remainder == total - SumOf(floored)
    IN  [i \in DOMAIN raw |->
            floored[i] + (IF Rank(raw, unit, i) < remainder THEN 1 ELSE 0)]
=============================================================================
