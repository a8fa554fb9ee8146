-------------------------- MODULE MCExecutionTarget --------------------------
(* Three sleeves, every current and target book of a small whole, thirds   *)
(* as execution fractions, and doubles that err either way.                *)
EXTENDS ExecutionTarget

Off == {-1, 0, 1}

(* "Weights should sum to ~1" (orchestrator/src/risk/types.ts:15): here to *)
(* the whole, or to half a basis point or two basis points more or less.   *)
About == {Whole - 4, Whole - 1, Whole, Whole + 1, Whole + 4}
==============================================================================
