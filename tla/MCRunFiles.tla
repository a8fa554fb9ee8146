----------------------------- MODULE MCRunFiles -----------------------------
(* Two runs, of one scenario so that they may share an id, and a page with *)
(* up to two requests under way.                                           *)
EXTENDS RunFiles

CONSTANTS first, second, approve

MCScenarioOf == [r \in R |-> approve]
=============================================================================
