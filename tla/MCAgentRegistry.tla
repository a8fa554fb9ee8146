--------------------------- MODULE MCAgentRegistry ---------------------------
(* AgentRegistry with the contract's own basis points.  5^8 times 10000    *)
(* does not fit TLC's integers, so DriftBounded needs MaxEvents <= 8.      *)
EXTENDS AgentRegistry
==============================================================================
