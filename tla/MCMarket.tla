------------------------------ MODULE MCMarket ------------------------------
(* A demo of two reviews and a single review, on one port and one key.     *)
EXTENDS Market

CONSTANTS demo, review

MCReviews == [p \in Procs |-> IF p = demo THEN 2 ELSE 1]
=============================================================================
