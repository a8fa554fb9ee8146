---------------------------- MODULE MCPolicyGate ----------------------------
(* Three sleeves in tenths.  The gate treats the sleeves alike, so current *)
(* books in decreasing order are enough.                                   *)
EXTENDS PolicyGate

Books == {b \in [1 .. 3 -> 0 .. Whole] : SumOf(b) = Whole}

MCCurrentBooks == {b \in Books : b[1] >= b[2] /\ b[2] >= b[3]}

(* With them: a sleeve without a weight, one that the evidence does not    *)
(* know, a short position, and less and more than the whole.               *)
MCTargetBooks ==
    Books \cup {<<5, 5>>, <<4, 2, 2, 2>>, <<6, 5, -1>>, <<3, 3, 3>>, <<4, 4, 3>>}

Matrix(a, b, c) == << <<2, a, b>>, <<a, 2, c>>, <<b, c, 2>> >>

(* Volatilities in quarters, correlations in halves: a quiet first sleeve, *)
(* which the current books hold most of; no risk at all; all sleeves       *)
(* alike; a matrix that cannot be one of correlations, in which a part of  *)
(* a move may be riskier than both its ends; and a correlation of 3/2.     *)
MCMarkets ==
    {[vols |-> <<0, 4, 2>>, corr |-> Matrix(0, 0, 1)],
     [vols |-> <<0, 0, 0>>, corr |-> Matrix(0, 0, 0)],
     [vols |-> <<2, 2, 2>>, corr |-> Matrix(2, 2, 2)],
     [vols |-> <<1, 4, 4>>, corr |-> Matrix(2, 2, -2)],
     [vols |-> <<1, 1, 1>>, corr |-> Matrix(3, 0, 0)]}
=============================================================================
