----------------------------- MODULE RiskEngine -----------------------------
(* The risk report of a proposed book: risk/riskEngine.ts over the matrix  *)
(* helpers of risk/math.ts.  Weights are units of a whole, volatilities    *)
(* parts of VolGrain and correlations parts of CorrGrain, so that every    *)
(* figure is an integer or a ratio of integers.                            *)
(* Abstracted: the normal quantile and the root of the drawdown bound,     *)
(* which is only ever compared with its limit.                             *)
EXTENDS BpsAllocation

VolGrain  == 4
CorrGrain == 2

Abs(n) == IF n < 0 THEN -n ELSE n
AtLeastZero(n) == IF n < 0 THEN 0 ELSE n

(* Not more than a millionth away, and only a whole of a million units can *)
(* tell that from an exact sum.                                            *)
Within(sum, whole) == Abs(sum - whole) <= whole \div 1000000

(* targetVector: one weight per sleeve, none negative, and their sum is 1, *)
(* to a tolerance.                                                         *)
ValidTarget(current, target, whole) ==
    /\ DOMAIN target = DOMAIN current
    /\ \A i \in DOMAIN target : target[i] >= 0
    /\ Within(SumOf(target), whole)

(* What is asked of a market: each entry by itself, not the matrix.  It    *)
(* need not be symmetric, nor positive semidefinite.                       *)
ValidMarket(market) ==
    /\ \A i \in DOMAIN market.vols : market.vols[i] >= 0
    /\ \A i, j \in DOMAIN market.vols : market.corr[i][j] \in -CorrGrain .. CorrGrain
    /\ \A i \in DOMAIN market.vols : market.corr[i][i] = CorrGrain

Covariance(market) ==
    [i \in DOMAIN market.vols |-> [j \in DOMAIN market.vols |->
        market.corr[i][j] * market.vols[i] * market.vols[j]]]

MatVec(matrix, w) ==
    [i \in DOMAIN w |-> SumOf([j \in DOMAIN w |-> matrix[i][j] * w[j]])]

QuadraticForm(w, matrix) ==
    SumOf([i \in DOMAIN w |-> w[i] * MatVec(matrix, w)[i]])

(* In units of whole^2 * VolGrain^2 * CorrGrain; negative when the matrix  *)
(* is not coherent, which counts as none.                                  *)
Variance(w, market) == AtLeastZero(QuadraticForm(w, Covariance(market)))

Funded(w) == {i \in DOMAIN w : w[i] > 0}

(* Faulty variant: without risk every sleeve has a share, funded or not.   *)
RiskSharesOfAll(w, market) ==
    IF Variance(w, market) = 0
    THEN [parts |-> [i \in DOMAIN w |-> 1], of |-> Cardinality(Funded(w))]
    ELSE [parts |-> [i \in DOMAIN w |-> w[i] * MatVec(Covariance(market), w)[i]],
          of    |-> Variance(w, market)]

(* Marginal contributions, or equal shares of the funded sleeves without   *)
(* risk.                                                                   *)
RiskShares(w, market) ==
    IF Variance(w, market) = 0
    THEN [parts |-> [i \in DOMAIN w |-> IF i \in Funded(w) THEN 1 ELSE 0],
          of    |-> Cardinality(Funded(w))]
    ELSE [parts |-> [i \in DOMAIN w |-> w[i] * MatVec(Covariance(market), w)[i]],
          of    |-> Variance(w, market)]

(* hhi: over the square of the sum of absolute weights.                    *)
Squares(w)  == SumOf([i \in DOMAIN w |-> w[i] * w[i]])
AbsTotal(w) == SumOf([i \in DOMAIN w |-> Abs(w[i])])

Largest(w) == CHOOSE n \in {w[i] : i \in DOMAIN w} : \A i \in DOMAIN w : w[i] <= n

TurnoverOf(current, target) ==
    SumOf([i \in DOMAIN target |-> Abs(target[i] - current[i])])

(* z * vol * sqrt(days / 365) > 1/4 at 99 % and months of 30 days: the     *)
(* squared factor 0.4448 is taken as 4/9, which decides as the source does *)
(* for books in tenths.  9 / 64 of the square of a whole is the variance   *)
(* at the limit, and 2 is 64 over the grains of a variance.                *)
DrawdownBreach(w, whole, market, months) ==
    2 * months * Variance(w, market) >= 9 * whole * whole

(* assessRisk; its input checks are ValidTarget and ValidMarket.           *)
AssessRisk(current, target, whole, market, months) ==
    [shares   |-> RiskShares(target, market),
     squares  |-> Squares(target),
     total    |-> AbsTotal(target),
     most     |-> Largest(target),
     turnover |-> TurnoverOf(current, target),
     drawdown |-> DrawdownBreach(target, whole, market, months)]
=============================================================================
