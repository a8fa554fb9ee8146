----------------------------- MODULE PolicyGate -----------------------------
(* From evidence to a verdict and an execution target: the stages of       *)
(* Council.deliberate, with calibration.ts and policyGate.ts over the      *)
(* report of RiskEngine.                                                   *)
(* The source computes in doubles; here every quantity is an exact ratio   *)
(* of integers, with its thresholds as in the source.                      *)
(* Abstracted: the signals are the two sums the source folds them into     *)
(* (freshness times strength, per direction).                              *)
EXTENDS RiskEngine

CONSTANTS
    Whole,          \* units of the weight 1
    CurrentBooks,   \* current weights, sequences of units
    TargetBooks,    \* target weights, valid or not
    Markets,        \* volatilities and correlations, valid or not
    Horizons,       \* horizons in months of 30 days
    Masses,         \* summed weights of the signals of one direction
    Payoffs,        \* payoff ratios, integers
    OpposedPayoff   \* bound on the payoff ratio in OpposedNeverMoves

(* The parameters of DEFAULT_CALIBRATION and DEFAULT_POLICY. *)
PseudoCount == 2
Percent     == 100
ConfidenceFloor   == 55
ConflictThreshold == 35
KellyPart         == 4      \* quarter Kelly
MaxHHI            == 40
MaxSingleWeight   == 55
MinConfidence     == 55
MaxTurnover       == 60

(* A treasury holds no negative part of anything; the volatilities are     *)
(* those of its sleeves, and assertSquare (math.ts) has the matrix as large. *)
ASSUME GateAssumption ==
    /\ Whole \in Nat \ {0}
    /\ CurrentBooks \subseteq Seq(Nat)
    /\ TargetBooks \subseteq Seq(Int)
    /\ \A book \in CurrentBooks, m \in Markets :
           /\ m.vols \in [DOMAIN book -> Int]
           /\ m.corr \in [DOMAIN book -> [DOMAIN book -> Int]]
    /\ Horizons \subseteq Nat
    /\ Masses \subseteq Nat
    /\ Payoffs \subseteq Nat \ {0}
    /\ OpposedPayoff \in 0 .. 3

VARIABLES
    current, target,    \* the weights of the evidence and of the proposal
    market,             \* the volatilities and correlations of the evidence
    months,             \* horizonDays of the proposal
    agree, oppose,      \* the summed weights of the signals
    payoff,             \* payoffRatio of the proposal
    stage,              \* how far the deliberation is
    risk,               \* the result of assessRisk
    calibration,        \* the result of calibrate
    gate                \* the result of applyPolicyGate

inputs == <<current, target, market, months, agree, oppose, payoff>>
vars == <<inputs, stage, risk, calibration, gate>>

Least(m, n) == IF m < n THEN m ELSE n

(* Euclid: of n with each m. *)
DivisorOf[n \in Nat] == [m \in Nat |-> IF n = 0 THEN m ELSE DivisorOf[m % n][n]]
GCD(m, n) == DivisorOf[n][m]

(* Ratios of a natural number to a positive one, in lowest terms. *)
Ratio(n, d) == [num |-> n \div GCD(n, d), den |-> d \div GCD(n, d)]
Below(p, q) == p.num * q.den < q.num * p.den
One  == Ratio(1, 1)
Zero == Ratio(0, 1)

NoReport == [shares |-> [parts |-> << >>, of |-> 0]]

Init ==
    /\ current \in CurrentBooks
    /\ target \in TargetBooks
    /\ market \in Markets
    /\ months \in Horizons
    /\ agree \in Masses
    /\ oppose \in Masses
    /\ payoff \in Payoffs
    /\ stage = "evidence"
    /\ risk = NoReport
    /\ calibration = [abstain |-> TRUE, confidence |-> Zero, size |-> Zero]
    /\ gate = [verdict |-> "none", fraction |-> Zero]

(***************************************************************************)
(* gather and assessRisk                                                   *)
(***************************************************************************)
(* Faulty variant: the weights of the target are not added up.             *)
ValidEntriesOnly ==
    /\ DOMAIN target = DOMAIN current
    /\ ValidMarket(market)
    /\ months > 0

(* The oracle: there are sleeves, and every proposed one is among them.    *)
KnownSleeves == current # << >> /\ DOMAIN target \subseteq DOMAIN current

ValidInputs ==
    /\ KnownSleeves
    /\ ValidTarget(current, target, Whole)
    /\ ValidMarket(market)
    /\ months > 0

Assess ==
    /\ stage = "evidence"
    /\ ValidInputs
    /\ stage' = "assessed"
    /\ risk' = AssessRisk(current, target, Whole, market, months)
    /\ UNCHANGED <<inputs, calibration, gate>>

(* A RangeError: the review ends without a deliberation.                   *)
Reject ==
    /\ stage = "evidence"
    /\ ~ValidInputs
    /\ stage' = "rejected"
    /\ UNCHANGED <<inputs, risk, calibration, gate>>

(***************************************************************************)
(* calibrate                                                               *)
(***************************************************************************)
Mass == agree + oppose

(* mass * agreement, which is 0 without evidence.                          *)
Confidence == Ratio(Abs(agree - oppose), Mass + PseudoCount)

Conflicted == Mass > 0 /\ Percent * Least(agree, oppose) >= ConflictThreshold * Mass

(* Faulty variant: the weight of the majority counts, whatever its side.   *)
MajorityProbability ==
    Ratio(Mass + Abs(agree - oppose) + PseudoCount, 2 * (Mass + PseudoCount))

(* The vote, shrunk to 1/2 by the pseudo-count.                            *)
Probability == Ratio(2 * agree + PseudoCount, 2 * (Mass + PseudoCount))

(* (p (b + 1) - 1) / b, clipped at 0, times the Kelly fraction; it is      *)
(* below maxSize = 1 by itself.                                            *)
RecommendedSize ==
    LET excess == Probability.num * (payoff + 1) - Probability.den
    IN  Ratio(IF excess > 0 THEN excess ELSE 0, KellyPart * Probability.den * payoff)

Abstains ==
    \/ Below(Confidence, Ratio(ConfidenceFloor, Percent))
    \/ Conflicted

Calibrate ==
    /\ stage = "assessed"
    /\ stage' = "calibrated"
    /\ calibration' = [abstain    |-> Abstains,
                       confidence |-> Confidence,
                       size       |-> IF Abstains THEN Zero ELSE RecommendedSize]
    /\ UNCHANGED <<inputs, risk, gate>>

(***************************************************************************)
(* applyPolicyGate                                                         *)
(***************************************************************************)
(* Faulty variant: the concentration of the target is not looked at.       *)
DrawdownOnly == risk.drawdown

HardBreach ==
    \/ risk.drawdown
    \/ Percent * risk.most > MaxSingleWeight * Whole
    \/ Percent * risk.squares > MaxHHI * risk.total * risk.total

(* Faulty variant: the turnover cap replaces the Kelly budget.             *)
CappedFraction(size) ==
    IF Percent * risk.turnover > MaxTurnover * Whole
    THEN Ratio(MaxTurnover * Whole, Percent * risk.turnover)
    ELSE One

(* The whole of a move of size 0; else what the Kelly budget allows of the *)
(* move, or what the turnover cap allows if that is less.                  *)
ExecutedFraction(size) ==
    LET kelly  == Ratio(2 * Whole * size.num, risk.turnover * size.den)
        scale  == Ratio(MaxTurnover * Whole, Percent * risk.turnover)
        budget == IF risk.turnover > 0 /\ Below(kelly, One) THEN kelly ELSE One
    IN  IF Percent * risk.turnover > MaxTurnover * Whole /\ Below(scale, budget)
        THEN scale
        ELSE budget

ApplyPolicyGate(c) ==
    LET fraction == ExecutedFraction(c.size)
    IN  IF c.abstain \/ Below(c.confidence, Ratio(MinConfidence, Percent))
        THEN [verdict |-> "ABSTAIN_UPHELD", fraction |-> Zero]
        ELSE IF HardBreach THEN [verdict |-> "ESCALATE", fraction |-> Zero]
        ELSE IF Below(fraction, One) THEN [verdict |-> "TRIM", fraction |-> fraction]
        ELSE [verdict |-> "APPROVE", fraction |-> One]

Review ==
    /\ stage = "calibrated"
    /\ stage' = "reviewed"
    /\ gate' = ApplyPolicyGate(calibration)
    /\ UNCHANGED <<inputs, risk, calibration>>

Next == Assess \/ Reject \/ Calibrate \/ Review

Spec == Init /\ [][Next]_vars

(***************************************************************************)
(* What buildExecutionTarget makes of the gate's fraction: the executed    *)
(* book, in units of Whole * gate.fraction.den, when there is one.         *)
(***************************************************************************)
Moves == stage = "reviewed" /\ gate.fraction.num > 0

ExecutedBook == ExecutionTarget(current, target, gate.fraction.num, gate.fraction.den)

(***************************************************************************)
(* Properties.                                                             *)
(***************************************************************************)
Verdicts == {"APPROVE", "TRIM", "ESCALATE", "ABSTAIN_UPHELD"}
Turnover == TurnoverOf(current, target)

IsRatioToOne(p) == p.num \in Nat /\ p.den \in Nat \ {0} /\ p.num <= p.den

(* The type of the results: sizes and fractions lie between 0 and 1, and   *)
(* "Shares sum to 1" (riskEngine.ts:54), with and without risk.            *)
TypeOK ==
    /\ SumOf(risk.shares.parts) = risk.shares.of
    /\ calibration.abstain \in BOOLEAN
    /\ IsRatioToOne(calibration.confidence)
    /\ IsRatioToOne(calibration.size)
    /\ stage = "reviewed" => gate.verdict \in Verdicts
    /\ IsRatioToOne(gate.fraction)

(* "keeps committed risk within the Kelly budget", and "the turnover cap   *)
(* then trims oversized steps" (policyGate.ts:84-86): the executed part of *)
(* a move respects both limits at once, whichever is the tighter.          *)
WithinLimits ==
    Moves =>
        /\ gate.fraction.num * Turnover * calibration.size.den
               <= 2 * Whole * gate.fraction.den * calibration.size.num
        /\ gate.fraction.num * Percent * Turnover <= gate.fraction.den * MaxTurnover * Whole

OverCap(w, whole)  == \E i \in DOMAIN w : Percent * w[i] > MaxSingleWeight * whole
TooConcentrated(w) == Percent * Squares(w) > MaxHHI * SumOf(w) * SumOf(w)

Move == [i \in DOMAIN current |-> target[i] - current[i]]
MoveIsCoherent == QuadraticForm(Move, Covariance(market)) >= 0

(* The gate looks at the book of the whole move, and a part of the move is *)
(* executed: still, no executed book is over the single-sleeve cap, the    *)
(* concentration limit or the drawdown limit unless the current book       *)
(* already is.  For the drawdown this needs a matrix that gives the move   *)
(* itself no negative variance, which is more than math.ts:64-75 asks.     *)
NoNewBreach ==
    Moves =>
        /\ OverCap(ExecutedBook, Whole * gate.fraction.den) => OverCap(current, Whole)
        /\ TooConcentrated(ExecutedBook) => TooConcentrated(current)
        /\ MoveIsCoherent /\ DrawdownBreach(ExecutedBook, Whole * gate.fraction.den, market, months)
               => DrawdownBreach(current, Whole, market, months)

(* The confidence of calibration has no direction: unanimous opposition    *)
(* passes every floor.  It is the Kelly size that then keeps the book      *)
(* where it is, for payoff ratios up to OpposedPayoff.                     *)
OpposedNeverMoves ==
    Moves /\ oppose > agree /\ payoff <= OpposedPayoff => Turnover = 0

(* What the contracts accept: an escalated or abstained deliberation       *)
(* carries no fraction, so its record is not reverted (DecisionLog's       *)
(* ValidFraction) and it has no target to submit; and a target that is     *)
(* submitted shares out the whole as the engine checks it, with no short   *)
(* position, if the current book does.                                     *)
FitsLog ==
    /\ gate.verdict \in {"ESCALATE", "ABSTAIN_UPHELD"} => ~Moves
    /\ Moves /\ ValidTarget(current, current, Whole) =>
           /\ Within(SumOf(ExecutedBook), Whole * gate.fraction.den)
           /\ \A i \in DOMAIN current : ExecutedBook[i] >= 0
=============================================================================
