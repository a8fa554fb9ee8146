-------------------------- MODULE PolicyGateProofs --------------------------
(* Proofs about the risk report, calibration and the policy gate, for      *)
(* every number of sleeves, every book, market and horizon, every mass of  *)
(* signals and every payoff ratio.                                         *)
EXTENDS PolicyGate, AllocationProofs

(***************************************************************************)
(* Euclid's algorithm: DivisorOf is recursive, so a function with its       *)
(* equation has to be shown to exist.  The common divisors of two numbers  *)
(* are those of one, and that one is what the function gives.              *)
(***************************************************************************)
Divides(k, m) == \E q \in Nat : m = k * q
Common(m, n)  == {k \in Nat : Divides(k, m) /\ Divides(k, n)}

IsEuclid(g) == g = [n \in Nat |-> [m \in Nat |-> IF n = 0 THEN m ELSE g[m % n][n]]]

LEMMA GCDIsEuclid == DivisorOf = CHOOSE g : IsEuclid(g)
BY DEF DivisorOf, IsEuclid

LEMMA ProductOfThree ==
    ASSUME NEW a \in Int, NEW b \in Int, NEW c \in Int
    PROVE  (a * b) * c = a * (b * c)
OBVIOUS

LEMMA CommonStep ==
    ASSUME NEW m \in Nat, NEW n \in Nat \ {0}
    PROVE  m % n \in Nat /\ Common(m, n) = Common(n, m % n)
<1>1. PICK q \in Nat, r \in Nat : q = m \div n /\ r = m % n /\ m = n * q + r
  BY DivMod
<1>2. ASSUME NEW k \in Nat, Divides(k, m), Divides(k, n)
      PROVE  Divides(k, r)
  <2>1. PICK a \in Nat : m = k * a
    BY <1>2 DEF Divides
  <2>2. PICK b \in Nat : n = k * b
    BY <1>2 DEF Divides
  <2>3. PICK c \in Nat : c = b * q
    OBVIOUS
  <2>4. n * q = k * c
    BY <2>2, <2>3, ProductOfThree
  <2>5. r = k * (a - c)
    BY <1>1, <2>1, <2>4
  <2>6. k > 0
    BY <2>2
  <2>7. a - c \in Nat
    BY <2>5, <2>6
  <2> QED
    BY <2>5, <2>7 DEF Divides
<1>3. ASSUME NEW k \in Nat, Divides(k, n), Divides(k, r)
      PROVE  Divides(k, m)
  <2>1. PICK a \in Nat : r = k * a
    BY <1>3 DEF Divides
  <2>2. PICK b \in Nat : n = k * b
    BY <1>3 DEF Divides
  <2>3. PICK c \in Nat : c = b * q
    OBVIOUS
  <2>4. n * q = k * c
    BY <2>2, <2>3, ProductOfThree
  <2>5. m = k * (c + a) /\ c + a \in Nat
    BY <1>1, <2>1, <2>4
  <2> QED
    BY <2>5 DEF Divides
<1> QED
  BY <1>1, <1>2, <1>3 DEF Common

LEMMA SameDivisors ==
    ASSUME NEW m \in Nat, NEW d \in Nat, Common(d, 0) = Common(m, 0)
    PROVE  d = m
<1>1. \A k \in Nat : Divides(k, 0) /\ Divides(k, k)
  BY DEF Divides
<1>2. Divides(d, m) /\ Divides(m, d)
  BY <1>1 DEF Common
<1>3. PICK a \in Nat, b \in Nat : m = d * a /\ d = m * b
  BY <1>2 DEF Divides
<1>4. CASE d = 0
  BY <1>3, <1>4
<1>5. CASE d > 0
  <2>1. d = d * (a * b)
    BY <1>3
  <2>2. a * b = 1
    BY <1>5, <2>1
  <2>3. a = 1
    BY <2>2
  <2> QED
    BY <1>3, <2>3
<1> QED
  BY <1>4, <1>5

LEMMA EuclidExists == \E g : IsEuclid(g)
<1> DEFINE first(m, n) == CHOOSE d \in Nat : Common(d, 0) = Common(m, n)
<1>1. ASSUME NEW m \in Nat PROVE first(m, 0) = m
  BY <1>1, SameDivisors
<1>2. ASSUME NEW m \in Nat, NEW n \in Nat, n # 0 PROVE first(m, n) = first(n, m % n)
  BY <1>2, CommonStep
<1>3. \A m \in Nat, n \in Nat : n # 0 => m % n \in Nat
  BY CommonStep
<1> HIDE DEF first
<1>4. PICK h : h = [n \in Nat |-> [m \in Nat |-> first(m, n)]]
  OBVIOUS
<1>5. ASSUME NEW n \in Nat
      PROVE  h[n] = [m \in Nat |-> IF n = 0 THEN m ELSE h[m % n][n]]
  <2>1. h[n] = [m \in Nat |-> first(m, n)]
    BY <1>4
  <2>2. ASSUME NEW m \in Nat PROVE first(m, n) = IF n = 0 THEN m ELSE h[m % n][n]
    <3>1. CASE n = 0
      BY <1>1, <3>1
    <3>2. CASE n # 0
      BY <1>2, <1>3, <1>4, <3>2
    <3> QED
      BY <3>1, <3>2
  <2> QED
    BY <2>1, <2>2
<1>6. h = [n \in Nat |-> [m \in Nat |-> IF n = 0 THEN m ELSE h[m % n][n]]]
  BY <1>4, <1>5
<1> QED
  BY <1>6 DEF IsEuclid

LEMMA GCDStep ==
    ASSUME NEW m \in Nat, NEW n \in Nat
    PROVE  GCD(m, n) = IF n = 0 THEN m ELSE GCD(n, m % n)
<1>1. IsEuclid(DivisorOf)
  BY EuclidExists, GCDIsEuclid
<1>2. DivisorOf[n] = [k \in Nat |-> IF n = 0 THEN k ELSE DivisorOf[k % n][n]]
  BY <1>1 DEF IsEuclid
<1> QED
  BY <1>2 DEF GCD

(* By induction over the second number: a smallest one without the claim.  *)
LEMMA GCDIsCommon ==
    ASSUME NEW m \in Nat, NEW n \in Nat
    PROVE  GCD(m, n) \in Nat /\ Common(GCD(m, n), 0) = Common(m, n)
<1> DEFINE Holds(p, q) == GCD(p, q) \in Nat /\ Common(GCD(p, q), 0) = Common(p, q)
           Bad == {q \in Nat : \E p \in Nat : ~Holds(p, q)}
<1> SUFFICES ASSUME Bad # {} PROVE FALSE
  OBVIOUS
<1>1. PICK q \in Bad : \A r \in Bad : <<r, q>> \notin OpToRel(<, Nat)
  <2>1. Bad \subseteq Nat
    OBVIOUS
  <2> HIDE DEF Bad
  <2> QED
    BY <2>1, NatLessThanWellFounded, WFMin
<1>2. PICK p \in Nat : ~Holds(p, q)
  OBVIOUS
<1>3. CASE q = 0
  BY <1>2, <1>3, GCDStep
<1>4. CASE q # 0
  <2>1. p % q \in 0 .. (q - 1) /\ Common(p, q) = Common(q, p % q)
    BY <1>4, DivMod, CommonStep
  <2>2. <<p % q, q>> \in OpToRel(<, Nat)
    BY <2>1 DEF OpToRel
  <2>3. Holds(q, p % q)
    <3>1. PICK r \in Nat : r = p % q
      BY <2>1
    <3>2. r \notin Bad
      BY <1>1, <2>2, <3>1
    <3> HIDE DEF Holds
    <3> QED
      BY <3>1, <3>2
  <2>4. GCD(p, q) = GCD(q, p % q)
    BY <1>4, GCDStep
  <2> QED
    BY <1>2, <2>1, <2>3, <2>4
<1> QED
  BY <1>3, <1>4

LEMMA GCDDivides ==
    ASSUME NEW m \in Nat, NEW n \in Nat \ {0}
    PROVE  /\ GCD(m, n) \in Nat \ {0}
           /\ \E a \in Nat : m = GCD(m, n) * a
           /\ \E b \in Nat : n = GCD(m, n) * b
<1>1. PICK g \in Nat : g = GCD(m, n) /\ Common(g, 0) = Common(m, n)
  BY GCDIsCommon
<1>2. g \in Common(g, 0)
  BY DEF Common, Divides
<1>3. Divides(g, m) /\ Divides(g, n)
  BY <1>1, <1>2 DEF Common
<1>4. g # 0
  BY <1>3 DEF Divides
<1> QED
  BY <1>1, <1>3, <1>4 DEF Divides

(***************************************************************************)
(* Ratios in lowest terms have the value of what they are made from.       *)
(***************************************************************************)
IsRatio(p)   == p.num \in Nat /\ p.den \in Nat \ {0}
AtMost(p, q) == p.num * q.den <= q.num * p.den

LEMMA DivExact ==
    ASSUME NEW g \in Nat \ {0}, NEW a \in Nat
    PROVE  (g * a) \div g = a
OBVIOUS

LEMMA ProductAtMost ==
    ASSUME NEW g \in Nat \ {0}, NEW a \in Nat, NEW b \in Nat, g * a <= g * b
    PROVE  a <= b
OBVIOUS

LEMMA RatioIs ==
    ASSUME NEW n \in Nat, NEW d \in Nat \ {0}
    PROVE  /\ IsRatio(Ratio(n, d))
           /\ Ratio(n, d).num * d = n * Ratio(n, d).den
           /\ n <= d => Ratio(n, d).num <= Ratio(n, d).den
           /\ n = 0 => Ratio(n, d).num = 0
<1>1. PICK g \in Nat \ {0} : g = GCD(n, d)
  BY GCDDivides
<1>2. PICK a \in Nat : n = g * a
  BY <1>1, GCDDivides
<1>3. PICK b \in Nat : d = g * b
  BY <1>1, GCDDivides
<1>4. Ratio(n, d) = [num |-> a, den |-> b]
  <2>1. n \div g = a /\ d \div g = b
    BY <1>2, <1>3, DivExact
  <2> QED
    BY <1>1, <2>1 DEF Ratio
<1>5. b # 0
  BY <1>3
<1>6. a * d = n * b
  BY <1>2, <1>3, ProductOfThree
<1>7. n <= d => a <= b
  BY <1>2, <1>3, ProductAtMost
<1>8. n = 0 => a = 0
  BY <1>2
<1> QED
  BY <1>4, <1>5, <1>6, <1>7, <1>8 DEF IsRatio

LEMMA OneAndZero ==
    /\ One.num = 1 /\ One.den = 1
    /\ Zero.num = 0 /\ Zero.den = 1
<1>1. PICK zero \in Nat, one \in Nat \ {0} : zero = 0 /\ one = 1
  OBVIOUS
<1>2. ASSUME NEW m \in Nat PROVE GCD(m, one) = 1
  <2>1. PICK g \in Nat \ {0} : g = GCD(m, one)
    BY GCDDivides
  <2>2. PICK b \in Nat : one = g * b
    BY <2>1, GCDDivides
  <2> QED
    BY <1>1, <2>1, <2>2
<1>3. GCD(zero, one) = 1 /\ GCD(one, one) = 1
  BY <1>2
<1>4. GCD(0, 1) = 1 /\ GCD(1, 1) = 1
  BY <1>1, <1>3
<1> QED
  BY <1>4 DEF One, Zero, Ratio

LEMMA NotBelow ==
    ASSUME NEW p, NEW q, IsRatio(p), IsRatio(q)
    PROVE  /\ Below(p, q) => AtMost(p, q)
           /\ ~Below(p, q) => AtMost(q, p)
<1>1. p.num * q.den \in Int /\ q.num * p.den \in Int
  BY DEF IsRatio
<1> QED
  BY <1>1 DEF Below, AtMost

(* A common factor drops out of an inequality.                             *)
LEMMA Cancel ==
    ASSUME NEW g \in Nat \ {0}, NEW a \in Int, NEW b \in Int, g * a <= g * b
    PROVE  a <= b
OBVIOUS

LEMMA MoreTimes ==
    ASSUME NEW a \in Int, NEW b \in Int, NEW c \in Nat, a <= b
    PROVE  a * c <= b * c
OBVIOUS

LEMMA AtMostTransitive ==
    ASSUME NEW p, NEW q, NEW r, IsRatio(p), IsRatio(q), IsRatio(r),
           AtMost(p, q), AtMost(q, r)
    PROVE  AtMost(p, r)
<1>1. PICK a \in Nat, b \in Nat : a = p.num /\ b = p.den
  BY DEF IsRatio
<1>2. PICK c \in Nat, d \in Nat \ {0} : c = q.num /\ d = q.den
  BY DEF IsRatio
<1>3. PICK e \in Nat, f \in Nat : e = r.num /\ f = r.den
  BY DEF IsRatio
<1>4. a * d <= c * b /\ c * f <= e * d
  BY <1>1, <1>2, <1>3 DEF AtMost
<1>5. (a * d) * f <= (c * b) * f /\ (c * f) * b <= (e * d) * b
  BY <1>4, MoreTimes
<1>6. (a * d) * f = d * (a * f) /\ (e * d) * b = d * (e * b) /\ (c * b) * f = (c * f) * b
  OBVIOUS
<1>7. d * (a * f) <= d * (e * b)
  BY <1>5, <1>6
<1>8. a * f <= e * b
  BY <1>7, Cancel
<1> QED
  BY <1>1, <1>3, <1>8 DEF AtMost

(* A limit n / d on a ratio, without the division.                         *)
LEMMA LimitHolds ==
    ASSUME NEW p, NEW q, IsRatio(p), IsRatio(q), AtMost(p, q),
           NEW n \in Nat, NEW d \in Nat, q.num * d = n * q.den
    PROVE  p.num * d <= n * p.den
<1>1. PICK a \in Nat, b \in Nat : a = p.num /\ b = p.den
  BY DEF IsRatio
<1>2. PICK c \in Nat, e \in Nat \ {0} : c = q.num /\ e = q.den
  BY DEF IsRatio
<1>3. a * e <= c * b /\ c * d = n * e
  BY <1>1, <1>2 DEF AtMost
<1>4. (a * e) * d <= (c * b) * d
  BY <1>3, MoreTimes
<1>5. (a * e) * d = e * (a * d) /\ (c * b) * d = (c * d) * b
  OBVIOUS
<1>6. (c * d) * b = e * (n * b)
  BY <1>3
<1>7. e * (a * d) <= e * (n * b)
  BY <1>4, <1>5, <1>6
<1>8. a * d <= n * b
  BY <1>7, Cancel
<1> QED
  BY <1>1, <1>8

(***************************************************************************)
(* The inductive invariant: what the stages have computed so far, from the *)
(* inputs, which no stage changes.                                         *)
(***************************************************************************)
Inputs ==
    /\ current \in CurrentBooks
    /\ target \in TargetBooks
    /\ market \in Markets
    /\ months \in Horizons
    /\ agree \in Masses
    /\ oppose \in Masses
    /\ payoff \in Payoffs

NoCalibration == [abstain |-> TRUE, confidence |-> Zero, size |-> Zero]
NoGate        == [verdict |-> "none", fraction |-> Zero]

CalibrationResult ==
    [abstain    |-> Abstains,
     confidence |-> Confidence,
     size       |-> IF Abstains THEN Zero ELSE RecommendedSize]

Assessed == ValidInputs /\ risk = AssessRisk(current, target, Whole, market, months)

Stages ==
    \/ /\ stage \in {"evidence", "rejected"}
       /\ risk = NoReport /\ calibration = NoCalibration /\ gate = NoGate
    \/ stage = "assessed" /\ Assessed /\ calibration = NoCalibration /\ gate = NoGate
    \/ stage = "calibrated" /\ Assessed /\ calibration = CalibrationResult /\ gate = NoGate
    \/ /\ stage = "reviewed" /\ Assessed /\ calibration = CalibrationResult
       /\ gate = ApplyPolicyGate(calibration)

GateInv == Inputs /\ Stages

LEMMA GateInit == Init => GateInv
BY DEF Init, GateInv, Inputs, Stages, NoCalibration, NoGate

LEMMA SameInputs ==
    ASSUME UNCHANGED inputs
    PROVE  /\ Inputs' = Inputs
           /\ ValidInputs' = ValidInputs
           /\ CalibrationResult' = CalibrationResult
<1>1. UNCHANGED <<current, target, market, months, agree, oppose, payoff>>
  BY DEF inputs
<1>2. Inputs' = Inputs
  BY <1>1 DEF Inputs
<1>3. ValidInputs' = ValidInputs
  BY <1>1 DEF ValidInputs, KnownSleeves
<1>4. UNCHANGED <<Mass, Confidence, Probability, Conflicted>>
  BY <1>1 DEF Mass, Confidence, Probability, Conflicted
<1>5. UNCHANGED <<Abstains, RecommendedSize>>
  BY <1>1, <1>4 DEF Abstains, RecommendedSize
<1>6. CalibrationResult' = CalibrationResult
  BY <1>4, <1>5 DEF CalibrationResult
<1> QED
  BY <1>2, <1>3, <1>6

LEMMA SameAssessment ==
    ASSUME UNCHANGED <<inputs, risk>>
    PROVE  Assessed' = Assessed
<1>1. UNCHANGED <<current, target, market, months, risk>>
  BY DEF inputs
<1> QED
  BY <1>1, SameInputs DEF Assessed

LEMMA SameGate ==
    ASSUME UNCHANGED risk, NEW c
    PROVE  ApplyPolicyGate(c)' = ApplyPolicyGate(c)
BY DEF ApplyPolicyGate, ExecutedFraction, HardBreach

LEMMA GateNext == GateInv /\ [Next]_vars => GateInv'
<1> SUFFICES ASSUME Inputs, Stages, [Next]_vars PROVE Inputs' /\ Stages'
  BY DEF GateInv
<1>1. CASE Assess
  <2>1. Inputs' /\ Assessed'
    <3>1. ValidInputs /\ UNCHANGED inputs
      BY <1>1 DEF Assess
    <3>2. risk' = AssessRisk(current', target', Whole, market', months')
      BY <1>1 DEF Assess, inputs
    <3> QED
      BY <3>1, <3>2, SameInputs DEF Assessed
  <2>2. stage' = "assessed" /\ calibration' = NoCalibration /\ gate' = NoGate
    BY <1>1 DEF Assess, Stages
  <2> QED
    BY <2>1, <2>2 DEF Stages, NoCalibration, NoGate
<1>2. CASE Reject
  <2>1. UNCHANGED <<inputs, risk, calibration, gate>> /\ stage = "evidence" /\ stage' = "rejected"
    BY <1>2 DEF Reject
  <2>2. risk = NoReport /\ calibration = NoCalibration /\ gate = NoGate
    BY <2>1 DEF Stages
  <2> QED
    BY <2>1, <2>2, SameInputs DEF Stages, NoCalibration, NoGate
<1>3. CASE Calibrate
  <2>1. UNCHANGED <<inputs, risk, gate>> /\ stage = "assessed" /\ stage' = "calibrated"
    BY <1>3 DEF Calibrate
  <2>2. Assessed /\ gate = NoGate
    BY <2>1 DEF Stages
  <2>3. calibration' = CalibrationResult
    BY <1>3 DEF Calibrate, CalibrationResult
  <2>4. Inputs' /\ Assessed' /\ calibration' = CalibrationResult' /\ gate' = NoGate
    BY <2>1, <2>2, <2>3, SameInputs, SameAssessment
  <2> QED
    BY <2>1, <2>4 DEF Stages, NoGate
<1>4. CASE Review
  <2>1. UNCHANGED <<inputs, risk, calibration>> /\ stage = "calibrated" /\ stage' = "reviewed"
    BY <1>4 DEF Review
  <2>2. Assessed /\ calibration = CalibrationResult
    BY <2>1 DEF Stages
  <2>3. gate' = ApplyPolicyGate(calibration)'
    <3>1. PICK c : c = calibration
      OBVIOUS
    <3>2. gate' = ApplyPolicyGate(c)
      BY <1>4, <3>1 DEF Review
    <3>3. ApplyPolicyGate(c)' = ApplyPolicyGate(c) /\ calibration' = c
      BY <2>1, <3>1, SameGate
    <3> QED
      BY <3>2, <3>3 DEF ApplyPolicyGate, ExecutedFraction, HardBreach
  <2>4. Inputs' /\ Assessed' /\ calibration' = CalibrationResult'
    BY <2>1, <2>2, SameInputs, SameAssessment
  <2> QED
    BY <2>1, <2>3, <2>4 DEF Stages
<1>5. CASE UNCHANGED vars
  <2>1. UNCHANGED <<inputs, risk, calibration, gate, stage>>
    BY <1>5 DEF vars
  <2>2. PICK c : c = calibration
    OBVIOUS
  <2>3. ApplyPolicyGate(c)' = ApplyPolicyGate(c)
    BY <2>1, SameGate
  <2>4. Inputs' /\ Assessed' = Assessed /\ CalibrationResult' = CalibrationResult
    BY <2>1, SameInputs, SameAssessment
  <2>5. stage = "reviewed" => gate' = ApplyPolicyGate(calibration)'
    <3> SUFFICES ASSUME stage = "reviewed" PROVE gate' = ApplyPolicyGate(calibration)'
      OBVIOUS
    <3>1. gate = ApplyPolicyGate(c)
      BY <2>2 DEF Stages
    <3> QED
      BY <2>1, <2>2, <2>3, <3>1 DEF ApplyPolicyGate, ExecutedFraction, HardBreach
  <2> QED
    BY <2>1, <2>4, <2>5 DEF Stages, NoCalibration, NoGate
<1> QED
  BY <1>1, <1>2, <1>3, <1>4, <1>5 DEF Next

LEMMA GateInvariant == Spec => []GateInv
BY GateInit, GateNext, PTL DEF Spec

(***************************************************************************)
(* Calibration: confidence and size lie between 0 and 1.                   *)
(***************************************************************************)
LEMMA SignalFacts ==
    ASSUME Inputs
    PROVE  /\ agree \in Nat /\ oppose \in Nat /\ payoff \in Nat \ {0} /\ months \in Nat
           /\ Mass \in Nat /\ Mass + PseudoCount \in Nat \ {0}
           /\ Mass = agree + oppose
           /\ Abs(agree - oppose) \in Nat /\ Abs(agree - oppose) <= Mass
<1>1. agree \in Nat /\ oppose \in Nat /\ payoff \in Nat \ {0} /\ months \in Nat
  BY GateAssumption DEF Inputs
<1> QED
  BY <1>1 DEF Mass, PseudoCount, Abs

LEMMA RatioToOne ==
    ASSUME NEW n \in Nat, NEW d \in Nat \ {0}, n <= d
    PROVE  IsRatioToOne(Ratio(n, d)) /\ IsRatio(Ratio(n, d))
BY RatioIs DEF IsRatioToOne, IsRatio

LEMMA ZeroIsRatio == IsRatioToOne(Zero) /\ IsRatio(Zero) /\ IsRatioToOne(One) /\ IsRatio(One)
BY OneAndZero DEF IsRatioToOne, IsRatio

LEMMA ConfidenceType ==
    ASSUME Inputs
    PROVE  IsRatioToOne(Confidence) /\ IsRatio(Confidence)
<1>1. PICK n \in Nat, d \in Nat \ {0} :
          n = Abs(agree - oppose) /\ d = Mass + PseudoCount /\ n <= d
  BY SignalFacts DEF PseudoCount
<1> QED
  BY <1>1, RatioToOne DEF Confidence

LEMMA ProbabilityType ==
    ASSUME Inputs
    PROVE  /\ IsRatioToOne(Probability) /\ IsRatio(Probability)
           /\ Probability.num * (2 * (Mass + PseudoCount))
                  = (2 * agree + PseudoCount) * Probability.den
<1>1. PICK n \in Nat, d \in Nat \ {0} :
          n = 2 * agree + PseudoCount /\ d = 2 * (Mass + PseudoCount) /\ n <= d
  BY SignalFacts DEF PseudoCount
<1>2. Probability = Ratio(n, d)
  BY <1>1 DEF Probability
<1> QED
  BY <1>1, <1>2, RatioToOne, RatioIs

LEMMA SizeType ==
    ASSUME Inputs
    PROVE  IsRatioToOne(RecommendedSize) /\ IsRatio(RecommendedSize)
<1>1. PICK p \in Nat, q \in Nat \ {0} :
          p = Probability.num /\ q = Probability.den /\ p <= q
  BY ProbabilityType DEF IsRatioToOne
<1>2. PICK b \in Nat \ {0} : b = payoff
  BY SignalFacts
<1>3. p * (b + 1) <= q * (b + 1)
  BY <1>1, MoreTimes
<1>4. PICK x \in Nat, y \in Nat : x = p * (b + 1) /\ y = q * b
  OBVIOUS
<1>5. x - q <= y /\ y > 0 /\ q * (b + 1) = y + q
  BY <1>3, <1>4
<1>6. KellyPart * q * b \in Nat \ {0} /\ KellyPart * q * b = 4 * y
  BY <1>4, <1>5 DEF KellyPart
<1>7. (IF x - q > 0 THEN x - q ELSE 0) \in Nat /\ (IF x - q > 0 THEN x - q ELSE 0) <= 4 * y
  BY <1>5
<1>8. RecommendedSize = Ratio(IF x - q > 0 THEN x - q ELSE 0, KellyPart * q * b)
  BY <1>1, <1>2, <1>4 DEF RecommendedSize
<1>9. PICK n \in Nat, d \in Nat \ {0} :
          n = (IF x - q > 0 THEN x - q ELSE 0) /\ d = KellyPart * q * b /\ n <= d
  BY <1>6, <1>7
<1> QED
  BY <1>8, <1>9, RatioToOne

LEMMA CalibrationType ==
    ASSUME GateInv
    PROVE  /\ calibration.abstain \in BOOLEAN
           /\ IsRatioToOne(calibration.confidence) /\ IsRatio(calibration.confidence)
           /\ IsRatioToOne(calibration.size) /\ IsRatio(calibration.size)
<1>1. CASE calibration = NoCalibration
  BY <1>1, ZeroIsRatio DEF NoCalibration
<1>2. CASE calibration = CalibrationResult
  <2>1. calibration.abstain = Abstains /\ calibration.confidence = Confidence
    BY <1>2 DEF CalibrationResult
  <2>2. Abstains \in BOOLEAN
    BY DEF Abstains, Below, Conflicted
  <2>3. calibration.size = Zero \/ calibration.size = RecommendedSize
    BY <1>2 DEF CalibrationResult
  <2>4. Inputs
    BY DEF GateInv
  <2> QED
    BY <2>1, <2>2, <2>3, <2>4, ConfidenceType, SizeType, ZeroIsRatio
<1>3. calibration = NoCalibration \/ calibration = CalibrationResult
  BY DEF GateInv, Stages
<1> QED
  BY <1>1, <1>2, <1>3

(***************************************************************************)
(* What the checks of assessRisk leave: two books and a market over the    *)
(* same sleeves.                                                           *)
(***************************************************************************)
Over(D) ==
    /\ IsFiniteSet(D) /\ D # {}
    /\ DOMAIN current = D /\ current \in [D -> Nat]
    /\ DOMAIN target = D /\ target \in [D -> Nat]
    /\ SumOf(target) \in Nat \ {0} /\ Within(SumOf(target), Whole)
    /\ market.vols \in [D -> Nat]
    /\ market.corr \in [D -> [D -> Int]]

LEMMA SumNat ==
    ASSUME NEW D, IsFiniteSet(D), NEW f \in [D -> Nat]
    PROVE  SumOf(f) \in Nat
<1>1. SumOf(f) \in Int
  BY SumInt
<1>2. CASE D = {}
  BY <1>2, PartSumFacts
<1>3. CASE D # {}
  <2>1. PICK i \in D : TRUE
    BY <1>3
  <2>2. f[i] <= SumOf(f) /\ f[i] \in Nat
    BY SumCoversEach
  <2> QED
    BY <1>1, <2>2
<1> QED
  BY <1>2, <1>3

(* The tolerance without its rounding.                                     *)
LEMMA WithinMeans ==
    ASSUME NEW s \in Int, NEW w \in Nat
    PROVE  Within(s, w) <=> /\ 1000000 * (s - w) <= w
                           /\ 1000000 * (w - s) <= w
<1>1. PICK q \in Int : q = w \div 1000000
  OBVIOUS
<1>2. 1000000 * q <= w /\ w < 1000000 * q + 1000000
  BY <1>1
<1>3. Within(s, w) <=> (s - w <= q /\ w - s <= q)
  BY <1>1 DEF Within, Abs
<1> QED
  BY <1>2, <1>3

(* A mean of two sums within the tolerance is within it.                   *)
LEMMA MeanWithin ==
    ASSUME NEW a \in Nat, NEW b \in Nat, NEW s \in Int, NEW t \in Int, NEW w \in Nat,
           Within(s, w), Within(t, w)
    PROVE  Within(a * s + b * t, w * (a + b))
<1>1. PICK d \in Int : d = s - w
  OBVIOUS
<1>2. PICK e \in Int : e = t - w
  OBVIOUS
<1>3. /\ 1000000 * d <= w /\ -(1000000 * d) <= w
      /\ 1000000 * e <= w /\ -(1000000 * e) <= w
  BY <1>1, <1>2, WithinMeans
<1>4. /\ a * (1000000 * d) <= a * w /\ a * (-(1000000 * d)) <= a * w
      /\ b * (1000000 * e) <= b * w /\ b * (-(1000000 * e)) <= b * w
  <2>1. ASSUME NEW k \in Nat, NEW x \in Int, NEW y \in Int, x <= y
        PROVE  k * x <= k * y
    BY <2>1
  <2> QED
    BY <1>3, <2>1
<1>5. PICK n \in Int, m \in Int, v \in Int :
          n = a * d /\ m = b * e /\ v = w * (a + b)
  OBVIOUS
<1>6. v = a * w + b * w
  BY <1>5
<1>7. a * s + b * t = v + n + m
  <2>1. a * s = a * w + a * d
    BY <1>1
  <2>2. b * t = b * w + b * e
    BY <1>2
  <2> QED
    BY <1>5, <1>6, <2>1, <2>2
<1>8. 1000000 * (n + m) <= v /\ -(1000000 * (n + m)) <= v
  <2>1. a * (1000000 * d) = 1000000 * n /\ a * (-(1000000 * d)) = -(1000000 * n)
    BY <1>5
  <2>2. b * (1000000 * e) = 1000000 * m /\ b * (-(1000000 * e)) = -(1000000 * m)
    BY <1>5
  <2> QED
    BY <1>4, <1>6, <2>1, <2>2
<1>9. PICK u \in Int : u = a * s + b * t
  OBVIOUS
<1>10. v \in Nat
  BY <1>5
<1>11. Within(u, v)
  BY <1>7, <1>8, <1>9, <1>10, WithinMeans
<1> QED
  BY <1>5, <1>9, <1>11

LEMMA AssessedBooks ==
    ASSUME Inputs, ValidInputs
    PROVE  Over(DOMAIN current) /\ months \in Nat \ {0} /\ Whole \in Nat \ {0}
<1>1. PICK n \in Nat : current \in [1 .. n -> Nat]
  <2>1. current \in Seq(Nat)
    BY GateAssumption DEF Inputs
  <2> QED
    BY <2>1
<1>2. PICK k \in Nat : target \in [1 .. k -> Int]
  BY GateAssumption DEF Inputs
<1>3. DOMAIN current = 1 .. n /\ DOMAIN target = DOMAIN current
  BY <1>1 DEF ValidInputs, ValidTarget
<1>4. IsFiniteSet(DOMAIN current)
  BY <1>3, FS_Interval
<1>5. DOMAIN current # {}
  BY <1>1, <1>3 DEF ValidInputs, KnownSleeves
<1>6. target \in [DOMAIN current -> Nat] /\ Within(SumOf(target), Whole)
  <2>1. \A i \in DOMAIN target : target[i] \in Int /\ target[i] >= 0
    BY <1>2 DEF ValidInputs, ValidTarget
  <2>2. target = [i \in DOMAIN current |-> target[i]]
    BY <1>2, <1>3
  <2> QED
    BY <1>3, <2>1, <2>2 DEF ValidInputs, ValidTarget
<1>7. market.vols \in [DOMAIN current -> Int] /\ market.corr \in [DOMAIN current -> [DOMAIN current -> Int]]
  BY GateAssumption DEF Inputs
<1>8. market.vols \in [DOMAIN current -> Nat]
  BY <1>7 DEF ValidInputs, ValidMarket
<1>9. current \in [DOMAIN current -> Nat]
  BY <1>1, <1>3
<1>10. months \in Nat \ {0} /\ Whole \in Nat \ {0}
  BY SignalFacts, GateAssumption DEF ValidInputs
<1>11. SumOf(target) \in Nat \ {0}
  <2>1. PICK s \in Nat, w \in Nat \ {0} : s = SumOf(target) /\ w = Whole
    BY <1>4, <1>6, <1>10, SumNat
  <2>2. 1000000 * (w - s) <= w
    BY <1>6, <2>1, WithinMeans
  <2> QED
    BY <2>1, <2>2
<1> QED
  BY <1>3, <1>4, <1>5, <1>6, <1>7, <1>8, <1>9, <1>10, <1>11 DEF Over

LEMMA TurnoverType ==
    ASSUME NEW D, Over(D)
    PROVE  Turnover \in Nat
<1>1. PICK f : f = [i \in D |-> Abs(target[i] - current[i])]
  OBVIOUS
<1>2. f \in [D -> Nat]
  BY <1>1 DEF Over, Abs
<1>3. Turnover = SumOf(f)
  BY <1>1 DEF Over, Turnover, TurnoverOf
<1> QED
  BY <1>2, <1>3, SumNat DEF Over

(***************************************************************************)
(* The gate: the fraction it executes is a ratio up to 1, and up to each   *)
(* of the limits.                                                          *)
(***************************************************************************)
Kelly == Ratio(2 * Whole * calibration.size.num, Turnover * calibration.size.den)
Scale == Ratio(MaxTurnover * Whole, Percent * Turnover)

LEMMA LimitsAreRatios ==
    ASSUME GateInv, Whole \in Nat \ {0}, Turnover \in Nat \ {0}
    PROVE  /\ IsRatio(Kelly) /\ IsRatio(Scale)
           /\ Kelly.num * (Turnover * calibration.size.den)
                  = (2 * Whole * calibration.size.num) * Kelly.den
           /\ Scale.num * (Percent * Turnover) = (MaxTurnover * Whole) * Scale.den
<1>1. PICK a \in Nat, b \in Nat \ {0} : a = calibration.size.num /\ b = calibration.size.den
  BY CalibrationType DEF IsRatio
<1>2. PICK n \in Nat, d \in Nat \ {0} : n = 2 * Whole * a /\ d = Turnover * b
  OBVIOUS
<1>3. PICK m \in Nat, e \in Nat \ {0} : m = MaxTurnover * Whole /\ e = Percent * Turnover
  BY DEF MaxTurnover, Percent
<1>4. Kelly = Ratio(n, d) /\ Scale = Ratio(m, e)
  BY <1>1, <1>2, <1>3 DEF Kelly, Scale
<1> QED
  BY <1>1, <1>2, <1>3, <1>4, RatioIs

LEMMA ExecutedWithin ==
    ASSUME GateInv, Assessed, NEW f, f = ExecutedFraction(calibration.size)
    PROVE  /\ IsRatio(f) /\ AtMost(f, One)
           /\ Turnover > 0 => AtMost(f, Kelly)
           /\ Percent * Turnover > MaxTurnover * Whole => AtMost(f, Scale)
<1>1. Whole \in Nat \ {0} /\ Turnover \in Nat /\ risk.turnover = Turnover
  BY AssessedBooks, TurnoverType DEF GateInv, Assessed, AssessRisk, Turnover
<1> DEFINE capped == Percent * Turnover > MaxTurnover * Whole
<1>2. capped => Turnover > 0
  BY <1>1 DEF Percent, MaxTurnover
<1>3. Turnover > 0 => IsRatio(Kelly) /\ IsRatio(Scale)
  BY <1>1, LimitsAreRatios
<1>4. PICK budget : budget = IF Turnover > 0 /\ Below(Kelly, One) THEN Kelly ELSE One
  OBVIOUS
<1>5. f = IF capped /\ Below(Scale, budget) THEN Scale ELSE budget
  BY <1>1, <1>4 DEF ExecutedFraction, Kelly, Scale
<1>6. IsRatio(One) /\ IsRatio(budget)
  BY <1>3, <1>4, ZeroIsRatio
<1>7. ASSUME NEW p, IsRatio(p) PROVE AtMost(p, p)
  BY <1>7 DEF AtMost, IsRatio
<1>8. AtMost(budget, One)
  BY <1>3, <1>4, <1>6, <1>7, NotBelow
<1>9. Turnover > 0 => AtMost(budget, Kelly)
  BY <1>3, <1>4, <1>6, <1>7, NotBelow
<1> HIDE DEF capped
<1>10. CASE capped /\ Below(Scale, budget)
  <2>1. f = Scale /\ IsRatio(f) /\ Turnover > 0
    BY <1>2, <1>3, <1>5, <1>10
  <2>2. AtMost(f, budget) /\ AtMost(f, Scale)
    BY <1>6, <1>7, <1>10, <2>1, NotBelow
  <2> QED
    BY <1>3, <1>6, <1>8, <1>9, <2>1, <2>2, AtMostTransitive DEF capped
<1>11. CASE ~(capped /\ Below(Scale, budget))
  <2>1. f = budget
    BY <1>5, <1>11
  <2>2. capped => AtMost(f, Scale)
    BY <1>2, <1>3, <1>6, <1>11, <2>1, NotBelow
  <2> QED
    BY <1>6, <1>8, <1>9, <2>1, <2>2 DEF capped
<1> QED
  BY <1>10, <1>11

LEMMA GateIs ==
    ASSUME GateInv, stage = "reviewed"
    PROVE  /\ Assessed
           /\ gate.verdict \in Verdicts
           /\ IsRatioToOne(gate.fraction) /\ IsRatio(gate.fraction)
           /\ gate.verdict \in {"ESCALATE", "ABSTAIN_UPHELD"} => gate.fraction.num = 0
           /\ gate.fraction.num > 0 =>
                  /\ ~calibration.abstain /\ ~HardBreach
                  /\ Turnover > 0 => AtMost(gate.fraction, Kelly)
                  /\ Percent * Turnover > MaxTurnover * Whole => AtMost(gate.fraction, Scale)
<1>1. Assessed /\ gate = ApplyPolicyGate(calibration)
  BY DEF GateInv, Stages
<1>2. PICK f : f = ExecutedFraction(calibration.size)
  OBVIOUS
<1> DEFINE Passed == ~calibration.abstain /\ ~HardBreach
<1>3. /\ IsRatio(f) /\ AtMost(f, One)
      /\ Turnover > 0 => AtMost(f, Kelly)
      /\ Percent * Turnover > MaxTurnover * Whole => AtMost(f, Scale)
  BY <1>1, <1>2, ExecutedWithin
<1>4. Zero.num = 0 /\ IsRatioToOne(Zero) /\ IsRatio(Zero) /\ IsRatioToOne(One) /\ IsRatio(One)
  BY ZeroIsRatio, OneAndZero
<1>5. CASE gate.fraction = Zero /\ gate.verdict \in {"ESCALATE", "ABSTAIN_UPHELD"}
  BY <1>1, <1>4, <1>5 DEF Verdicts
<1>6. CASE gate = [verdict |-> "TRIM", fraction |-> f] /\ Passed
  <2>1. f.num <= f.den
    BY <1>3, OneAndZero DEF AtMost, IsRatio
  <2> QED
    BY <1>1, <1>3, <1>6, <2>1 DEF Verdicts, IsRatioToOne, IsRatio
<1>7. CASE gate = [verdict |-> "APPROVE", fraction |-> One] /\ Passed /\ ~Below(f, One)
  <2>1. AtMost(One, f)
    BY <1>3, <1>4, <1>7, NotBelow
  <2>2. Turnover \in Nat /\ Whole \in Nat \ {0}
    BY <1>1, AssessedBooks, TurnoverType DEF GateInv, Assessed
  <2>3. ASSUME Turnover > 0 PROVE AtMost(One, Kelly)
    BY <1>3, <1>4, <2>1, <2>2, <2>3, AtMostTransitive, LimitsAreRatios
  <2>4. ASSUME Percent * Turnover > MaxTurnover * Whole PROVE AtMost(One, Scale)
    <3>1. Turnover > 0
      BY <2>2, <2>4 DEF Percent, MaxTurnover
    <3> QED
      BY <1>3, <1>4, <2>1, <2>2, <2>4, <3>1, AtMostTransitive, LimitsAreRatios
  <2> QED
    BY <1>1, <1>4, <1>7, <2>3, <2>4 DEF Verdicts
<1>8. \/ gate.fraction = Zero /\ gate.verdict \in {"ESCALATE", "ABSTAIN_UPHELD"}
      \/ gate = [verdict |-> "TRIM", fraction |-> f] /\ Passed
      \/ gate = [verdict |-> "APPROVE", fraction |-> One] /\ Passed /\ ~Below(f, One)
  BY <1>1, <1>2 DEF ApplyPolicyGate
<1> QED
  BY <1>5, <1>6, <1>7, <1>8

(* An executed move keeps within the Kelly budget and the turnover cap at  *)
(* once (policyGate.ts).                                                   *)
THEOREM LimitsRespected == Spec => []WithinLimits
<1>1. GateInv => WithinLimits
  <2> SUFFICES ASSUME GateInv, Moves
               PROVE  /\ gate.fraction.num * Turnover * calibration.size.den
                             <= 2 * Whole * gate.fraction.den * calibration.size.num
                      /\ gate.fraction.num * Percent * Turnover
                             <= gate.fraction.den * MaxTurnover * Whole
    BY DEF WithinLimits
  <2>1. PICK p : p = gate.fraction
    OBVIOUS
  <2>2. /\ IsRatioToOne(p) /\ IsRatio(p)
        /\ Turnover > 0 => AtMost(p, Kelly)
        /\ Percent * Turnover > MaxTurnover * Whole => AtMost(p, Scale)
        /\ Assessed
    BY <2>1, GateIs DEF Moves
  <2>3. PICK a \in Nat, b \in Nat \ {0} : a = p.num /\ b = p.den /\ a <= b
    BY <2>2 DEF IsRatioToOne
  <2>4. PICK m \in Nat, n \in Nat \ {0} : m = calibration.size.num /\ n = calibration.size.den
    BY CalibrationType DEF IsRatio
  <2>5. PICK w \in Nat \ {0}, t \in Nat : w = Whole /\ t = Turnover
    BY <2>2, AssessedBooks, TurnoverType DEF GateInv, Assessed
  <2>6. a * (t * n) <= (2 * w * m) * b
    <3>1. CASE t = 0
      BY <3>1
    <3>2. CASE t > 0
      <4>1. IsRatio(Kelly) /\ Kelly.num * (t * n) = (2 * w * m) * Kelly.den
        BY <2>4, <2>5, <3>2, LimitsAreRatios
      <4>2. PICK d \in Nat, l \in Nat : d = t * n /\ l = 2 * w * m
        OBVIOUS
      <4>3. AtMost(p, Kelly)
        BY <2>2, <2>5, <3>2
      <4>4. p.num * d <= l * p.den
        BY <2>2, <4>1, <4>2, <4>3, LimitHolds
      <4> QED
        BY <2>3, <4>2, <4>4
    <3> QED
      BY <3>1, <3>2
  <2>7. a * (Percent * t) <= (MaxTurnover * w) * b
    <3>1. PICK d \in Nat, l \in Nat : d = Percent * t /\ l = MaxTurnover * w
      BY DEF Percent, MaxTurnover
    <3>2. CASE d <= l
      <4>1. d * a <= l * a /\ a * l <= b * l
        BY <2>3, <3>2, MoreTimes
      <4> QED
        BY <3>1, <4>1
    <3>3. CASE d > l
      <4>1. t > 0
        BY <3>1, <3>3 DEF Percent, MaxTurnover
      <4>2. IsRatio(Scale) /\ Scale.num * d = l * Scale.den
        BY <2>5, <3>1, <4>1, LimitsAreRatios
      <4>3. AtMost(p, Scale)
        BY <2>2, <2>5, <3>1, <3>3
      <4>4. p.num * d <= l * p.den
        BY <2>2, <4>2, <4>3, LimitHolds
      <4> QED
        BY <2>3, <3>1, <4>4
    <3> QED
      BY <3>2, <3>3
  <2>8. a * t * n <= 2 * w * b * m
    <3>1. a * t * n = a * (t * n) /\ 2 * w * b * m = (2 * w * m) * b
      OBVIOUS
    <3> QED
      BY <2>6, <3>1
  <2>9. a * Percent * t <= b * MaxTurnover * w
    BY <2>7 DEF Percent, MaxTurnover
  <2> QED
    BY <2>1, <2>3, <2>4, <2>5, <2>8, <2>9
<1> QED
  BY <1>1, GateInvariant, PTL

(***************************************************************************)
(* Opposed signals.                                                        *)
(***************************************************************************)
(* A verdict of at least the floor against the move leaves it a            *)
(* probability of at most a quarter.                                       *)
LEMMA OpposedQuarter ==
    ASSUME Inputs, oppose > agree, ~Abstains
    PROVE  4 * Probability.num <= Probability.den
<1>1. PICK a \in Nat, o \in Nat : a = agree /\ o = oppose /\ Mass = a + o /\ o > a
  BY SignalFacts
<1>2. PICK c : c = Ratio(o - a, a + o + 2)
  OBVIOUS
<1>3. c = Confidence
  <2>1. Abs(agree - oppose) = o - a
    BY <1>1 DEF Abs
  <2> QED
    BY <1>1, <1>2, <2>1 DEF Confidence, PseudoCount
<1>4. PICK n \in Nat, d \in Nat \ {0} : n = o - a /\ d = a + o + 2
  BY <1>1
<1>5. IsRatio(c) /\ c.num * d = n * c.den
  BY <1>2, <1>4, RatioIs
<1>6. PICK fifty \in Nat, hundred \in Nat \ {0} : fifty = ConfidenceFloor /\ hundred = Percent
  BY DEF ConfidenceFloor, Percent
<1>7. PICK r : r = Ratio(fifty, hundred)
  OBVIOUS
<1>8. IsRatio(r) /\ r.num * hundred = fifty * r.den
  BY <1>7, RatioIs
<1>9. AtMost(r, c)
  <2>1. ~Below(c, r)
    BY <1>3, <1>6, <1>7 DEF Abstains
  <2> QED
    BY <1>5, <1>8, <2>1, NotBelow
<1>10. r.num * d <= n * r.den
  BY <1>5, <1>8, <1>9, LimitHolds
<1>11. 55 * d <= 100 * n
  <2>1. PICK x \in Nat, y \in Nat \ {0} : x = r.num /\ y = r.den
    BY <1>8 DEF IsRatio
  <2>2. x * d <= n * y /\ x * 100 = 55 * y
    BY <1>6, <1>8, <1>10, <2>1 DEF ConfidenceFloor, Percent
  <2>3. (x * d) * 100 <= (n * y) * 100
    BY <2>2, MoreTimes
  <2>4. (x * d) * 100 = (x * 100) * d /\ (55 * y) * d = y * (55 * d) /\ (n * y) * 100 = y * (100 * n)
    OBVIOUS
  <2>5. y * (55 * d) <= y * (100 * n)
    BY <2>2, <2>3, <2>4
  <2> QED
    BY <2>5, Cancel
<1>12. 4 * (2 * a + 2) <= 2 * d
  BY <1>4, <1>11
<1>13. PICK p \in Nat, q \in Nat \ {0} : p = Probability.num /\ q = Probability.den
  BY ProbabilityType DEF IsRatio
<1>14. p * (2 * d) = (2 * a + 2) * q
  BY <1>1, <1>4, <1>13, ProbabilityType DEF PseudoCount
<1>15. (4 * (2 * a + 2)) * q <= (2 * d) * q
  BY <1>12, MoreTimes
<1>16. (2 * d) * (4 * p) <= (2 * d) * q
  <2>1. (2 * d) * (4 * p) = 4 * (p * (2 * d)) /\ (4 * (2 * a + 2)) * q = 4 * ((2 * a + 2) * q)
    OBVIOUS
  <2> QED
    BY <1>14, <1>15, <2>1
<1>17. PICK e \in Nat \ {0} : e = 2 * d
  OBVIOUS
<1>18. 4 * p <= q
  BY <1>16, <1>17, Cancel
<1> QED
  BY <1>13, <1>18

LEMMA OpposedSize ==
    ASSUME Inputs, oppose > agree, ~Abstains, payoff <= OpposedPayoff
    PROVE  RecommendedSize.num = 0
<1>1. PICK b \in Nat \ {0} : b = payoff /\ b <= 3
  BY SignalFacts, GateAssumption
<1>2. PICK p \in Nat, q \in Nat \ {0} :
          p = Probability.num /\ q = Probability.den /\ 4 * p <= q
  BY ProbabilityType, OpposedQuarter DEF IsRatio
<1>3. p * (b + 1) - q <= 0
  <2>1. (b + 1) * p <= 4 * p
    BY <1>1, MoreTimes
  <2> QED
    BY <1>2, <2>1
<1>4. PICK x \in Int : x = p * (b + 1) - q
  OBVIOUS
<1>5. PICK d \in Nat \ {0} : d = KellyPart * q * b
  <2>1. q * b \in Nat \ {0}
    OBVIOUS
  <2>2. KellyPart * q * b = 4 * (q * b)
    BY DEF KellyPart
  <2> QED
    BY <2>1, <2>2
<1>6. PICK n \in Nat : n = (IF x > 0 THEN x ELSE 0) /\ n = 0
  BY <1>3, <1>4
<1>7. RecommendedSize = Ratio(n, d)
  BY <1>1, <1>2, <1>4, <1>5, <1>6 DEF RecommendedSize
<1> QED
  BY <1>6, <1>7, RatioIs

(* Opposition never moves the book, whatever its confidence                *)
(* (calibration.ts, where the confidence has no direction).                *)
THEOREM OppositionNeverMoves == Spec => []OpposedNeverMoves
<1>1. GateInv => OpposedNeverMoves
  <2> SUFFICES ASSUME GateInv, Moves, oppose > agree, payoff <= OpposedPayoff, Turnover # 0
               PROVE  FALSE
    BY DEF OpposedNeverMoves
  <2>1. PICK f : f = gate.fraction
    OBVIOUS
  <2>2. /\ Inputs /\ Assessed /\ stage = "reviewed" /\ ~calibration.abstain
        /\ IsRatio(f) /\ f.num > 0 /\ (Turnover > 0 => AtMost(f, Kelly))
    BY <2>1, GateIs DEF Moves, GateInv
  <2>3. calibration = CalibrationResult
    BY <2>2 DEF GateInv, Stages
  <2>4. ~Abstains /\ calibration.size = RecommendedSize
    BY <2>2, <2>3 DEF CalibrationResult
  <2>5. calibration.size.num = 0
    BY <2>2, <2>4, OpposedSize
  <2>6. Whole \in Nat \ {0} /\ Turnover \in Nat \ {0}
    BY <2>2, AssessedBooks, TurnoverType DEF Assessed
  <2>7. PICK n \in Nat, d \in Nat \ {0} :
            n = 2 * Whole * calibration.size.num /\ n = 0 /\ d = Turnover * calibration.size.den
    <3>1. PICK b \in Nat \ {0}, t \in Nat \ {0} : b = calibration.size.den /\ t = Turnover
      BY <2>6, CalibrationType DEF IsRatio
    <3>2. PICK d \in Nat \ {0} : d = t * b
      OBVIOUS
    <3>3. PICK w \in Nat, m \in Nat : w = Whole /\ m = calibration.size.num /\ m = 0
      BY <2>5, <2>6
    <3>4. 2 * w * m = 0
      BY <3>3
    <3> QED
      BY <3>1, <3>2, <3>3, <3>4
  <2>8. IsRatio(Kelly) /\ Kelly.num = 0
    BY <2>7, RatioIs DEF Kelly
  <2>9. PICK x \in Nat, y \in Nat \ {0} : x = f.num /\ y = Kelly.den
    BY <2>2, <2>8 DEF IsRatio
  <2>10. PICK z \in Nat : z = f.den
    BY <2>2 DEF IsRatio
  <2>11. x * y <= 0 * z
    BY <2>2, <2>6, <2>8, <2>9, <2>10 DEF AtMost
  <2>12. x = 0
    BY <2>11
  <2> QED
    BY <2>2, <2>9, <2>12
<1> QED
  BY <1>1, GateInvariant, PTL

(***************************************************************************)
(* Quadratic forms over a finite set of sleeves.                           *)
(***************************************************************************)
LEMMA MatVecType ==
    ASSUME NEW D, IsFiniteSet(D), NEW w \in [D -> Int], NEW M \in [D -> [D -> Int]]
    PROVE  /\ MatVec(M, w) \in [D -> Int]
           /\ \A i \in D : MatVec(M, w)[i] = SumOf([j \in D |-> M[i][j] * w[j]])
<1>1. ASSUME NEW i \in D PROVE SumOf([j \in D |-> M[i][j] * w[j]]) \in Int
  <2>1. PICK f : f = [j \in D |-> M[i][j] * w[j]]
    OBVIOUS
  <2>2. DOMAIN f = D /\ \A j \in D : f[j] \in Int
    BY <2>1
  <2>3. SumOf(f) \in Int
    BY <2>2, SumInt
  <2> QED
    BY <2>1, <2>3
<1>2. MatVec(M, w) = [i \in D |-> SumOf([j \in D |-> M[i][j] * w[j]])]
  BY DEF MatVec
<1> QED
  BY <1>1, <1>2

LEMMA QuadraticType ==
    ASSUME NEW D, IsFiniteSet(D), NEW w \in [D -> Int], NEW M \in [D -> [D -> Int]]
    PROVE  QuadraticForm(w, M) \in Int
<1>1. PICK f : f = [i \in D |-> w[i] * MatVec(M, w)[i]]
  OBVIOUS
<1>2. DOMAIN f = D /\ \A i \in D : f[i] \in Int
  <2>1. PICK v \in [D -> Int] : v = MatVec(M, w)
    BY MatVecType
  <2> QED
    BY <1>1, <2>1
<1>3. SumOf(f) \in Int
  BY <1>2, SumInt
<1> QED
  BY <1>1, <1>3 DEF QuadraticForm

LEMMA CovarianceType ==
    ASSUME NEW D, Over(D)
    PROVE  Covariance(market) \in [D -> [D -> Int]]
<1>1. PICK vols \in [D -> Nat], corr \in [D -> [D -> Int]] :
          vols = market.vols /\ corr = market.corr
  BY DEF Over
<1>2. Covariance(market) = [i \in D |-> [j \in D |-> corr[i][j] * vols[i] * vols[j]]]
  BY <1>1 DEF Covariance
<1>3. \A i, j \in D : corr[i][j] * vols[i] * vols[j] \in Int
  <2> TAKE i, j \in D
  <2>1. PICK x \in Int, y \in Nat, z \in Nat : x = corr[i][j] /\ y = vols[i] /\ z = vols[j]
    OBVIOUS
  <2> QED
    BY <2>1
<1> QED
  BY <1>2, <1>3

LEMMA SharesSum ==
    ASSUME NEW D, Over(D)
    PROVE  SumOf(RiskShares(target, market).parts) = RiskShares(target, market).of
<1>1. PICK w \in [D -> Int] : w = target
  BY DEF Over
<1>2. IsFiniteSet(D)
  BY DEF Over
<1>3. CASE Variance(target, market) = 0
  <2>1. PICK h : h = [i \in D |-> IF i \in Funded(target) THEN 1 ELSE 0]
    OBVIOUS
  <2>2. RiskShares(target, market) = [parts |-> h, of |-> Cardinality(Funded(target))]
    BY <1>1, <1>3, <2>1 DEF RiskShares
  <2>3. Funded(target) \in SUBSET D
    BY <1>1 DEF Funded
  <2>4. SumOf(h) = Cardinality(Funded(target))
    BY <1>2, <2>1, <2>3, SumCounts
  <2> QED
    BY <2>2, <2>4
<1>4. CASE Variance(target, market) # 0
  <2>1. RiskShares(target, market) =
            [parts |-> [i \in D |-> w[i] * MatVec(Covariance(market), w)[i]],
             of    |-> Variance(w, market)]
    BY <1>1, <1>4 DEF RiskShares
  <2>2. QuadraticForm(w, Covariance(market)) =
            SumOf([i \in D |-> w[i] * MatVec(Covariance(market), w)[i]])
    BY DEF QuadraticForm
  <2>3. Variance(w, market) = QuadraticForm(w, Covariance(market))
    <3>1. QuadraticForm(w, Covariance(market)) \in Int
      BY <1>2, CovarianceType, QuadraticType
    <3> QED
      BY <1>1, <1>4, <3>1 DEF Variance, AtLeastZero
  <2> QED
    BY <2>1, <2>2, <2>3
<1> QED
  BY <1>3, <1>4

(* Type correctness: sizes and fractions between 0 and 1 at every stage,   *)
(* and risk shares that add up to the whole risk (riskEngine.ts).          *)
THEOREM GateTypeCorrect == Spec => []TypeOK
<1>1. GateInv => TypeOK
  <2> SUFFICES ASSUME GateInv PROVE TypeOK
    OBVIOUS
  <2>1. SumOf(risk.shares.parts) = risk.shares.of
    <3>1. CASE risk = NoReport
      <4>1. PICK none : none = << >>
        OBVIOUS
      <4>2. DOMAIN none = {}
        BY <4>1
      <4>3. SumOf(none) = 0
        BY <4>2, PartSumFacts, FS_EmptySet
      <4> QED
        BY <3>1, <4>1, <4>3 DEF NoReport
    <3>2. CASE Assessed
      <4>1. risk.shares = RiskShares(target, market)
        BY <3>2 DEF Assessed, AssessRisk
      <4>2. Over(DOMAIN current)
        BY <3>2, AssessedBooks DEF GateInv, Assessed
      <4> QED
        BY <4>1, <4>2, SharesSum
    <3> QED
      BY <3>1, <3>2 DEF GateInv, Stages
  <2>2. IsRatioToOne(gate.fraction) /\ (stage = "reviewed" => gate.verdict \in Verdicts)
    <3>1. CASE stage = "reviewed"
      BY <3>1, GateIs
    <3>2. CASE stage # "reviewed"
      <4>1. gate = NoGate
        BY <3>2 DEF GateInv, Stages
      <4> QED
        BY <3>2, <4>1, ZeroIsRatio DEF NoGate
    <3> QED
      BY <3>1, <3>2
  <2> QED
    BY <2>1, <2>2, CalibrationType DEF TypeOK
<1> QED
  BY <1>1, GateInvariant, PTL

(***************************************************************************)
(* The executed book: a mean of the current book and the target.           *)
(***************************************************************************)
LEMMA ExecutedMean ==
    ASSUME GateInv, Moves, NEW D, Over(D)
    PROVE  \E a \in Nat, b \in Nat \ {0} :
               /\ a + b = gate.fraction.den
               /\ ExecutedBook \in [D -> Nat]
               /\ \A i \in D : ExecutedBook[i] = a * current[i] + b * target[i]
<1>1. PICK b \in Nat \ {0}, d \in Nat \ {0} : b = gate.fraction.num /\ d = gate.fraction.den /\ b <= d
  BY GateIs DEF Moves, IsRatioToOne
<1>2. PICK a \in Nat : a = d - b
  BY <1>1
<1>3. PICK e : e = ExecutedBook
  OBVIOUS
<1>4. e = [i \in D |-> d * current[i] + b * (target[i] - current[i])]
  BY <1>1, <1>3 DEF ExecutedBook, ExecutionTarget, Over
<1>5. ASSUME NEW i \in D
      PROVE  e[i] = a * current[i] + b * target[i] /\ e[i] \in Nat
  <2>1. PICK x \in Nat, y \in Nat : x = current[i] /\ y = target[i]
    BY DEF Over
  <2>2. e[i] = d * x + b * (y - x)
    BY <1>4, <2>1
  <2>3. d * x + b * (y - x) = a * x + b * y
    BY <1>2
  <2>4. a * x + b * y \in Nat
    OBVIOUS
  <2> QED
    BY <2>1, <2>2, <2>3, <2>4
<1>6. e \in [D -> Nat]
  BY <1>4, <1>5
<1>7. a + b = gate.fraction.den
  BY <1>1, <1>2
<1> QED
  BY <1>3, <1>5, <1>6, <1>7

(* What is escalated or abstained from carries no fraction, and a target   *)
(* that is submitted shares out the whole, to the tolerance of the engine, *)
(* with no short position (council.ts, buildExecutionTarget).              *)
THEOREM VerdictsFitLog == Spec => []FitsLog
<1>1. GateInv => FitsLog
  <2> SUFFICES ASSUME GateInv PROVE FitsLog
    OBVIOUS
  <2>1. ASSUME gate.verdict \in {"ESCALATE", "ABSTAIN_UPHELD"} PROVE ~Moves
    BY <2>1, GateIs DEF Moves
  <2>2. ASSUME Moves, ValidTarget(current, current, Whole)
        PROVE  /\ Within(SumOf(ExecutedBook), Whole * gate.fraction.den)
               /\ \A i \in DOMAIN current : ExecutedBook[i] >= 0
    <3>1. PICK D : D = DOMAIN current /\ Over(D) /\ Whole \in Nat \ {0}
      BY <2>2, AssessedBooks, GateIs DEF Moves, GateInv, Assessed
    <3>2. PICK a \in Nat, b \in Nat \ {0} :
              /\ a + b = gate.fraction.den
              /\ ExecutedBook \in [D -> Nat]
              /\ \A i \in D : ExecutedBook[i] = a * current[i] + b * target[i]
      <4>1. Moves /\ Over(D)
        BY <2>2, <3>1
      <4> HIDE <2>2, <3>1
      <4> QED
        BY <4>1, ExecutedMean
    <3>3. PICK e : e = ExecutedBook
      OBVIOUS
    <3>4. SumOf(e) = a * SumOf(current) + b * SumOf(target)
      <4>1. IsFiniteSet(D) /\ current \in [D -> Int] /\ target \in [D -> Int]
        BY <3>1 DEF Over
      <4>2. DOMAIN e = D /\ \A i \in D : e[i] = a * current[i] + b * target[i]
        BY <3>2, <3>3
      <4>3. a \in Int /\ b \in Int
        OBVIOUS
      <4>4. IsCombination(e, D, a, current, b, target)
        BY <4>2 DEF IsCombination
      <4>5. SumSplit(e, a, current, b, target)
        BY <4>1, <4>2, <4>3, <4>4, SumOfCombination
      <4> QED
        BY <4>5 DEF SumSplit
    <3>5. /\ SumOf(current) \in Int /\ Within(SumOf(current), Whole)
          /\ SumOf(target) \in Int /\ Within(SumOf(target), Whole)
      BY <2>2, <3>1, SumNat DEF ValidTarget, Over
    <3>6. Within(a * SumOf(current) + b * SumOf(target), Whole * (a + b))
      BY <3>1, <3>5, MeanWithin
    <3>7. \A i \in D : e[i] >= 0
      BY <3>2, <3>3
    <3>8. PICK k : k = a + b /\ k = gate.fraction.den
      BY <3>2
    <3>9. Within(SumOf(e), Whole * k)
      BY <3>4, <3>6, <3>8
    <3> QED
      BY <3>1, <3>3, <3>7, <3>8, <3>9
  <2> QED
    BY <2>1, <2>2 DEF FitsLog
<1> QED
  BY <1>1, GateInvariant, PTL

(***************************************************************************)
(* No new breach.  First the cap on a single sleeve: the gate looks at the *)
(* largest weight of the target.                                           *)
(***************************************************************************)
LEMMA LargestIs ==
    ASSUME NEW D, IsFiniteSet(D), D # {}, NEW w \in [D -> Nat], NEW i \in D
    PROVE  Largest(w) \in Nat /\ w[i] <= Largest(w)
<1> DEFINE Good == {T \in SUBSET D : T = {} \/ \E m \in T : \A j \in T : w[j] <= w[m]}
<1>1. ASSUME NEW T \in SUBSET D, \A U \in SUBSET T : U # T => U \in Good
      PROVE  T \in Good
  <2>1. CASE T = {}
    BY <2>1
  <2>2. CASE T # {}
    <3>1. PICK x \in T : TRUE
      BY <2>2
    <3>2. PICK U : U = T \ {x}
      OBVIOUS
    <3>3. U \in Good
      <4>1. U \in SUBSET T /\ U # T
        BY <3>1, <3>2
      <4> HIDE DEF Good
      <4> QED
        BY <1>1, <4>1
    <3>4. CASE U = {}
      BY <3>1, <3>2, <3>4
    <3>5. CASE U # {}
      <4>1. PICK m \in U : \A j \in U : w[j] <= w[m]
        BY <3>3, <3>5
      <4>2. CASE w[x] <= w[m]
        BY <3>2, <4>1, <4>2
      <4>3. CASE w[m] <= w[x]
        BY <3>2, <4>1, <4>3
      <4>4. w[x] \in Nat /\ w[m] \in Nat
        BY <3>2
      <4> QED
        BY <4>2, <4>3, <4>4
    <3> QED
      BY <3>4, <3>5
  <2> QED
    BY <2>1, <2>2
<1> HIDE DEF Good
<1>1a. Inductive(Good, D)
  BY <1>1 DEF Inductive
<1>2. D \in Good
  BY <1>1a, SubsetInduction
<1>3. PICK m \in D : \A j \in D : w[j] <= w[m]
  BY <1>2 DEF Good
<1>4. PICK values : values = {w[j] : j \in D}
  OBVIOUS
<1>5. \E n \in values : \A j \in D : w[j] <= n
  BY <1>3, <1>4
<1>6. Largest(w) = CHOOSE n \in values : \A j \in D : w[j] <= n
  BY <1>4 DEF Largest
<1>7. Largest(w) \in values /\ \A j \in D : w[j] <= Largest(w)
  BY <1>5, <1>6
<1> QED
  BY <1>4, <1>7

LEMMA MeanKeepsCap ==
    ASSUME NEW a \in Nat, NEW b \in Nat, NEW x \in Nat, NEW y \in Nat, NEW cap \in Nat,
           Percent * x <= cap, Percent * y <= cap
    PROVE  Percent * (a * x + b * y) <= cap * (a + b)
<1>1. PICK u \in Nat, v \in Nat : u = Percent * x /\ v = Percent * y
  BY DEF Percent
<1>2. u * a <= cap * a /\ v * b <= cap * b
  BY <1>1, MoreTimes
<1>3. Percent * (a * x + b * y) = u * a + v * b
  <2>1. Percent * (a * x + b * y) = (Percent * x) * a + (Percent * y) * b
    BY DEF Percent
  <2> QED
    BY <1>1, <2>1
<1>4. cap * (a + b) = cap * a + cap * b
  OBVIOUS
<1>5. u * a \in Int /\ v * b \in Int /\ cap * a \in Int /\ cap * b \in Int
  OBVIOUS
<1> QED
  BY <1>2, <1>3, <1>4, <1>5

LEMMA CapKept ==
    ASSUME GateInv, Moves, NEW D, Over(D), Whole \in Nat \ {0}, ~OverCap(current, Whole)
    PROVE  ~OverCap(ExecutedBook, Whole * gate.fraction.den)
<1>1. PICK a \in Nat, b \in Nat \ {0} :
          /\ a + b = gate.fraction.den
          /\ ExecutedBook \in [D -> Nat]
          /\ \A i \in D : ExecutedBook[i] = a * current[i] + b * target[i]
  BY ExecutedMean
<1>2. Percent * Largest(target) <= MaxSingleWeight * Whole
  <2>1. risk.most = Largest(target) /\ ~(Percent * risk.most > MaxSingleWeight * Whole)
    BY GateIs DEF Moves, Assessed, AssessRisk, HardBreach
  <2>2. Largest(target) \in Nat
    BY LargestIs DEF Over
  <2> QED
    BY <2>1, <2>2 DEF Percent, MaxSingleWeight
<1>3. ASSUME NEW i \in D
      PROVE  ~(Percent * ExecutedBook[i] > MaxSingleWeight * (Whole * gate.fraction.den))
  <2>1. PICK x \in Nat, y \in Nat : x = current[i] /\ y = target[i]
    BY DEF Over
  <2>2. Percent * x <= MaxSingleWeight * Whole
    BY <2>1 DEF OverCap, Over, Percent, MaxSingleWeight
  <2>3. Percent * y <= MaxSingleWeight * Whole
    <3>1. Largest(target) \in Nat /\ y <= Largest(target)
      BY <2>1, LargestIs DEF Over
    <3> QED
      BY <1>2, <3>1 DEF Percent, MaxSingleWeight
  <2>4. PICK cap \in Nat : cap = MaxSingleWeight * Whole
    BY DEF MaxSingleWeight
  <2>5. Percent * (a * x + b * y) <= cap * (a + b)
    BY <2>2, <2>3, <2>4, MeanKeepsCap
  <2>6. PICK d \in Nat : d = a + b
    OBVIOUS
  <2>7. MaxSingleWeight * (Whole * d) = cap * d
    BY <2>4 DEF MaxSingleWeight
  <2>8. Percent * ExecutedBook[i] <= MaxSingleWeight * (Whole * gate.fraction.den)
    BY <1>1, <2>1, <2>5, <2>6, <2>7
  <2>9. Percent * ExecutedBook[i] \in Int /\ MaxSingleWeight * (Whole * d) \in Int
    BY <1>1 DEF Percent, MaxSingleWeight
  <2> QED
    BY <1>1, <2>6, <2>8, <2>9
<1> QED
  BY <1>1, <1>3 DEF OverCap

(***************************************************************************)
(* Concentration: the sum of squares of a mean.                            *)
(***************************************************************************)
IsMix(h, D, a, f, b, g, c, k) == \A x \in D : h[x] = a * f[x] + b * g[x] + c * k[x]

MixSplit(h, a, f, b, g, c, k) == SumOf(h) = a * SumOf(f) + b * SumOf(g) + c * SumOf(k)

LEMMA SumCombinedOfThree ==
    ASSUME NEW D, IsFiniteSet(D),
           NEW f \in [D -> Int], NEW g \in [D -> Int], NEW k \in [D -> Int],
           NEW a \in Int, NEW b \in Int, NEW c \in Int,
           NEW h \in [D -> Int], IsMix(h, D, a, f, b, g, c, k)
    PROVE  MixSplit(h, a, f, b, g, c, k)
<1>1. PICK e \in [D -> Int] : e = [x \in D |-> a * f[x] + b * g[x]]
  <2>1. \A x \in D : a * f[x] + b * g[x] \in Int
    OBVIOUS
  <2> QED
    BY <2>1
<1>2. PICK one \in Int : one = 1
  OBVIOUS
<1>3. IsCombination(e, D, a, f, b, g)
  BY <1>1 DEF IsCombination
<1>4. SumSplit(e, a, f, b, g)
  BY <1>3, SumOfCombination
<1>5. IsCombination(h, D, one, e, c, k)
  BY <1>1, <1>2 DEF IsCombination, IsMix
<1>6. SumSplit(h, one, e, c, k)
  BY <1>5, SumOfCombination
<1>7. SumOf(f) \in Int /\ SumOf(g) \in Int /\ SumOf(k) \in Int /\ SumOf(e) \in Int
  BY SumInt
<1> QED
  BY <1>2, <1>4, <1>6, <1>7 DEF MixSplit, SumSplit

LEMMA SumNotNegative ==
    ASSUME NEW D, IsFiniteSet(D), NEW f \in [D -> Int], \A x \in D : f[x] >= 0
    PROVE  SumOf(f) \in Nat
<1>1. f \in [D -> Nat]
  OBVIOUS
<1> QED
  BY <1>1, SumNat

Products(f, g) == [x \in DOMAIN f |-> f[x] * g[x]]

LEMMA ProductsType ==
    ASSUME NEW D, NEW f \in [D -> Int], NEW g \in [D -> Int]
    PROVE  /\ Products(f, g) \in [D -> Int]
           /\ \A x \in D : Products(f, g)[x] = f[x] * g[x]
<1>1. \A x \in D : f[x] * g[x] \in Int
  OBVIOUS
<1>2. Products(f, g) = [x \in D |-> f[x] * g[x]]
  BY DEF Products
<1> QED
  BY <1>1, <1>2

LEMMA SquareExpanded ==
    ASSUME NEW a \in Int, NEW b \in Int, NEW x \in Int, NEW y \in Int
    PROVE  (a * x + b * y) * (a * x + b * y)
               = (a * a) * (x * x) + (2 * a * b) * (x * y) + (b * b) * (y * y)
OBVIOUS

SquaresSplit(e, a, c, b, t) ==
    SumOf(Products(e, e)) =
        (a * a) * SumOf(Products(c, c)) + (2 * a * b) * SumOf(Products(c, t))
            + (b * b) * SumOf(Products(t, t))

LEMMA SquaresOfMean ==
    ASSUME NEW D, IsFiniteSet(D), NEW c \in [D -> Int], NEW t \in [D -> Int],
           NEW a \in Int, NEW b \in Int, NEW e \in [D -> Int], IsCombination(e, D, a, c, b, t)
    PROVE  SquaresSplit(e, a, c, b, t)
<1>1. PICK f \in [D -> Int], g \in [D -> Int], k \in [D -> Int], h \in [D -> Int] :
          f = Products(c, c) /\ g = Products(c, t) /\ k = Products(t, t) /\ h = Products(e, e)
  BY ProductsType
<1>2. PICK p \in Int, q \in Int, r \in Int : p = a * a /\ q = 2 * a * b /\ r = b * b
  OBVIOUS
<1>3. ASSUME NEW x \in D PROVE h[x] = p * f[x] + q * g[x] + r * k[x]
  <2>1. PICK y \in Int, z \in Int : y = c[x] /\ z = t[x]
    OBVIOUS
  <2>2. f[x] = y * y /\ g[x] = y * z /\ k[x] = z * z
    BY <1>1, <2>1, ProductsType
  <2>3. h[x] = (a * y + b * z) * (a * y + b * z)
    BY <1>1, <2>1, ProductsType DEF IsCombination
  <2> QED
    BY <1>2, <2>2, <2>3, SquareExpanded
<1>4. IsMix(h, D, p, f, q, g, r, k)
  BY <1>3 DEF IsMix
<1>5. MixSplit(h, p, f, q, g, r, k)
  BY <1>4, SumCombinedOfThree
<1> QED
  BY <1>1, <1>2, <1>5 DEF SquaresSplit, MixSplit

LEMMA ZeroSum ==
    ASSUME NEW D, IsFiniteSet(D), NEW f \in [D -> Nat], SumOf(f) = 0
    PROVE  \A x \in D : f[x] = 0
<1> TAKE x \in D
<1>1. f[x] <= SumOf(f) /\ f[x] \in Nat
  BY SumCoversEach
<1> QED
  BY <1>1

LEMMA DifferencesBound ==
    ASSUME NEW D, IsFiniteSet(D), NEW c \in [D -> Int], NEW t \in [D -> Int],
           NEW w \in Int, NEW s \in Int
    PROVE  (w * w) * SumOf(Products(c, c)) + (s * s) * SumOf(Products(t, t))
               - (2 * w * s) * SumOf(Products(c, t)) >= 0
<1>1. PICK n \in Int : n = -s
  OBVIOUS
<1>2. PICK e \in [D -> Int] : e = [x \in D |-> w * c[x] + n * t[x]]
  <2>1. \A x \in D : w * c[x] + n * t[x] \in Int
    OBVIOUS
  <2> QED
    BY <2>1
<1>3. IsCombination(e, D, w, c, n, t)
  BY <1>2 DEF IsCombination
<1>4. SquaresSplit(e, w, c, n, t)
  BY <1>3, SquaresOfMean
<1>5. SumOf(Products(e, e)) \in Nat
  <2>1. PICK f \in [D -> Int] : f = Products(e, e)
    BY ProductsType
  <2>2. \A x \in D : f[x] >= 0
    <3> TAKE x \in D
    <3>1. PICK y \in Int : y = e[x]
      OBVIOUS
    <3>2. y * y >= 0
      OBVIOUS
    <3> QED
      BY <2>1, <3>1, <3>2, ProductsType
  <2> QED
    BY <2>1, <2>2, SumNotNegative
<1>6. PICK P \in Int, Q \in Int, R \in Int :
          P = SumOf(Products(c, t)) /\ Q = SumOf(Products(c, c)) /\ R = SumOf(Products(t, t))
  <2>1. PICK f \in [D -> Int], g \in [D -> Int], k \in [D -> Int] :
            f = Products(c, t) /\ g = Products(c, c) /\ k = Products(t, t)
    BY ProductsType
  <2>2. SumOf(f) \in Int /\ SumOf(g) \in Int /\ SumOf(k) \in Int
    BY SumInt
  <2> QED
    BY <2>1, <2>2
<1>7. (w * w) * Q + (2 * w * n) * P + (n * n) * R >= 0
  BY <1>4, <1>5, <1>6 DEF SquaresSplit
<1>8. (2 * w * n) * P = -((2 * w * s) * P) /\ (n * n) * R = (s * s) * R
  BY <1>1
<1>9. (w * w) * Q + (s * s) * R - (2 * w * s) * P >= 0
  BY <1>7, <1>8
<1> QED
  BY <1>6, <1>9

LEMMA MixedArithmetic ==
    ASSUME NEW s \in Nat \ {0}, NEW w \in Nat \ {0}, NEW P \in Int, NEW Q \in Int, NEW R \in Int,
           100 * Q <= 40 * (s * s), 100 * R <= 40 * (w * w),
           (w * w) * Q + (s * s) * R - (2 * w * s) * P >= 0
    PROVE  100 * P <= 40 * (s * w)
<1>1. PICK v \in Nat \ {0} : v = s * w
  OBVIOUS
<1>2. PICK ss \in Nat, ww \in Nat, vv \in Nat : ss = s * s /\ ww = w * w /\ vv = v * v
  OBVIOUS
<1>3. vv = ss * ww /\ vv = ww * ss
  BY <1>1, <1>2
<1>4. (100 * Q) * ww <= (40 * ss) * ww /\ (100 * R) * ss <= (40 * ww) * ss
  BY <1>2, MoreTimes
<1>5. PICK A \in Int, B \in Int, C \in Int : A = ww * Q /\ B = ss * R /\ C = v * P
  OBVIOUS
<1>6. 100 * A <= 40 * vv /\ 100 * B <= 40 * vv
  <2>1. (100 * Q) * ww = 100 * A /\ (100 * R) * ss = 100 * B
    BY <1>5
  <2>2. (40 * ss) * ww = 40 * vv /\ (40 * ww) * ss = 40 * vv
    BY <1>3
  <2> QED
    BY <1>4, <2>1, <2>2
<1>7. (2 * w * s) * P = 2 * C
  BY <1>1, <1>5
<1>8. A + B - 2 * C >= 0
  BY <1>2, <1>5, <1>7
<1>9. 100 * C <= 40 * vv
  BY <1>6, <1>8
<1>10. v * (100 * P) <= v * (40 * v)
  BY <1>2, <1>5, <1>9
<1>11. 100 * P <= 40 * v
  BY <1>10, Cancel
<1> QED
  BY <1>1, <1>11

(* A mixed product is bounded by the two sums of squares, as the squares   *)
(* of the differences w * c[x] - s * t[x] add up to no less than 0.        *)
LEMMA MixedBound ==
    ASSUME NEW D, IsFiniteSet(D), NEW c \in [D -> Int], NEW t \in [D -> Int],
           \A x \in D : c[x] >= 0,
           NEW s \in Nat, s = SumOf(c), NEW w \in Nat \ {0},
           NEW P \in Int, P = SumOf(Products(c, t)),
           NEW Q \in Int, Q = SumOf(Products(c, c)),
           NEW R \in Int, R = SumOf(Products(t, t)),
           100 * Q <= 40 * (s * s), 100 * R <= 40 * (w * w)
    PROVE  100 * P <= 40 * (s * w)
<1>1. CASE s = 0
  <2>1. \A x \in D : c[x] = 0
    <3>1. c \in [D -> Nat]
      OBVIOUS
    <3> QED
      BY <1>1, <3>1, ZeroSum
  <2>2. PICK zero \in Int : zero = 0
    OBVIOUS
  <2>3. PICK f \in [D -> Int] : f = Products(c, t)
    BY ProductsType
  <2>4. \A x \in D : zero <= f[x] /\ f[x] <= zero
    BY <2>1, <2>2, <2>3, ProductsType
  <2>5. SumOf(f) <= zero * Cardinality(D)
    BY <2>4, SumWithin
  <2>6. Cardinality(D) \in Nat
    BY FS_CardinalityType
  <2> QED
    BY <1>1, <2>2, <2>3, <2>5, <2>6
<1>2. CASE s # 0
  <2>1. (w * w) * Q + (s * s) * R - (2 * w * s) * P >= 0
    <3>1. PICK u \in Int, n \in Int : u = w /\ n = s
      OBVIOUS
    <3>2. (u * u) * SumOf(Products(c, c)) + (n * n) * SumOf(Products(t, t))
              - (2 * u * n) * SumOf(Products(c, t)) >= 0
      BY DifferencesBound
    <3> QED
      BY <3>1, <3>2
  <2>2. PICK v \in Nat \ {0} : v = s
    BY <1>2
  <2> QED
    BY <2>1, <2>2, MixedArithmetic
<1> QED
  BY <1>1, <1>2

LEMMA MeanConcentration ==
    ASSUME NEW a \in Nat, NEW b \in Nat, NEW s \in Nat, NEW w \in Nat,
           NEW P \in Int, NEW Q \in Int, NEW R \in Int,
           100 * Q <= 40 * (s * s), 100 * R <= 40 * (w * w), 100 * P <= 40 * (s * w)
    PROVE  100 * ((a * a) * Q + (2 * a * b) * P + (b * b) * R)
               <= 40 * ((a * s + b * w) * (a * s + b * w))
<1>1. PICK p \in Nat, q \in Nat, r \in Nat : p = a * a /\ q = 2 * a * b /\ r = b * b
  OBVIOUS
<1>2. PICK ss \in Nat, sw \in Nat, ww \in Nat : ss = s * s /\ sw = s * w /\ ww = w * w
  OBVIOUS
<1>3. (100 * Q) * p <= (40 * ss) * p /\ (100 * P) * q <= (40 * sw) * q /\ (100 * R) * r <= (40 * ww) * r
  BY <1>2, MoreTimes
<1>4. 100 * (p * Q + q * P + r * R) = (100 * Q) * p + (100 * P) * q + (100 * R) * r
  OBVIOUS
<1>5. (a * s + b * w) * (a * s + b * w) = p * ss + q * sw + r * ww
  BY <1>1, <1>2, SquareExpanded
<1>6. 40 * (p * ss + q * sw + r * ww) = (40 * ss) * p + (40 * sw) * q + (40 * ww) * r
  OBVIOUS
<1>7. PICK A \in Int, B \in Int, C \in Int :
          A = (100 * Q) * p /\ B = (100 * P) * q /\ C = (100 * R) * r
  OBVIOUS
<1>8. PICK X \in Int, Y \in Int, Z \in Int :
          X = (40 * ss) * p /\ Y = (40 * sw) * q /\ Z = (40 * ww) * r
  OBVIOUS
<1>9. A + B + C <= X + Y + Z
  BY <1>3, <1>7, <1>8
<1>10. 100 * (p * Q + q * P + r * R) <= 40 * (p * ss + q * sw + r * ww)
  BY <1>4, <1>6, <1>7, <1>8, <1>9
<1> QED
  BY <1>1, <1>5, <1>10

LEMMA SquaresAreProducts ==
    ASSUME NEW D, NEW w \in [D -> Int]
    PROVE  Squares(w) = SumOf(Products(w, w))
BY DEF Squares, Products

LEMMA TotalOfTarget ==
    ASSUME NEW D, Over(D)
    PROVE  AbsTotal(target) = SumOf(target)
<1>1. PICK f : f = [i \in D |-> Abs(target[i])]
  OBVIOUS
<1>2. \A i \in D : Abs(target[i]) = target[i]
  BY DEF Over, Abs
<1>3. f = target
  <2>1. target = [i \in D |-> target[i]]
    BY DEF Over
  <2> QED
    BY <1>1, <1>2, <2>1
<1>4. AbsTotal(target) = SumOf(f)
  BY <1>1 DEF Over, AbsTotal
<1> QED
  BY <1>3, <1>4 DEF Over

LEMMA ConcentrationKept ==
    ASSUME GateInv, Moves, NEW D, Over(D), Whole \in Nat \ {0}, ~TooConcentrated(current)
    PROVE  ~TooConcentrated(ExecutedBook)
<1>1. PICK a \in Nat, b \in Nat \ {0} :
          /\ a + b = gate.fraction.den
          /\ ExecutedBook \in [D -> Nat]
          /\ \A i \in D : ExecutedBook[i] = a * current[i] + b * target[i]
  BY ExecutedMean
<1>2. PICK c \in [D -> Int], t \in [D -> Int], e \in [D -> Int] :
          c = current /\ t = target /\ e = ExecutedBook
  BY <1>1 DEF Over
<1>3. IsFiniteSet(D) /\ SumOf(t) \in Nat \ {0} /\ \A x \in D : c[x] >= 0
  BY <1>2 DEF Over
<1>4. PICK s \in Nat, w \in Nat \ {0} : s = SumOf(c) /\ w = SumOf(t)
  BY <1>3, SumNotNegative
<1>5. PICK P \in Int, Q \in Int, R \in Int :
          P = SumOf(Products(c, t)) /\ Q = SumOf(Products(c, c)) /\ R = SumOf(Products(t, t))
  <2>1. PICK f \in [D -> Int], g \in [D -> Int], k \in [D -> Int] :
            f = Products(c, t) /\ g = Products(c, c) /\ k = Products(t, t)
    BY ProductsType
  <2>2. SumOf(f) \in Int /\ SumOf(g) \in Int /\ SumOf(k) \in Int
    BY <1>3, SumInt
  <2> QED
    BY <2>1, <2>2
<1>6. 100 * Q <= 40 * (s * s)
  <2>1. ~(Percent * Q > MaxHHI * s * s)
    BY <1>2, <1>4, <1>5, SquaresAreProducts DEF TooConcentrated
  <2>2. MaxHHI * s * s = 40 * (s * s) /\ s * s \in Int
    BY DEF MaxHHI
  <2> QED
    BY <2>1, <2>2 DEF Percent
<1>7. 100 * R <= 40 * (w * w)
  <2>1. ~(Percent * risk.squares > MaxHHI * risk.total * risk.total)
    BY GateIs DEF Moves, HardBreach
  <2>2. risk.squares = Squares(target) /\ risk.total = AbsTotal(target)
    BY GateIs DEF Moves, Assessed, AssessRisk
  <2>3. risk.squares = R /\ risk.total = w
    BY <1>2, <1>4, <1>5, <2>2, SquaresAreProducts, TotalOfTarget
  <2>4. MaxHHI * w * w = 40 * (w * w) /\ w * w \in Int
    BY DEF MaxHHI
  <2> QED
    BY <2>1, <2>3, <2>4 DEF Percent
<1>8. 100 * P <= 40 * (s * w)
  BY <1>3, <1>4, <1>5, <1>6, <1>7, MixedBound
<1>9. 100 * ((a * a) * Q + (2 * a * b) * P + (b * b) * R)
          <= 40 * ((a * s + b * w) * (a * s + b * w))
  BY <1>6, <1>7, <1>8, MeanConcentration
<1>10. Squares(e) = (a * a) * Q + (2 * a * b) * P + (b * b) * R
  <2>1. a \in Int /\ b \in Int
    OBVIOUS
  <2>2. IsCombination(e, D, a, c, b, t)
    BY <1>1, <1>2 DEF IsCombination
  <2>3. SquaresSplit(e, a, c, b, t)
    BY <1>3, <2>1, <2>2, SquaresOfMean
  <2> QED
    BY <1>5, <2>3, SquaresAreProducts DEF SquaresSplit
<1>11. SumOf(e) = a * s + b * w
  <2>1. IsCombination(e, D, a, c, b, t)
    BY <1>1, <1>2 DEF IsCombination
  <2>2. a \in Int /\ b \in Int
    OBVIOUS
  <2>3. SumSplit(e, a, c, b, t)
    BY <1>3, <2>1, <2>2, SumOfCombination
  <2> QED
    BY <1>3, <1>4, <2>3 DEF SumSplit
<1>12. PICK S \in Int, U \in Int : S = Squares(e) /\ U = SumOf(e)
  <2>1. SumOf(e) \in Int
    BY <1>4, <1>11
  <2>2. Squares(e) \in Int
    BY <1>5, <1>10
  <2> QED
    BY <2>1, <2>2
<1>13. 100 * S <= 40 * (U * U)
  BY <1>9, <1>10, <1>11, <1>12
<1>14. ~(Percent * S > MaxHHI * U * U)
  <2>1. MaxHHI * U * U = 40 * (U * U) /\ U * U \in Int
    BY DEF MaxHHI
  <2> QED
    BY <1>13, <2>1 DEF Percent
<1> QED
  BY <1>2, <1>12, <1>14 DEF TooConcentrated

(***************************************************************************)
(* Drawdown: the variance of a mean, for any matrix.                       *)
(***************************************************************************)
Cross(x, y, M) ==
    SumOf([i \in DOMAIN x |-> x[i] * MatVec(M, y)[i] + y[i] * MatVec(M, x)[i]])

VarianceSplit(z, p, x, q, y, M) ==
    QuadraticForm(z, M) =
        (p * p) * QuadraticForm(x, M) + (p * q) * Cross(x, y, M) + (q * q) * QuadraticForm(y, M)

LEMMA MatVecOfMean ==
    ASSUME NEW D, IsFiniteSet(D), NEW M \in [D -> [D -> Int]],
           NEW x \in [D -> Int], NEW y \in [D -> Int], NEW p \in Int, NEW q \in Int,
           NEW z \in [D -> Int], IsCombination(z, D, p, x, q, y)
    PROVE  IsCombination(MatVec(M, z), D, p, MatVec(M, x), q, MatVec(M, y))
<1> SUFFICES ASSUME NEW i \in D
             PROVE  MatVec(M, z)[i] = p * MatVec(M, x)[i] + q * MatVec(M, y)[i]
  BY DEF IsCombination
<1>1. PICK f \in [D -> Int] : f = [j \in D |-> M[i][j] * x[j]]
  <2>1. \A j \in D : M[i][j] * x[j] \in Int
    OBVIOUS
  <2> QED
    BY <2>1
<1>2. PICK g \in [D -> Int] : g = [j \in D |-> M[i][j] * y[j]]
  <2>1. \A j \in D : M[i][j] * y[j] \in Int
    OBVIOUS
  <2> QED
    BY <2>1
<1>3. PICK h \in [D -> Int] : h = [j \in D |-> M[i][j] * z[j]]
  <2>1. \A j \in D : M[i][j] * z[j] \in Int
    OBVIOUS
  <2> QED
    BY <2>1
<1>4. IsCombination(h, D, p, f, q, g)
  <2> SUFFICES ASSUME NEW j \in D PROVE h[j] = p * f[j] + q * g[j]
    BY DEF IsCombination
  <2>1. PICK m \in Int, u \in Int, v \in Int : m = M[i][j] /\ u = x[j] /\ v = y[j]
    OBVIOUS
  <2>2. z[j] = p * u + q * v
    BY <2>1 DEF IsCombination
  <2>3. f[j] = m * u /\ g[j] = m * v /\ h[j] = m * (p * u + q * v)
    BY <1>1, <1>2, <1>3, <2>1, <2>2
  <2>4. m * (p * u + q * v) = p * (m * u) + q * (m * v)
    OBVIOUS
  <2> QED
    BY <2>3, <2>4
<1>5. SumSplit(h, p, f, q, g)
  BY <1>4, SumOfCombination
<1>6. MatVec(M, x)[i] = SumOf(f) /\ MatVec(M, y)[i] = SumOf(g) /\ MatVec(M, z)[i] = SumOf(h)
  BY <1>1, <1>2, <1>3, MatVecType
<1> QED
  BY <1>5, <1>6 DEF SumSplit

LEMMA ProductOfMeans ==
    ASSUME NEW p \in Int, NEW q \in Int, NEW x \in Int, NEW y \in Int, NEW u \in Int, NEW v \in Int
    PROVE  (p * x + q * y) * (p * u + q * v)
               = (p * p) * (x * u) + (p * q) * (x * v + y * u) + (q * q) * (y * v)
OBVIOUS

LEMMA VarianceOfMean ==
    ASSUME NEW D, IsFiniteSet(D), NEW M \in [D -> [D -> Int]],
           NEW x \in [D -> Int], NEW y \in [D -> Int], NEW p \in Int, NEW q \in Int,
           NEW z \in [D -> Int], IsCombination(z, D, p, x, q, y)
    PROVE  VarianceSplit(z, p, x, q, y, M) /\ Cross(x, y, M) \in Int
<1>1. PICK mx \in [D -> Int], my \in [D -> Int], mz \in [D -> Int] :
          mx = MatVec(M, x) /\ my = MatVec(M, y) /\ mz = MatVec(M, z)
  BY MatVecType
<1>2. IsCombination(mz, D, p, mx, q, my)
  BY <1>1, MatVecOfMean
<1>3. PICK f \in [D -> Int], k \in [D -> Int], h \in [D -> Int] :
          f = Products(x, mx) /\ k = Products(y, my) /\ h = Products(z, mz)
  BY ProductsType
<1>4. PICK g \in [D -> Int] : g = [i \in D |-> x[i] * my[i] + y[i] * mx[i]]
  <2>1. \A i \in D : x[i] * my[i] + y[i] * mx[i] \in Int
    OBVIOUS
  <2> QED
    BY <2>1
<1>5. PICK a \in Int, b \in Int, c \in Int : a = p * p /\ b = p * q /\ c = q * q
  OBVIOUS
<1>6. ASSUME NEW i \in D PROVE h[i] = a * f[i] + b * g[i] + c * k[i]
  <2>1. PICK r \in Int, s \in Int, u \in Int, v \in Int :
            r = x[i] /\ s = y[i] /\ u = mx[i] /\ v = my[i]
    OBVIOUS
  <2>2. z[i] = p * r + q * s /\ mz[i] = p * u + q * v
    BY <1>2, <2>1 DEF IsCombination
  <2>3. h[i] = (p * r + q * s) * (p * u + q * v)
    <3>1. h[i] = z[i] * mz[i]
      BY <1>3 DEF Products
    <3> QED
      BY <2>2, <3>1
  <2>4. f[i] = r * u /\ k[i] = s * v
    BY <1>3, <2>1 DEF Products
  <2>5. g[i] = r * v + s * u
    BY <1>4, <2>1
  <2> QED
    BY <1>5, <2>3, <2>4, <2>5, ProductOfMeans
<1>7. SumOf(h) = a * SumOf(f) + b * SumOf(g) + c * SumOf(k)
  <2>1. IsMix(h, D, a, f, b, g, c, k)
    BY <1>6 DEF IsMix
  <2>2. MixSplit(h, a, f, b, g, c, k)
    BY <2>1, SumCombinedOfThree
  <2> QED
    BY <2>2 DEF MixSplit
<1>8. QuadraticForm(x, M) = SumOf(f) /\ QuadraticForm(y, M) = SumOf(k) /\ QuadraticForm(z, M) = SumOf(h)
  BY <1>1, <1>3 DEF QuadraticForm, Products
<1>9. Cross(x, y, M) = SumOf(g) /\ SumOf(g) \in Int
  BY <1>1, <1>4, SumInt DEF Cross
<1> QED
  BY <1>5, <1>7, <1>8, <1>9 DEF VarianceSplit

(* A convex combination of two variances below a limit, with a move of no  *)
(* negative variance between them, is below the limit too.                 *)
LEMMA MixedVariance ==
    ASSUME NEW a \in Nat, NEW b \in Nat, NEW C \in Int, NEW X \in Int, NEW T \in Int,
           C - X + T >= 0
    PROVE  (a * a) * C + (a * b) * X + (b * b) * T <= (a * (a + b)) * C + (b * (a + b)) * T
<1>1. PICK d \in Nat, u \in Int, v \in Int : d = a * b /\ u = a * a /\ v = b * b
  OBVIOUS
<1>2. PICK n \in Nat : n = C - X + T
  OBVIOUS
<1>3. d * n >= 0
  OBVIOUS
<1>4. d * n = d * C - d * X + d * T
  BY <1>2
<1>5. a * (a + b) = u + d /\ b * (a + b) = d + v
  BY <1>1
<1>6. (u + d) * C = u * C + d * C /\ (d + v) * T = d * T + v * T
  OBVIOUS
<1>7. PICK uC \in Int, vT \in Int, dC \in Int, dX \in Int, dT \in Int :
          uC = u * C /\ vT = v * T /\ dC = d * C /\ dX = d * X /\ dT = d * T
  OBVIOUS
<1>8. uC + dX + vT <= (uC + dC) + (dT + vT)
  BY <1>3, <1>4, <1>7
<1> QED
  BY <1>1, <1>5, <1>6, <1>7, <1>8

LEMMA ScaledAtMost ==
    ASSUME NEW k \in Nat, NEW x \in Int, NEW y \in Int, x <= y
    PROVE  k * x <= k * y
<1>1. PICK n \in Nat : n = y - x
  OBVIOUS
<1>2. k * n >= 0 /\ k * n = k * y - k * x
  BY <1>1
<1>3. k * x \in Int /\ k * y \in Int
  OBVIOUS
<1> QED
  BY <1>2, <1>3

LEMMA MeanBelowLimit ==
    ASSUME NEW h \in Nat, NEW u \in Nat, NEW v \in Nat \ {0}, NEW x \in Nat, NEW y \in Nat,
           NEW e \in Nat, NEW L \in Nat,
           e <= u * x + v * y, h * x < L, h * y < L
    PROVE  h * e < (u + v) * L
<1>1. PICK p \in Nat, q \in Nat : p = h * x /\ q = h * y
  OBVIOUS
<1>2. h * e <= h * (u * x + v * y)
  <2>1. u * x + v * y \in Int
    OBVIOUS
  <2> QED
    BY <2>1, ScaledAtMost
<1>3. h * (u * x + v * y) = u * p + v * q
  BY <1>1
<1>4. u * p <= u * L
  BY <1>1, ScaledAtMost
<1>5. v * (q + 1) <= v * L
  <2>1. q + 1 \in Int /\ q + 1 <= L /\ v \in Nat
    BY <1>1
  <2> QED
    BY <2>1, ScaledAtMost
<1>6. v * (q + 1) = v * q + v
  OBVIOUS
<1>7. (u + v) * L = u * L + v * L
  OBVIOUS
<1>8. PICK he \in Int, up \in Int, vq \in Int, uL \in Int, vL \in Int :
          he = h * e /\ up = u * p /\ vq = v * q /\ uL = u * L /\ vL = v * L
  OBVIOUS
<1>9. he <= up + vq /\ up <= uL /\ vq + v <= vL /\ v > 0
  BY <1>2, <1>3, <1>4, <1>5, <1>6, <1>8
<1>10. he < uL + vL
  BY <1>9
<1> QED
  BY <1>7, <1>8, <1>10

LEMMA DrawdownArithmetic ==
    ASSUME NEW a \in Nat, NEW b \in Nat \ {0}, NEW h \in Nat, NEW W \in Nat \ {0},
           NEW C \in Int, NEW X \in Int, NEW T \in Int, NEW E \in Int,
           E = (a * a) * C + (a * b) * X + (b * b) * T, C - X + T >= 0,
           h * AtLeastZero(C) < 9 * W * W, h * AtLeastZero(T) < 9 * W * W
    PROVE  h * AtLeastZero(E) < 9 * (W * (a + b)) * (W * (a + b))
<1>1. PICK x \in Nat, y \in Nat, e \in Nat :
          x = AtLeastZero(C) /\ y = AtLeastZero(T) /\ e = AtLeastZero(E)
  BY DEF AtLeastZero
<1>2. C <= x /\ T <= y /\ (e = E \/ e = 0)
  BY <1>1 DEF AtLeastZero
<1>3. PICK d \in Nat \ {0} : d = a + b
  OBVIOUS
<1>4. PICK u \in Nat, v \in Nat \ {0} : u = a * d /\ v = b * d
  OBVIOUS
<1>5. PICK L \in Nat : L = 9 * W * W
  OBVIOUS
<1>6. E <= u * C + v * T
  <2>1. b \in Nat
    OBVIOUS
  <2>2. (a * a) * C + (a * b) * X + (b * b) * T <= (a * (a + b)) * C + (b * (a + b)) * T
    BY <2>1, MixedVariance
  <2> QED
    BY <1>3, <1>4, <2>2
<1>7. u * C <= u * x
  BY <1>2, ScaledAtMost
<1>8. v * T <= v * y
  <2>1. v \in Nat
    OBVIOUS
  <2> QED
    BY <1>2, <2>1, ScaledAtMost
<1>9. e <= u * x + v * y
  <2>1. PICK ux \in Nat, vy \in Nat, uC \in Int, vT \in Int :
            ux = u * x /\ vy = v * y /\ uC = u * C /\ vT = v * T
    OBVIOUS
  <2>2. E <= uC + vT /\ uC <= ux /\ vT <= vy
    BY <1>6, <1>7, <1>8, <2>1
  <2>3. E <= ux + vy /\ 0 <= ux + vy
    BY <2>2
  <2> QED
    BY <1>2, <2>1, <2>3
<1>10. h * e < (u + v) * L
  BY <1>1, <1>5, <1>9, MeanBelowLimit
<1>11. (u + v) * L = 9 * (W * (a + b)) * (W * (a + b))
  <2>1. u + v = d * d
    BY <1>3, <1>4
  <2>2. (d * d) * (9 * W * W) = 9 * (W * d) * (W * d)
    OBVIOUS
  <2> QED
    BY <1>3, <1>5, <2>1, <2>2
<1> QED
  BY <1>1, <1>10, <1>11

LEMMA DrawdownKept ==
    ASSUME GateInv, Moves, NEW D, Over(D), Whole \in Nat \ {0}, months \in Nat,
           MoveIsCoherent, ~DrawdownBreach(current, Whole, market, months)
    PROVE  ~DrawdownBreach(ExecutedBook, Whole * gate.fraction.den, market, months)
<1>1. PICK a \in Nat, b \in Nat \ {0} :
          /\ a + b = gate.fraction.den
          /\ ExecutedBook \in [D -> Nat]
          /\ \A i \in D : ExecutedBook[i] = a * current[i] + b * target[i]
  BY ExecutedMean
<1>2. PICK c \in [D -> Int], t \in [D -> Int], e \in [D -> Int], m \in [D -> Int] :
          c = current /\ t = target /\ e = ExecutedBook /\ m = Move
  <2>1. Move \in [D -> Int]
    BY DEF Over, Move
  <2>2. ExecutedBook \in [D -> Int] /\ current \in [D -> Int] /\ target \in [D -> Int]
    BY <1>1 DEF Over
  <2> QED
    BY <2>1, <2>2
<1>3. IsFiniteSet(D)
  BY DEF Over
<1>4. PICK M \in [D -> [D -> Int]] : M = Covariance(market)
  BY CovarianceType
<1>5. PICK C \in Int, T \in Int, E \in Int, X \in Int, V \in Int :
          /\ C = QuadraticForm(c, M) /\ T = QuadraticForm(t, M)
          /\ E = QuadraticForm(e, M) /\ V = QuadraticForm(m, M)
          /\ X = Cross(c, t, M)
  <2>1. a \in Int /\ b \in Int /\ IsCombination(e, D, a, c, b, t)
    BY <1>1, <1>2 DEF IsCombination
  <2>2. Cross(c, t, M) \in Int
    BY <1>3, <2>1, VarianceOfMean
  <2>3. QuadraticForm(c, M) \in Int /\ QuadraticForm(t, M) \in Int
    BY <1>3, QuadraticType
  <2>4. QuadraticForm(e, M) \in Int /\ QuadraticForm(m, M) \in Int
    BY <1>3, QuadraticType
  <2> QED
    BY <2>2, <2>3, <2>4
<1>6. E = (a * a) * C + (a * b) * X + (b * b) * T
  <2>1. a \in Int /\ b \in Int /\ IsCombination(e, D, a, c, b, t)
    BY <1>1, <1>2 DEF IsCombination
  <2>2. VarianceSplit(e, a, c, b, t, M)
    BY <1>3, <2>1, VarianceOfMean
  <2> QED
    BY <1>5, <2>2 DEF VarianceSplit
<1>7. V = C - X + T
  <2>1. PICK p \in Int, q \in Int : p = -1 /\ q = 1
    OBVIOUS
  <2>2. IsCombination(m, D, p, c, q, t)
    <3> SUFFICES ASSUME NEW i \in D PROVE m[i] = p * c[i] + q * t[i]
      BY DEF IsCombination
    <3>1. m[i] = t[i] - c[i]
      BY <1>2 DEF Move
    <3>2. c[i] \in Int /\ t[i] \in Int
      OBVIOUS
    <3> QED
      BY <2>1, <3>1, <3>2
  <2>3. VarianceSplit(m, p, c, q, t, M)
    BY <1>3, <2>2, VarianceOfMean
  <2>4. V = (p * p) * C + (p * q) * X + (q * q) * T
    BY <1>5, <2>3 DEF VarianceSplit
  <2> QED
    BY <2>1, <2>4
<1>8. C - X + T >= 0
  BY <1>2, <1>4, <1>5, <1>7 DEF MoveIsCoherent
<1>9. PICK h \in Nat, w \in Nat \ {0} : h = 2 * months /\ w = Whole
  OBVIOUS
<1>10. h * AtLeastZero(C) < 9 * w * w
  <2>1. ~(h * AtLeastZero(C) >= 9 * w * w)
    BY <1>2, <1>4, <1>5, <1>9 DEF DrawdownBreach, Variance
  <2>2. AtLeastZero(C) \in Nat
    BY DEF AtLeastZero
  <2>3. h * AtLeastZero(C) \in Int /\ 9 * w * w \in Int
    BY <2>2
  <2> QED
    BY <2>1, <2>3
<1>11. h * AtLeastZero(T) < 9 * w * w
  <2>1. risk.drawdown = DrawdownBreach(target, Whole, market, months) /\ ~risk.drawdown
    BY GateIs DEF Moves, Assessed, AssessRisk, HardBreach
  <2>2. ~DrawdownBreach(t, w, market, months)
    BY <1>2, <1>9, <2>1
  <2>3. ~(h * AtLeastZero(T) >= 9 * w * w)
    BY <1>4, <1>5, <1>9, <2>2 DEF DrawdownBreach, Variance
  <2>4. AtLeastZero(T) \in Nat
    BY DEF AtLeastZero
  <2>5. h * AtLeastZero(T) \in Int /\ 9 * w * w \in Int
    BY <2>4
  <2> QED
    BY <2>3, <2>5
<1>12. h * AtLeastZero(E) < 9 * (w * (a + b)) * (w * (a + b))
  BY <1>6, <1>8, <1>10, <1>11, DrawdownArithmetic
<1>13. PICK N \in Int : N = w * (a + b)
  OBVIOUS
<1>14. ~(h * AtLeastZero(E) >= 9 * N * N)
  <2>1. AtLeastZero(E) \in Nat
    BY DEF AtLeastZero
  <2>2. h * AtLeastZero(E) \in Int /\ 9 * N * N \in Int
    BY <2>1
  <2> QED
    BY <1>12, <1>13, <2>2
<1>15. N = Whole * gate.fraction.den
  BY <1>1, <1>9, <1>13
<1> QED
  BY <1>2, <1>4, <1>5, <1>9, <1>14, <1>15 DEF DrawdownBreach, Variance

(* PolicyGate's NoNewBreach: the gate judges the whole move, and the book  *)
(* that buildExecutionTarget makes of a part of it is not over the cap or  *)
(* the concentration limit unless the current book is, for every fraction, *)
(* book and market; nor over the drawdown limit, if the market gives the   *)
(* move no negative variance (MoveIsCoherent).                             *)
THEOREM NoNewBreachKept == Spec => []NoNewBreach
<1>1. GateInv => NoNewBreach
  <2> SUFFICES ASSUME GateInv, Moves
               PROVE  /\ OverCap(ExecutedBook, Whole * gate.fraction.den) => OverCap(current, Whole)
                      /\ TooConcentrated(ExecutedBook) => TooConcentrated(current)
                      /\ MoveIsCoherent
                         /\ DrawdownBreach(ExecutedBook, Whole * gate.fraction.den, market, months)
                             => DrawdownBreach(current, Whole, market, months)
    BY DEF NoNewBreach
  <2>1. PICK D : Over(D) /\ Whole \in Nat \ {0} /\ months \in Nat
    BY AssessedBooks, GateIs DEF Moves, GateInv, Assessed
  <2>2. ~OverCap(current, Whole) => ~OverCap(ExecutedBook, Whole * gate.fraction.den)
    BY <2>1, CapKept
  <2>3. ~TooConcentrated(current) => ~TooConcentrated(ExecutedBook)
    BY <2>1, ConcentrationKept
  <2>4. MoveIsCoherent /\ ~DrawdownBreach(current, Whole, market, months)
            => ~DrawdownBreach(ExecutedBook, Whole * gate.fraction.den, market, months)
    BY <2>1, DrawdownKept
  <2> QED
    BY <2>2, <2>3, <2>4
<1> QED
  BY <1>1, GateInvariant, PTL
=============================================================================
