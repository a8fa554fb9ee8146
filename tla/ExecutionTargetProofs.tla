------------------------ MODULE ExecutionTargetProofs ------------------------
(* Proofs about the conversion of an execution target to the arguments of  *)
(* the contracts, for every number of sleeves, every scale of the weights  *)
(* and of the fraction, every pair of books and every small rounding error *)
(* of the doubles.                                                         *)
EXTENDS ExecutionTarget, AllocationProofs

LEMMA Scales ==
    /\ TotalBps \in Nat \ {0} /\ Fine \in Nat \ {0} /\ Grain \in Nat \ {0}
    /\ Sleeves \in Nat \ {0} /\ Whole \in Nat \ {0} /\ Unit \in Nat \ {0}
    /\ Unit * TotalBps = Grain * Whole
<1>1. TotalBps \in Nat \ {0} /\ Fine \in Nat \ {0} /\ Grain \in Nat \ {0} /\ Sleeves \in Nat \ {0}
  BY TargetAssumption
<1> QED
  BY <1>1 DEF Whole, Unit

(***************************************************************************)
(* The inductive invariant: what has been built comes from the books and   *)
(* the share, and what has been submitted from what has been built.        *)
(***************************************************************************)
Books ==
    /\ current \in [1 .. Sleeves -> 0 .. Whole]
    /\ target \in [1 .. Sleeves -> 0 .. Whole]
    /\ share \in 1 .. Grain
    /\ SumOf(target) = Whole

Scaled(noise) ==
    /\ noise \in [1 .. Sleeves -> -1 .. 1]
    /\ raw \in Raws(Sleeves)
    /\ \A i \in 1 .. Sleeves :
           raw[i] = Grain * current[i] + share * (target[i] - current[i]) + noise[i]

Built == \E noise : Scaled(noise)

Arguments ==
    /\ Built
    /\ fraction = RoundedShare(share, Grain, TotalBps)
    /\ weights = ToBpsAllocation(raw, TotalBps, Unit)

TargetInv ==
    /\ Books
    /\ raw = << >> \/ Built
    /\ (fraction = 0 /\ weights = << >>) \/ Arguments

LEMMA TargetInit == Init => TargetInv
<1> SUFFICES ASSUME Init PROVE TargetInv
  OBVIOUS
<1>1. Books
  BY DEF Init, Weights, Books
<1> QED
  BY <1>1 DEF Init, TargetInv

LEMMA TargetStep == TargetInv /\ [Next]_vars => TargetInv'
<1> SUFFICES ASSUME TargetInv, [Next]_vars PROVE TargetInv'
  OBVIOUS
<1>1. CASE BuildExecutionTarget
  <2>1. PICK noise \in [1 .. Sleeves -> Noise] :
            LET exact == ExecutionTarget(current, target, share, Grain)
                sum   == [i \in 1 .. Sleeves |-> exact[i] + noise[i]]
            IN  (\A i \in 1 .. Sleeves : sum[i] >= 0) /\ raw' = sum
    BY <1>1 DEF BuildExecutionTarget
  <2>2. Books /\ Books'
    BY <1>1 DEF BuildExecutionTarget, TargetInv, Books
  <2>3. noise \in [1 .. Sleeves -> -1 .. 1]
    BY <2>1, NoiseAssumption
  <2>4. PICK built : built = [i \in 1 .. Sleeves |->
                Grain * current[i] + share * (target[i] - current[i]) + noise[i]]
    OBVIOUS
  <2>5. \A i \in 1 .. Sleeves : built[i] \in Int
    <3>1. \A i \in 1 .. Sleeves :
              current[i] \in Int /\ target[i] \in Int /\ noise[i] \in Int /\ share \in Int
      BY <2>2, <2>3, Scales DEF Books
    <3> QED
      BY <2>4, <3>1, Scales
  <2>6. raw' = built /\ \A i \in 1 .. Sleeves : built[i] >= 0
    <3>1. \A i \in 1 .. Sleeves : ExecutionTarget(current, target, share, Grain)[i] =
                                     Grain * current[i] + share * (target[i] - current[i])
      BY <2>2 DEF Books, ExecutionTarget
    <3> QED
      BY <2>1, <2>4, <3>1
  <2>7. raw' \in Raws(Sleeves)
    BY <2>4, <2>5, <2>6 DEF Raws
  <2>8. Scaled(noise)'
    <3>1. current' = current /\ target' = target /\ share' = share
      BY <1>1 DEF BuildExecutionTarget
    <3>2. \A i \in 1 .. Sleeves :
              raw'[i] = Grain * current'[i] + share' * (target'[i] - current'[i]) + noise[i]
      BY <2>4, <2>6, <3>1
    <3> QED
      BY <2>3, <2>7, <3>2 DEF Scaled
  <2>9. Built'
    BY <2>8 DEF Built
  <2>10. fraction' = fraction /\ weights' = weights /\ raw = << >>
    BY <1>1 DEF BuildExecutionTarget
  <2>11. ~Arguments
    <3> SUFFICES ASSUME raw \in Raws(Sleeves) PROVE FALSE
      BY DEF Arguments, Built, Scaled
    <3>1. DOMAIN raw = 1 .. Sleeves /\ DOMAIN raw = {}
      BY <2>10 DEF Raws
    <3> QED
      BY <3>1, Scales
  <2> QED
    BY <2>2, <2>9, <2>10, <2>11 DEF TargetInv
<1>2. CASE Submit
  <2>1. Built
    BY <1>2 DEF Submit, TargetInv
  <2>2. Books' /\ Built'
    BY <1>2, <2>1 DEF Submit, TargetInv, Books, Built, Scaled
  <2>3. Arguments'
    BY <1>2, <2>2 DEF Submit, Arguments
  <2> QED
    BY <2>2, <2>3 DEF TargetInv
<1>3. CASE UNCHANGED vars
  BY <1>3 DEF vars, TargetInv, Books, Built, Scaled, Arguments
<1> QED
  BY <1>1, <1>2, <1>3 DEF Next

LEMMA TargetCorrect == Spec => []TargetInv
BY TargetInit, TargetStep, PTL DEF Spec

(***************************************************************************)
(* The type of the arguments.                                              *)
(***************************************************************************)
LEMMA FractionRounds ==
    ASSUME NEW s \in 1 .. Grain
    PROVE  LET f == RoundedShare(s, Grain, TotalBps)
           IN  /\ f \in 0 .. TotalBps
               /\ 2 * (Grain * f - TotalBps * s) <= Grain
               /\ -Grain < 2 * (Grain * f - TotalBps * s)
<1>1. PICK a \in Nat : a = 2 * s * TotalBps + Grain
  BY Scales
<1>2. PICK b \in Nat \ {0} : b = 2 * Grain
  BY Scales
<1>3. PICK f \in Nat : f = a \div b
  BY DivMod
<1>4. PICK m \in 0 .. (b - 1) : m = a % b
  BY DivMod
<1>5. a = b * f + m
  BY <1>3, <1>4, DivMod
<1>6. 2 * s * TotalBps + Grain = 2 * Grain * f + m /\ 0 <= m /\ m <= 2 * Grain - 1
  BY <1>1, <1>2, <1>4, <1>5, Scales
<1>7. s * TotalBps <= Grain * TotalBps
  BY Scales
<1>8. f <= TotalBps
  <2> SUFFICES ASSUME f >= TotalBps + 1 PROVE FALSE
    BY Scales
  <2>1. Grain * f >= Grain * (TotalBps + 1)
    BY Scales
  <2>2. Grain * (TotalBps + 1) = Grain * TotalBps + Grain
    BY Scales
  <2> QED
    BY <1>6, <1>7, <2>1, <2>2, Scales
<1>9. f = RoundedShare(s, Grain, TotalBps)
  BY <1>1, <1>2, <1>3 DEF RoundedShare
<1>10. 2 * (Grain * f - TotalBps * s) <= Grain /\ -Grain < 2 * (Grain * f - TotalBps * s)
  <2>1. 2 * (Grain * f - TotalBps * s) = 2 * Grain * f - 2 * s * TotalBps
    BY Scales
  <2> QED
    BY <1>6, <2>1, Scales
<1> QED
  BY <1>8, <1>9, <1>10, Scales

LEMMA MulAtMost ==
    ASSUME NEW a \in Int, NEW b \in Int, NEW c \in Nat, a <= b
    PROVE  a * c <= b * c
OBVIOUS

(* A scaled weight is a mean of two weights, give or take one unit.        *)
LEMMA ScaledWithin ==
    ASSUME Books, NEW noise, Scaled(noise), NEW i \in 1 .. Sleeves
    PROVE  /\ raw[i] \in Nat
           /\ raw[i] <= Grain * Whole + 1
           /\ raw[i] \div Unit <= TotalBps
<1>1. PICK c \in 0 .. Whole, t \in 0 .. Whole, e \in -1 .. 1 :
          c = current[i] /\ t = target[i] /\ e = noise[i]
  BY DEF Books, Scaled
<1>2. PICK r \in Nat : r = raw[i]
  BY DEF Scaled, Raws
<1>3. share \in 1 .. Grain /\ r = Grain * c + share * (t - c) + e
  BY <1>1, <1>2 DEF Books, Scaled
<1>4. r <= Grain * Whole + 1
  <2>1. c * (Grain - share) <= Whole * (Grain - share)
    BY <1>1, <1>3, Scales, MulAtMost
  <2>2. t * share <= Whole * share
    BY <1>1, <1>3, Scales, MulAtMost
  <2>3. Grain * c + share * (t - c) = c * (Grain - share) + t * share
    BY <1>1, <1>3, Scales
  <2>4. Grain * Whole = Whole * (Grain - share) + Whole * share
    BY <1>3, Scales
  <2> QED
    BY <1>1, <1>3, <2>1, <2>2, <2>3, <2>4, Scales
<1>5. PICK q \in Nat : q = r \div Unit
  BY Scales, DivMod
<1>6. PICK m \in 0 .. (Unit - 1) : m = r % Unit
  BY Scales, DivMod
<1>7. r = Unit * q + m
  BY <1>5, <1>6, Scales, DivMod
<1>8. q <= TotalBps
  <2> SUFFICES ASSUME q >= TotalBps + 1 PROVE FALSE
    BY Scales
  <2>1. Unit > 1
    <3>1. Fine * Grain >= Fine
      BY Scales
    <3> QED
      BY <3>1, Scales, NoiseAssumption DEF Unit
  <2>2. Unit * q >= Unit * (TotalBps + 1)
    BY Scales, MulAtMost
  <2>3. Unit * (TotalBps + 1) = Unit * TotalBps + Unit
    BY Scales
  <2> QED
    BY <1>4, <1>7, <2>1, <2>2, <2>3, Scales
<1> QED
  BY <1>2, <1>4, <1>5, <1>8

LEMMA TargetTypes == TargetInv => TypeOK
<1> SUFFICES ASSUME TargetInv PROVE TypeOK
  OBVIOUS
<1>1. Books /\ (raw = << >> \/ raw \in [1 .. Sleeves -> Nat])
  BY DEF TargetInv, Built, Scaled, Raws
<1>2. fraction \in 0 .. TotalBps /\ (weights = << >> \/ weights \in [1 .. Sleeves -> 0 .. TotalBps])
  <2>1. CASE fraction = 0 /\ weights = << >>
    BY <2>1, Scales
  <2>2. CASE Arguments
    <3>1. fraction \in 0 .. TotalBps
      BY <1>1, <2>2, FractionRounds DEF Arguments, Books
    <3>2. PICK noise : Scaled(noise)
      BY <2>2 DEF Arguments, Built
    <3>3. raw \in Raws(Sleeves) /\ \A i \in 1 .. Sleeves : raw[i] \div Unit <= TotalBps
      BY <1>1, <3>2, ScaledWithin DEF Scaled
    <3>4. ToBpsAllocation(raw, TotalBps, Unit) \in [1 .. Sleeves -> 0 .. TotalBps]
      BY <3>3, Scales, AllocationWithin
    <3> QED
      BY <2>2, <3>1, <3>4 DEF Arguments
  <2> QED
    BY <2>1, <2>2 DEF TargetInv
<1> QED
  BY <1>1, <1>2 DEF Books, TypeOK

(* What is submitted fits the arguments of the contracts: a fraction and   *)
(* weights between 0 and the whole (council.ts, buildExecutionTarget;      *)
(* casperClient.ts, fractionToBps and toBpsAllocation).                    *)
THEOREM TargetTypeCorrect == Spec => []TypeOK
BY TargetCorrect, TargetTypes, PTL

(***************************************************************************)
(* The sum of the weights.                                                 *)
(***************************************************************************)
LEMMA RawSum ==
    ASSUME Books, NEW noise, Scaled(noise)
    PROVE  /\ SumOf(current) \in Int /\ SumOf(raw) \in Int
           /\ SumOf(raw) - Grain * Whole - (Grain - share) * (SumOf(current) - Whole)
                  \in -Sleeves .. Sleeves
<1>1. PICK D : D = 1 .. Sleeves
  OBVIOUS
<1>2. IsFiniteSet(D) /\ Cardinality(D) = Sleeves
  BY <1>1, FS_Interval, Scales
<1>3. PICK f \in [D -> Int] : f = current
  BY <1>1 DEF Books
<1>4. PICK g \in [D -> Int] : g = target
  BY <1>1 DEF Books
<1>5. PICK e \in [D -> Int] : e = noise
  BY <1>1 DEF Scaled
<1>6. PICK a \in Int, b \in Int : a = Grain - share /\ b = share
  BY Scales DEF Books
<1>7. PICK k : k = [x \in D |-> a * f[x] + b * g[x]]
  OBVIOUS
<1>8. SumOf(k) = a * SumOf(f) + b * SumOf(g)
  <2> HIDE <1>3, <1>4, <1>6
  <2> QED
    BY <1>2, <1>7, SumCombined
<1>9. k \in [D -> Int]
  BY <1>7
<1>10. raw = [x \in D |-> k[x] + e[x]]
  <2>1. ASSUME NEW x \in D PROVE raw[x] = k[x] + e[x]
    <3>1. raw[x] = Grain * f[x] + share * (g[x] - f[x]) + e[x]
      BY <1>1, <1>3, <1>4, <1>5 DEF Scaled
    <3>2. PICK u \in Int, v \in Int, w \in Int : u = f[x] /\ v = g[x] /\ w = e[x]
      OBVIOUS
    <3>3. k[x] = a * u + b * v
      BY <1>7, <3>2
    <3>4. Grain * u + share * (v - u) = (Grain - share) * u + share * v
      BY Scales DEF Books
    <3> QED
      BY <1>6, <3>1, <3>2, <3>3, <3>4
  <2> QED
    BY <1>1, <2>1 DEF Scaled, Raws
<1>11. SumOf(raw) = SumOf(k) + SumOf(e)
  <2>1. PICK s : s = raw
    OBVIOUS
  <2>2. s = [x \in D |-> k[x] + e[x]]
    BY <1>10, <2>1
  <2>3. SumOf(s) = SumOf(k) + SumOf(e)
    BY <1>2, <1>9, <2>2, SumAdded
  <2> QED
    BY <2>1, <2>3
<1>12. SumOf(f) \in Int /\ SumOf(e) \in Int
  BY <1>2, SumInt
<1>13. -Sleeves <= SumOf(e) /\ SumOf(e) <= Sleeves
  <2>1. PICK low \in Int, high \in Int : low = -1 /\ high = 1
    OBVIOUS
  <2>2. \A x \in D : low <= e[x] /\ e[x] <= high
    BY <1>1, <1>5, <2>1 DEF Scaled
  <2>3. low * Cardinality(D) <= SumOf(e) /\ SumOf(e) <= high * Cardinality(D)
    BY <1>2, <2>2, SumWithin
  <2> QED
    BY <1>2, <2>1, <2>3, Scales
<1>13a. PICK s : s = SumOf(raw)
  OBVIOUS
<1>14. PICK c \in Int, d \in Int : c = SumOf(f) /\ d = SumOf(e)
  BY <1>12
<1>15. SumOf(g) = Whole
  BY <1>4 DEF Books
<1>16. s = (Grain - share) * c + share * Whole + d
  BY <1>6, <1>8, <1>11, <1>13a, <1>14, <1>15
<1>17. s - Grain * Whole - (Grain - share) * (c - Whole) = d /\ s \in Int
  BY <1>16, Scales DEF Books
<1> QED
  BY <1>3, <1>12, <1>13, <1>13a, <1>14, <1>17, Scales

LEMMA SumsToTotal ==
    ASSUME Books, Built, Abs(SumOf(current) - Whole) < Fine
    PROVE  SumOf(ToBpsAllocation(raw, TotalBps, Unit)) = TotalBps
<1>1. PICK noise : Scaled(noise)
  BY DEF Built
<1>2. raw \in Raws(Sleeves)
  BY <1>1 DEF Scaled
<1>3. PICK x \in Int : x = SumOf(current) - Whole
  BY <1>1, RawSum, Scales
<1>4. PICK d \in -Sleeves .. Sleeves :
          d = SumOf(raw) - Grain * Whole - (Grain - share) * (SumOf(current) - Whole)
  BY <1>1, RawSum
<1>5. PICK s \in Int : s = SumOf(raw)
  BY <1>1, RawSum
<1>6. PICK k \in 0 .. (Grain - 1) : k = Grain - share
  BY Scales DEF Books
<1>7. s - Grain * Whole = k * x + d
  <2>1. d = s - Grain * Whole - k * x
    BY <1>3, <1>4, <1>5, <1>6
  <2>2. k * x \in Int /\ Grain * Whole \in Int
    BY Scales
  <2> QED
    BY <2>1, <2>2, Scales
<1>8. -(Fine - 1) <= x /\ x <= Fine - 1
  BY <1>3, Scales DEF Abs
<1>9. k * x <= (Grain - 1) * (Fine - 1) /\ -((Grain - 1) * (Fine - 1)) <= k * x
  <2>1. x * k <= (Fine - 1) * k /\ (-(Fine - 1)) * k <= x * k
    BY <1>8, Scales, MulAtMost
  <2>2. k * (Fine - 1) <= (Grain - 1) * (Fine - 1)
    BY Scales, MulAtMost
  <2>3. (-(Fine - 1)) * k = -(k * (Fine - 1)) /\ (Fine - 1) * k = k * (Fine - 1) /\ x * k = k * x
    BY Scales
  <2> QED
    BY <2>1, <2>2, <2>3, Scales
<1>10. (Grain - 1) * (Fine - 1) + Sleeves < Unit
  <2>1. (Grain - 1) * (Fine - 1) = Unit - Grain - Fine + 1
    BY Scales DEF Unit
  <2> QED
    BY <2>1, Scales, NoiseAssumption
<1>11. s - Unit * TotalBps < Unit /\ Unit * TotalBps - s < Unit
  <2>1. PICK y \in Int, z \in Int, w \in Int :
            y = k * x /\ z = (Grain - 1) * (Fine - 1) /\ w = Unit * TotalBps
    BY Scales
  <2>2. y <= z /\ -z <= y /\ s - w = y + d /\ z + Sleeves < Unit
    BY <1>7, <1>9, <1>10, <2>1, Scales
  <2>3. s - w < Unit /\ w - s < Unit
    BY <2>2, Scales
  <2> QED
    BY <2>1, <2>3
<1>12. Missing(raw, TotalBps, Unit) \in 0 .. Sleeves
  BY <1>2, <1>5, <1>11, Scales, MissingBound
<1> QED
  BY <1>2, <1>12, Scales, AllocationSums

(* The weights sum exactly to the whole, whatever the rounding errors of   *)
(* the doubles did, as long as the current weights sum to the whole to     *)
(* less than one basis point (casperClient.ts, toBpsAllocation): the       *)
(* largest remainder method hands out what the floors left.                *)
THEOREM SumCorrect == Spec => []SumIsExact
<1>1. TargetInv => SumIsExact
  <2> SUFFICES ASSUME TargetInv, weights # << >>, Abs(SumOf(current) - Whole) < Fine
               PROVE  SumOf(weights) = TotalBps
    BY DEF SumIsExact, Submitted
  <2>1. Books /\ Arguments
    BY DEF TargetInv
  <2> QED
    BY <2>1, SumsToTotal DEF Arguments
<1> QED
  BY <1>1, TargetCorrect, PTL

(* The conversion never turns the order of two sleeves around              *)
(* (casperClient.ts, toBpsAllocation).                                     *)
THEOREM OrderCorrect == Spec => []OrderIsKept
<1>1. TargetInv => OrderIsKept
  <2> SUFFICES ASSUME TargetInv, weights # << >>, NEW i \in 1 .. Sleeves, NEW j \in 1 .. Sleeves,
                      raw[i] > raw[j]
               PROVE  weights[i] >= weights[j]
    BY DEF OrderIsKept, Submitted
  <2>1. raw \in Raws(Sleeves) /\ weights = ToBpsAllocation(raw, TotalBps, Unit)
    BY DEF TargetInv, Arguments, Built, Scaled
  <2> QED
    BY <2>1, Scales, AllocationKeepsOrder
<1> QED
  BY <1>1, TargetCorrect, PTL

(***************************************************************************)
(* The move of a sleeve, against the recorded fraction of the proposal.    *)
(***************************************************************************)
LEMMA SignedAtMost ==
    ASSUME NEW x \in Int, NEW y \in Int, NEW a \in Nat, NEW b \in Nat,
           -a <= x, x <= a, -b <= y, y <= b
    PROVE  -(a * b) <= x * y /\ x * y <= a * b
<1>1. CASE y >= 0
  <2>1. x * y <= a * y /\ (-a) * y <= x * y
    BY <1>1, MulAtMost
  <2>2. y * a <= b * a
    BY MulAtMost
  <2>3. a * y = y * a /\ b * a = a * b /\ (-a) * y = -(y * a)
    OBVIOUS
  <2> QED
    BY <2>1, <2>2, <2>3
<1>2. CASE y <= 0
  <2>1. PICK z \in Nat : z = -y
    BY <1>2
  <2>2. x * z <= a * z /\ (-a) * z <= x * z
    BY MulAtMost
  <2>3. z * a <= b * a
    BY <2>1, MulAtMost
  <2>4. a * z = z * a /\ b * a = a * b /\ (-a) * z = -(z * a) /\ x * y = -(x * z)
    BY <2>1
  <2> QED
    BY <2>2, <2>3, <2>4
<1> QED
  BY <1>1, <1>2

(* A weight misses the scaled one by less than a basis point downwards,    *)
(* and by at most one upwards, when nothing was rounded away.              *)
Near(v, a, unit) ==
    /\ v \in Nat
    /\ -unit < unit * v - a /\ unit * v - a <= unit
    /\ unit * v - a = unit => \E q \in Nat : a = unit * q

LEMMA WeightMisses ==
    ASSUME NEW n \in Nat, NEW r \in Raws(n), NEW unit \in Nat \ {0}, NEW total \in Nat,
           NEW i \in 1 .. n, NEW v, v = ToBpsAllocation(r, total, unit)[i]
    PROVE  Near(v, r[i], unit)
<1>1. PICK a \in Nat : a = r[i]
  BY DEF Raws
<1>2. PICK q \in Nat : q = a \div unit
  BY DivMod
<1>3. PICK m \in 0 .. (unit - 1) : m = a % unit
  BY DivMod
<1>4. a = unit * q + m
  BY <1>2, <1>3, DivMod
<1>5. PICK d \in 0 .. 1 : ToBpsAllocation(r, total, unit)[i] = q + d
  <2>1. PICK b : b = Missing(r, total, unit)
    OBVIOUS
  <2>2. ToBpsAllocation(r, total, unit) =
            [k \in 1 .. n |-> Floors(r, unit)[k] +
                 (IF Rank(r, unit, k) < Missing(r, total, unit) THEN 1 ELSE 0)]
    BY AllocationIs
  <2>3. ToBpsAllocation(r, total, unit)[i] =
            Floors(r, unit)[i] + (IF Rank(r, unit, i) < b THEN 1 ELSE 0)
    BY <2>1, <2>2
  <2>4. Floors(r, unit)[i] = q
    BY <1>1, <1>2 DEF Floors, Raws
  <2>5. CASE Rank(r, unit, i) < b
    BY <2>3, <2>4, <2>5
  <2>6. CASE ~(Rank(r, unit, i) < b)
    BY <2>3, <2>4, <2>6
  <2> QED
    BY <2>5, <2>6
<1>6. PICK w \in Nat : w = q + d /\ w = ToBpsAllocation(r, total, unit)[i]
  BY <1>5
<1>7. unit * w = unit * q + unit * d /\ (d = 0 \/ d = 1)
  BY <1>6
<1>8. unit * w - a = unit * d - m
  BY <1>4, <1>7
<1>9. -unit < unit * w - a /\ unit * w - a <= unit /\ (unit * w - a = unit => m = 0)
  BY <1>7, <1>8
<1>10. m = 0 => a = unit * q
  BY <1>4
<1> QED
  BY <1>1, <1>6, <1>9, <1>10 DEF Near

LEMMA FineDoesNotDivideOne ==
    ASSUME NEW x \in Int PROVE Fine * x # 1
<1>1. Fine \in Nat /\ Fine > 1
  BY Scales, NoiseAssumption
<1>2. CASE x <= 0
  <2>1. x * Fine <= 0 * Fine
    BY <1>1, <1>2, MulAtMost
  <2> QED
    BY <1>1, <2>1
<1>3. CASE x >= 1
  <2>1. 1 * Fine <= x * Fine
    BY <1>1, <1>3, MulAtMost
  <2> QED
    BY <1>1, <2>1
<1> QED
  BY <1>2, <1>3

(* Moving everything in or out of a sleeve, an error of the doubles leaves *)
(* a fractional part.                                                      *)
LEMMA WholeMove ==
    ASSUME NEW c \in 0 .. Whole, NEW t \in 0 .. Whole, NEW r \in Nat, NEW q \in Nat,
           t - c = Whole \/ c - t = Whole, share \in 1 .. Grain,
           r = Grain * c + share * (t - c) + 1, r = Unit * q
    PROVE  FALSE
<1>0. share \in Int /\ Grain \in Int /\ Fine \in Int /\ TotalBps \in Int
  BY Scales
<1>1. Unit * q = Fine * (Grain * q)
  BY <1>0 DEF Unit
<1>2. CASE t - c = Whole
  <2>1. c = 0 /\ t - c = TotalBps * Fine
    BY <1>2, Scales DEF Whole
  <2>2. Fine * (Grain * q - share * TotalBps) = 1
    <3>1. share * (TotalBps * Fine) = Fine * (share * TotalBps)
      BY <1>0
    <3>2. r = Fine * (share * TotalBps) + 1
      BY <1>0, <2>1, <3>1
    <3>3. Fine * (Grain * q - share * TotalBps) = Fine * (Grain * q) - Fine * (share * TotalBps)
      BY <1>0
    <3> QED
      BY <1>0, <1>1, <3>2, <3>3
  <2>3. Grain * q - share * TotalBps \in Int
    BY <1>0
  <2> QED
    BY <2>2, <2>3, FineDoesNotDivideOne
<1>3. CASE c - t = Whole
  <2>1. t = 0 /\ c = TotalBps * Fine /\ t - c = -(TotalBps * Fine)
    BY <1>3, Scales DEF Whole
  <2>2. Fine * (Grain * q - (Grain - share) * TotalBps) = 1
    <3>1. Grain * (TotalBps * Fine) + share * (-(TotalBps * Fine)) = Fine * ((Grain - share) * TotalBps)
      BY <1>0
    <3>2. r = Fine * ((Grain - share) * TotalBps) + 1
      BY <1>0, <2>1, <3>1
    <3>3. Fine * (Grain * q - (Grain - share) * TotalBps)
              = Fine * (Grain * q) - Fine * ((Grain - share) * TotalBps)
      BY <1>0
    <3> QED
      BY <1>0, <1>1, <3>2, <3>3
  <2>3. Grain * q - (Grain - share) * TotalBps \in Int
    BY <1>0
  <2> QED
    BY <2>2, <2>3, FineDoesNotDivideOne
<1> QED
  BY <1>2, <1>3

LEMMA MoveMatches ==
    ASSUME Books, Arguments, NEW i \in 1 .. Sleeves
    PROVE  LET proposed == target[i] - current[i]
               moved    == weights[i] * Fine - current[i]
               slack    == TotalBps * (Unit + 1)
           IN  2 * Abs(Grain * TotalBps * moved - Grain * fraction * proposed)
                   < 2 * slack + Grain * Whole
<1>1. PICK noise : Scaled(noise)
  BY DEF Arguments, Built
<1>2. PICK c \in 0 .. Whole, t \in 0 .. Whole, e \in -1 .. 1 :
          c = current[i] /\ t = target[i] /\ e = noise[i]
  BY <1>1 DEF Books, Scaled
<1>3. PICK r \in Nat : r = raw[i]
  BY <1>1 DEF Scaled, Raws
<1>4. share \in 1 .. Grain /\ r = Grain * c + share * (t - c) + e
  BY <1>1, <1>2, <1>3 DEF Books, Scaled
<1>5. PICK w \in Nat : w = weights[i]
  BY <1>1, Scales, WeightMisses DEF Arguments, Scaled, Near
<1>6. PICK d \in Int : d = Unit * w - r
  BY Scales
<1>7. -Unit < d /\ d <= Unit /\ (d = Unit => \E q \in Nat : r = Unit * q)
  <2>1. raw \in Raws(Sleeves) /\ weights = ToBpsAllocation(raw, TotalBps, Unit)
    BY <1>1 DEF Arguments, Scaled
  <2>2. Near(weights[i], raw[i], Unit)
    BY <2>1, Scales, WeightMisses
  <2> QED
    BY <1>3, <1>5, <1>6, <2>2 DEF Near
<1>8. PICK f \in Nat : f = fraction
  BY <1>4, FractionRounds DEF Arguments
<1>9. PICK rho \in Int : rho = Grain * f - TotalBps * share
  BY <1>4, Scales
<1>10. -Grain <= 2 * rho /\ 2 * rho <= Grain
  BY <1>4, <1>8, <1>9, Scales, FractionRounds DEF Arguments
<1>11. PICK p \in Int : p = t - c
  BY Scales
<1>12. -Whole <= p /\ p <= Whole
  BY <1>2, <1>11, Scales
<1>13. PICK x \in Int : x = Grain * TotalBps * (w * Fine - c) - Grain * f * p
  BY Scales
<1>14. x = TotalBps * (e + d) - rho * p
  <2>0. share \in Int /\ Grain \in Int /\ Fine \in Int /\ TotalBps \in Int
    BY <1>4, Scales
  <2>1. Grain * (w * Fine - c) = share * p + e + d
    <3>1. Grain * (w * Fine - c) = Unit * w - Grain * c
      BY <2>0 DEF Unit
    <3>2. PICK k \in Int, g \in Int, h \in Int : k = Unit * w /\ g = Grain * c /\ h = share * p
      BY <2>0, Scales
    <3>3. d = k - r /\ r = g + h + e
      BY <1>4, <1>6, <1>11, <3>2
    <3>4. k - g = h + e + d
      BY <3>3
    <3> QED
      BY <3>1, <3>2, <3>4
  <2>2. Grain * TotalBps * (w * Fine - c) = TotalBps * (Grain * (w * Fine - c))
    BY <2>0
  <2>3. PICK y \in Int : y = e + d
    OBVIOUS
  <2>4. x = TotalBps * (share * p + y) - Grain * f * p
    BY <1>13, <2>0, <2>1, <2>2, <2>3
  <2>5. TotalBps * (share * p + y) - Grain * f * p = TotalBps * y - (Grain * f - TotalBps * share) * p
    BY <2>0
  <2> QED
    BY <1>9, <2>3, <2>4, <2>5
<1>15. 2 * (TotalBps * (e + d)) <= 2 * (TotalBps * (Unit + 1))
       /\ -(2 * (TotalBps * Unit)) <= 2 * (TotalBps * (e + d))
  <2>1. PICK y \in Int : y = e + d
    OBVIOUS
  <2>2. y <= Unit + 1 /\ -Unit <= y
    BY <1>7, <2>1, Scales
  <2>3. y * TotalBps <= (Unit + 1) * TotalBps /\ (-Unit) * TotalBps <= y * TotalBps
    BY <2>2, Scales, MulAtMost
  <2>4. (-Unit) * TotalBps = -(TotalBps * Unit) /\ y * TotalBps = TotalBps * y
        /\ (Unit + 1) * TotalBps = TotalBps * (Unit + 1)
    BY Scales
  <2> QED
    BY <2>1, <2>3, <2>4, Scales
<1>16. -(Grain * Whole) <= 2 * (rho * p) /\ 2 * (rho * p) <= Grain * Whole
  <2>1. PICK z \in Int : z = 2 * rho
    OBVIOUS
  <2>2. -(Grain * Whole) <= z * p /\ z * p <= Grain * Whole
    BY <1>10, <1>12, <2>1, Scales, SignedAtMost
  <2> QED
    BY <2>1, <2>2
<1>17. TotalBps * (Unit + 1) = TotalBps * Unit + TotalBps
  BY Scales
<1>18. 2 * x < 2 * (TotalBps * (Unit + 1)) + Grain * Whole
       /\ -(2 * x) < 2 * (TotalBps * (Unit + 1)) + Grain * Whole
  <2>1. -(2 * x) < 2 * (TotalBps * (Unit + 1)) + Grain * Whole
    <3>1. PICK u \in Int, v \in Int, k \in Int, g \in Int :
              u = TotalBps * (e + d) /\ v = rho * p /\ k = TotalBps * Unit /\ g = Grain * Whole
      BY Scales
    <3>2. -(2 * k) <= 2 * u /\ 2 * v <= g /\ x = u - v
      BY <1>14, <1>15, <1>16, <3>1
    <3> QED
      BY <1>17, <3>1, <3>2, Scales
  <2>2. CASE e + d <= Unit
    <3>1. PICK u \in Int, v \in Int, k \in Int, g \in Int :
              u = TotalBps * (e + d) /\ v = rho * p /\ k = TotalBps * Unit /\ g = Grain * Whole
      BY Scales
    <3>2. u <= k
      <4>1. PICK y \in Int : y = e + d
        OBVIOUS
      <4>2. y * TotalBps <= Unit * TotalBps
        BY <2>2, <4>1, Scales, MulAtMost
      <4> QED
        BY <3>1, <4>1, <4>2, Scales
    <3>3. -g <= 2 * v /\ x = u - v
      BY <1>14, <1>16, <3>1
    <3>4. 2 * x < 2 * (TotalBps * (Unit + 1)) + Grain * Whole
      BY <1>17, <3>1, <3>2, <3>3, Scales
    <3> QED
      BY <2>1, <3>4
  <2>3. CASE e + d > Unit
    <3>1. e = 1 /\ d = Unit
      BY <1>7, <2>3, Scales
    <3>2. PICK q \in Nat : r = Unit * q
      BY <1>7, <3>1
    <3>3. p # Whole /\ p # -Whole
      <4>1. r = Grain * c + share * (t - c) + 1
        BY <1>4, <3>1
      <4>2. ~(t - c = Whole \/ c - t = Whole)
        BY <1>4, <3>2, <4>1, WholeMove
      <4>3. t \in Int /\ c \in Int /\ Whole \in Int
        BY Scales
      <4> QED
        BY <1>11, <4>2, <4>3
    <3>4. -(Whole - 1) <= p /\ p <= Whole - 1
      BY <1>12, <3>3, Scales
    <3>5. PICK z \in Int : z = 2 * rho
      OBVIOUS
    <3>6. -(Grain * (Whole - 1)) <= z * p
      BY <1>10, <3>4, <3>5, Scales, SignedAtMost
    <3>7. Grain * (Whole - 1) = Grain * Whole - Grain
      BY Scales
    <3>8. PICK u \in Int, v \in Int, k \in Int, g \in Int :
              u = TotalBps * (e + d) /\ v = rho * p /\ k = TotalBps * (Unit + 1) /\ g = Grain * Whole
      BY Scales
    <3>9. 2 * u <= 2 * k /\ x = u - v /\ 2 * v >= -(g - Grain)
      BY <1>14, <1>15, <3>5, <3>6, <3>7, <3>8, Scales
    <3>10. 2 * x < 2 * (TotalBps * (Unit + 1)) + Grain * Whole
      BY <3>8, <3>9, Scales
    <3> QED
      BY <2>1, <3>10
  <2> QED
    BY <2>2, <2>3, Scales
<1>19. 2 * Abs(x) < 2 * (TotalBps * (Unit + 1)) + Grain * Whole
  BY <1>18 DEF Abs
<1> QED
  BY <1>2, <1>5, <1>8, <1>11, <1>13, <1>19

(* The move that reallocate is given, sleeve by sleeve, is the recorded    *)
(* fraction of the proposed one, to less than one and a half basis points  *)
(* and the error of the doubles, although the fraction and the weights     *)
(* were rounded apart (casperClient.ts, fractionToBps and                  *)
(* toBpsAllocation).                                                       *)
THEOREM MoveCorrect == Spec => []MoveMatchesRecord
<1>1. TargetInv => MoveMatchesRecord
  <2> SUFFICES ASSUME TargetInv, weights # << >> PROVE MoveMatchesRecord
    BY DEF MoveMatchesRecord, Submitted
  <2>1. Books /\ Arguments
    BY DEF TargetInv
  <2> QED
    BY <2>1, MoveMatches DEF MoveMatchesRecord
<1> QED
  BY <1>1, TargetCorrect, PTL
=============================================================================
