---------------------------- MODULE ScoreTheorems ----------------------------
(***************************************************************************)
(* What the arithmetic of goals (GoalAchievement) and of results           *)
(* (ResultScores) computes, for every number of key results, goals,        *)
(* competencies and evaluators: percentages stay percentages, means lie    *)
(* between their terms, and shares sum to the whole.                       *)
(***************************************************************************)
EXTENDS ResultScores, SumTheorems

-----------------------------------------------------------------------------
(* Multiplication and rounding.                                            *)
LEMMA TimesGrows ==
    ASSUME NEW a \in Int, NEW b \in Int, NEW c \in Nat, a <= b
    PROVE  c * a <= c * b /\ a * c <= b * c
OBVIOUS

LEMMA TimesCancels ==
    ASSUME NEW a \in Int, NEW b \in Int, NEW c \in Nat \ {0}, c * a <= c * b
    PROVE  a <= b
OBVIOUS

LEMMA DivFacts ==
    ASSUME NEW a \in Int, NEW b \in Nat \ {0}
    PROVE  a \div b \in Int /\ b * (a \div b) <= a /\ a < b * (a \div b) + b
OBVIOUS

(* A rounded quotient is within a half of the quotient.                    *)
LEMMA RoundFacts ==
    ASSUME NEW n \in Int, NEW d \in Nat \ {0}
    PROVE  /\ RoundDiv(n, d) \in Int
           /\ 2 * (d * RoundDiv(n, d)) <= 2 * n + d
           /\ 2 * n + d < 2 * (d * RoundDiv(n, d)) + 2 * d
<1> DEFINE q == (2 * n + d) \div (2 * d)
<1>1. 2 * n + d \in Int /\ 2 * d \in Nat \ {0}
      OBVIOUS
<1>2. q \in Int /\ (2 * d) * q <= 2 * n + d /\ 2 * n + d < (2 * d) * q + 2 * d
      BY <1>1, DivFacts
<1> HIDE DEF q
<1>3. (2 * d) * q = 2 * (d * q)
      BY <1>2
<1>4. q \in Int /\ 2 * (d * q) <= 2 * n + d /\ 2 * n + d < 2 * (d * q) + 2 * d
      BY <1>2, <1>3
<1> QED BY <1>4 DEF RoundDiv, q

(* It does not pass a bound of the quotient that is a number.              *)
LEMMA RoundAtLeast ==
    ASSUME NEW n \in Int, NEW d \in Nat \ {0}, NEW c \in Int, c * d <= n
    PROVE  RoundDiv(n, d) \in Int /\ c <= RoundDiv(n, d)
<1> DEFINE q == RoundDiv(n, d)
<1>1. q \in Int /\ 2 * n + d < 2 * (d * q) + 2 * d
      BY RoundFacts
<1> HIDE DEF q
<1>2. ASSUME q + 1 <= c PROVE FALSE
      <2>1. d * (q + 1) <= d * c
            BY <1>1, <1>2, TimesGrows
      <2>2. d * (q + 1) = d * q + d /\ d * c = c * d /\ d * q \in Int /\ c * d \in Int
            BY <1>1
      <2> QED BY <1>1, <2>1, <2>2
<1> QED BY <1>1, <1>2 DEF q

LEMMA RoundAtMost ==
    ASSUME NEW n \in Int, NEW d \in Nat \ {0}, NEW c \in Int, n <= c * d
    PROVE  RoundDiv(n, d) \in Int /\ RoundDiv(n, d) <= c
<1> DEFINE q == RoundDiv(n, d)
<1>1. q \in Int /\ 2 * (d * q) <= 2 * n + d
      BY RoundFacts
<1> HIDE DEF q
<1>2. ASSUME c + 1 <= q PROVE FALSE
      <2>1. d * (c + 1) <= d * q
            BY <1>1, <1>2, TimesGrows
      <2>2. d * (c + 1) = c * d + d /\ d * q \in Int /\ c * d \in Int
            BY <1>1
      <2> QED BY <1>1, <2>1, <2>2
<1> QED BY <1>1, <1>2 DEF q

-----------------------------------------------------------------------------
(* Weighted sums: g sums the terms p, each as often as its weight w says.  *)
Weighing(g, p, w, S) == \A s \in S : g[s] \in Int /\ g[s] = p[s] * w[s]

LEMMA WeighingAtLeast ==
    ASSUME NEW S, IsFiniteSet(S), NEW p, NEW w, NEW g, Weighing(g, p, w, S), NEW lo \in Int,
           \A s \in S : p[s] \in Int /\ lo <= p[s], \A s \in S : w[s] \in Nat
    PROVE  lo * SumFunctionOnSet(w, S) <= SumFunctionOnSet(g, S)
<1> DEFINE least == [s \in S |-> lo * w[s]]
<1>1. ASSUME NEW s \in S PROVE least[s] \in Int /\ g[s] \in Int /\ least[s] <= g[s]
      <2>1. g[s] = p[s] * w[s] /\ p[s] \in Int /\ w[s] \in Nat /\ lo <= p[s] /\ g[s] \in Int
            BY DEF Weighing
      <2>2. lo * w[s] <= p[s] * w[s] /\ lo * w[s] \in Int
            BY <2>1, TimesGrows
      <2> QED BY <2>1, <2>2
<1>2. Scaled(least, lo, w, S)
      BY <1>1 DEF Scaled
<1> HIDE DEF least
<1>3. SumFunctionOnSet(least, S) <= SumFunctionOnSet(g, S)
      BY <1>1, SumAtMost
<1>4. \A s \in S : w[s] \in Int
      OBVIOUS
<1>5. SumFunctionOnSet(least, S) = lo * SumFunctionOnSet(w, S)
      BY <1>2, <1>4, SumTimes
<1> QED BY <1>3, <1>5

LEMMA WeighingAtMost ==
    ASSUME NEW S, IsFiniteSet(S), NEW p, NEW w, NEW g, Weighing(g, p, w, S), NEW hi \in Int,
           \A s \in S : p[s] \in Int /\ p[s] <= hi, \A s \in S : w[s] \in Nat
    PROVE  SumFunctionOnSet(g, S) <= hi * SumFunctionOnSet(w, S)
<1> DEFINE most == [s \in S |-> hi * w[s]]
<1>1. ASSUME NEW s \in S PROVE most[s] \in Int /\ g[s] \in Int /\ g[s] <= most[s]
      <2>1. g[s] = p[s] * w[s] /\ p[s] \in Int /\ w[s] \in Nat /\ p[s] <= hi /\ g[s] \in Int
            BY DEF Weighing
      <2>2. p[s] * w[s] <= hi * w[s] /\ hi * w[s] \in Int
            BY <2>1, TimesGrows
      <2> QED BY <2>1, <2>2
<1>2. Scaled(most, hi, w, S)
      BY <1>1 DEF Scaled
<1> HIDE DEF most
<1>3. SumFunctionOnSet(g, S) <= SumFunctionOnSet(most, S)
      BY <1>1, SumAtMost
<1>4. \A s \in S : w[s] \in Int
      OBVIOUS
<1>5. SumFunctionOnSet(most, S) = hi * SumFunctionOnSet(w, S)
      BY <1>2, <1>4, SumTimes
<1> QED BY <1>3, <1>5

-----------------------------------------------------------------------------
(* Goals.                                                                  *)
LEMMA PercentIsShare ==
    ASSUME NEW n \in Int, NEW d \in Int, d # 0
    PROVE  Percent(n, d) \in Share
<1>1. Whole \in Nat /\ 0 \in Share /\ Whole \in Share
      BY DEF Whole, Share
<1>2. ASSUME NEW x \in Nat, NEW y \in Nat \ {0}, x <= y
      PROVE  RoundDiv(x * Whole, y) \in Share
      <2>1. x * Whole \in Int /\ 0 * y <= x * Whole
            BY <1>1, TimesGrows
      <2>2. x * Whole <= Whole * y
            BY <1>1, <1>2, TimesGrows
      <2>3. RoundDiv(x * Whole, y) \in Int /\ 0 <= RoundDiv(x * Whole, y)
            BY <2>1, RoundAtLeast
      <2>4. RoundDiv(x * Whole, y) <= Whole
            BY <1>1, <2>1, <2>2, RoundAtMost
      <2> QED BY <2>3, <2>4 DEF Share
<1>3. CASE d < 0 /\ n > 0
      BY <1>1, <1>3 DEF Percent
<1>4. CASE d < 0 /\ n <= 0
      <2>1. n < d => Percent(n, d) = Whole
            BY <1>4 DEF Percent
      <2>2. ~(n < d) => -n \in Nat /\ -d \in Nat \ {0} /\ -n <= -d
            BY <1>4
      <2>3. ~(n < d) => Percent(n, d) = RoundDiv(-n * Whole, -d)
            BY <1>4 DEF Percent
      <2> QED BY <1>1, <1>2, <2>1, <2>2, <2>3
<1>5. CASE d > 0 /\ n < 0
      BY <1>1, <1>5 DEF Percent
<1>6. CASE d > 0 /\ n >= 0
      <2>1. n > d => Percent(n, d) = Whole
            BY <1>6 DEF Percent
      <2>2. ~(n > d) => n \in Nat /\ d \in Nat \ {0} /\ n <= d
            BY <1>6
      <2>3. ~(n > d) => Percent(n, d) = RoundDiv(n * Whole, d)
            BY <1>6 DEF Percent
      <2> QED BY <1>1, <1>2, <2>1, <2>2, <2>3
<1> QED BY <1>3, <1>4, <1>5, <1>6

(* Whatever is checked in, the progress of a key result is a percentage.   *)
LEMMA ProgressIsShare ==
    ASSUME NEW m \in Metric, NEW v \in Value
    PROVE  KeyResultProgress(m, v) \in Share
<1> DEFINE current == IF v.kind = "BOOLEAN" THEN m.start ELSE v.value
<1>1. m.start \in Int /\ m.target \in Int /\ current \in Int
      BY DEF Metric, Value
<1>2. 0 \in Share /\ Whole \in Share
      BY DEF Whole, Share
<1>3. m.start # m.target => Percent(current - m.start, m.target - m.start) \in Share
      <2> HIDE DEF current
      <2> QED BY <1>1, PercentIsShare
<1> QED BY <1>2, <1>3 DEF KeyResultProgress

(* The weights counted in the mean of a goal, and their sum.               *)
LEMMA CountedFacts ==
    ASSUME NEW weight, IsFiniteSet(DOMAIN weight), \A k \in DOMAIN weight : weight[k] \in Weight
    PROVE  /\ DOMAIN Counted(weight) = DOMAIN weight
           /\ \A k \in DOMAIN weight : Counted(weight)[k] \in Nat
           /\ SumFunction(Counted(weight)) = SumFunctionOnSet(Counted(weight), DOMAIN weight)
           /\ SumFunction(Counted(weight)) \in Nat
           /\ ~Weighted(weight) => SumFunction(Counted(weight)) = Cardinality(DOMAIN weight)
           /\ Weighted(weight) /\ WeightsReady(weight) => SumFunction(Counted(weight)) = Whole
<1> DEFINE K == DOMAIN weight
           c == Counted(weight)
<1>1. DOMAIN c = K /\ \A k \in K : c[k] \in Nat
      BY DEF Counted, Weight, Share, NoWeight
<1>2. SumFunction(c) = SumFunctionOnSet(c, K)
      BY <1>1 DEF SumFunction
<1>3. SumFunctionOnSet(c, K) \in Nat
      BY <1>1, SumPart
<1>4. CASE ~Weighted(weight)
      <2>1. \A k \in K : c[k] = 1
            BY <1>4 DEF Counted
      <2>2. SumFunctionOnSet(c, K) = Cardinality(K)
            BY <2>1, SumOnes
      <2> QED BY <1>1, <1>2, <1>3, <1>4, <2>2
<1>5. CASE Weighted(weight)
      <2>1. ASSUME WeightsReady(weight) PROVE SumFunctionOnSet(c, K) = Whole
            <3>1. \A k \in K : c[k] \in Int /\ c[k] = weight[k]
                  BY <1>1, <1>5, <2>1 DEF WeightsReady, Counted
            <3>2. SumFunctionOnSet(c, K) = SumFunctionOnSet(weight, K)
                  BY <3>1, SumSame
            <3> QED BY <1>5, <2>1, <3>2 DEF WeightsReady, SumFunction
      <2> QED BY <1>1, <1>2, <1>3, <1>5, <2>1
<1> QED BY <1>4, <1>5

(* The progress of a goal lies between bounds of that of its key results.  *)
LEMMA GoalProgressBounds ==
    ASSUME NEW weight, IsFiniteSet(DOMAIN weight), \A k \in DOMAIN weight : weight[k] \in Weight,
           NEW percent, \A k \in DOMAIN weight : percent[k] \in Int,
           SumFunction(Counted(weight)) # 0
    PROVE  /\ GoalProgress(weight, percent) \in Int
           /\ \A lo \in Int : (\A k \in DOMAIN weight : lo <= percent[k])
                              => lo <= GoalProgress(weight, percent)
           /\ \A hi \in Int : (\A k \in DOMAIN weight : percent[k] <= hi)
                              => GoalProgress(weight, percent) <= hi
<1> DEFINE K == DOMAIN weight
           c == Counted(weight)
           g == [k \in K |-> percent[k] * c[k]]
           total == SumFunctionOnSet(c, K)
           sum   == SumFunctionOnSet(g, K)
<1>1. (\A k \in K : c[k] \in Nat) /\ SumFunction(c) = total /\ total \in Nat \ {0}
      BY CountedFacts
<1>2. SumFunction(g) = sum
      BY DEF SumFunction
<1>3. GoalProgress(weight, percent) = RoundDiv(sum, total)
      BY <1>1, <1>2 DEF GoalProgress
<1>4. Weighing(g, percent, c, K)
      <2>1. \A k \in K : percent[k] * c[k] \in Int
            BY <1>1
      <2> QED BY <2>1 DEF Weighing
<1> HIDE DEF c, g
<1>5. sum \in Int
      <2>1. \A k \in K : g[k] \in Int
            BY <1>4 DEF Weighing
      <2> QED BY <2>1, SumElement
<1>6. ASSUME NEW lo \in Int, \A k \in K : lo <= percent[k] PROVE lo * total <= sum
      BY <1>1, <1>4, <1>6, WeighingAtLeast
<1>7. ASSUME NEW hi \in Int, \A k \in K : percent[k] <= hi PROVE sum <= hi * total
      BY <1>1, <1>4, <1>7, WeighingAtMost
<1> HIDE DEF total, sum
<1>8. ASSUME NEW lo \in Int, lo * total <= sum PROVE lo <= RoundDiv(sum, total)
      BY <1>1, <1>5, <1>8, RoundAtLeast
<1>9. ASSUME NEW hi \in Int, sum <= hi * total PROVE RoundDiv(sum, total) <= hi
      BY <1>1, <1>5, <1>9, RoundAtMost
<1>10. RoundDiv(sum, total) \in Int
      BY <1>1, <1>5, RoundFacts
<1> QED BY <1>3, <1>6, <1>7, <1>8, <1>9, <1>10

LEMMA GoalProgressIsShare ==
    ASSUME NEW weight, IsFiniteSet(DOMAIN weight), \A k \in DOMAIN weight : weight[k] \in Weight,
           NEW percent, \A k \in DOMAIN weight : percent[k] \in Share
    PROVE  GoalProgress(weight, percent) \in Share
<1>1. SumFunction(Counted(weight)) = 0 => GoalProgress(weight, percent) = 0
      BY DEF GoalProgress
<1>2. 0 \in Int /\ Whole \in Int /\ 0 <= Whole
      BY DEF Whole
<1>3. \A k \in DOMAIN weight : percent[k] \in Int /\ 0 <= percent[k] /\ percent[k] <= Whole
      BY <1>2 DEF Share
<1>4. SumFunction(Counted(weight)) # 0 =>
         /\ GoalProgress(weight, percent) \in Int
         /\ 0 <= GoalProgress(weight, percent) /\ GoalProgress(weight, percent) <= Whole
      BY <1>2, <1>3, GoalProgressBounds
<1> QED BY <1>1, <1>2, <1>4 DEF Share

(* With weights that are ready the progress of a goal (calculateGoal-      *)
(* Progress) is neither below nor above that of all its key results.       *)
THEOREM GoalProgressBetween ==
    ASSUME NEW weight, IsFiniteSet(DOMAIN weight), DOMAIN weight # {},
           \A k \in DOMAIN weight : weight[k] \in Weight, WeightsReady(weight),
           NEW percent, \A k \in DOMAIN weight : percent[k] \in Int
    PROVE  /\ \E k \in DOMAIN weight : percent[k] <= GoalProgress(weight, percent)
           /\ \E k \in DOMAIN weight : percent[k] >= GoalProgress(weight, percent)
<1> DEFINE a == GoalProgress(weight, percent)
<1>1. SumFunction(Counted(weight)) # 0
      <2>1. Cardinality(DOMAIN weight) # 0
            BY FS_EmptySet
      <2> QED BY <2>1, CountedFacts DEF Whole
<1>2. /\ a \in Int
      /\ \A lo \in Int : (\A k \in DOMAIN weight : lo <= percent[k]) => lo <= a
      /\ \A hi \in Int : (\A k \in DOMAIN weight : percent[k] <= hi) => a <= hi
      BY <1>1, GoalProgressBounds
<1> HIDE DEF a
<1>3. ASSUME \A k \in DOMAIN weight : ~(percent[k] <= a) PROVE FALSE
      <2>1. \A k \in DOMAIN weight : a + 1 <= percent[k]
            BY <1>2, <1>3
      <2>2. a + 1 \in Int /\ ~(a + 1 <= a)
            BY <1>2
      <2> QED BY <1>2, <2>1, <2>2
<1>4. ASSUME \A k \in DOMAIN weight : ~(percent[k] >= a) PROVE FALSE
      <2>1. \A k \in DOMAIN weight : percent[k] <= a - 1
            BY <1>2, <1>4
      <2>2. a - 1 \in Int /\ ~(a <= a - 1)
            BY <1>2
      <2> QED BY <1>2, <2>1, <2>2
<1> QED BY <1>3, <1>4 DEF a

-----------------------------------------------------------------------------
(* Weights as they are stored with a result.                               *)
LEMMA MaxIn ==
    ASSUME NEW S, IsFiniteSet(S), S # {}, S \subseteq Int
    PROVE  Max(S) \in S /\ \A y \in S : Max(S) >= y
BY GreatestIn DEF Max

(* Without weights the last row has what equal shares of the others leave. *)
EqualShares(e, K, last, share) ==
    /\ last \in K
    /\ \A k \in K \ {last} : e[k] = share
    /\ e[last] = Whole - share * (Cardinality(K) - 1)

LEMMA EffectiveShape ==
    ASSUME NEW weight, IsFiniteSet(DOMAIN weight), DOMAIN weight # {}, DOMAIN weight \subseteq Int,
           \A k \in DOMAIN weight : weight[k] \in Weight, WeightsReady(weight)
    PROVE  /\ DOMAIN EffectiveWeights(weight) = DOMAIN weight
           /\ \A k \in DOMAIN weight : EffectiveWeights(weight)[k] \in Int
           /\ Weighted(weight) => \A k \in DOMAIN weight : /\ EffectiveWeights(weight)[k] = weight[k]
                                                           /\ Counted(weight)[k] = weight[k]
           /\ ~Weighted(weight) =>
                EqualShares(EffectiveWeights(weight), DOMAIN weight, Max(DOMAIN weight),
                            RoundDiv(Whole, Cardinality(DOMAIN weight)))
<1> DEFINE K == DOMAIN weight
           e == EffectiveWeights(weight)
           last == Max(K)
           share == RoundDiv(Whole, Cardinality(K))
<1>1. Max(K) \in K
      BY MaxIn
<1>2. Cardinality(K) \in Nat \ {0}
      BY FS_CardinalityType, FS_EmptySet
<1>3. share \in Int /\ Whole \in Int
      BY <1>2, RoundFacts DEF Whole
<1>4. DOMAIN e = K
      BY DEF EffectiveWeights
<1>5. CASE Weighted(weight)
      <2>1. \A k \in K : weight[k] # NoWeight
            BY <1>5 DEF WeightsReady
      <2>2. \A k \in K : e[k] = weight[k] /\ Counted(weight)[k] = weight[k] /\ weight[k] \in Int
            BY <1>5, <2>1 DEF EffectiveWeights, Counted, Weight, Share
      <2> QED BY <1>4, <1>5, <2>2
<1>6. CASE ~Weighted(weight)
      <2>1. \A k \in K : e[k] = IF k = Max(K) THEN Whole - share * (Cardinality(K) - 1) ELSE share
            BY <1>6 DEF EffectiveWeights
      <2>2. Whole - share * (Cardinality(K) - 1) \in Int
            BY <1>2, <1>3
      <2> QED BY <1>1, <1>3, <1>4, <1>6, <2>1, <2>2 DEF EqualShares
<1> QED BY <1>5, <1>6

LEMMA SharesSum ==
    ASSUME NEW K, IsFiniteSet(K), NEW e, NEW last, NEW share \in Int, EqualShares(e, K, last, share)
    PROVE  SumFunctionOnSet(e, K) = Whole
<1> DEFINE others == K \ {last}
           ones == [k \in others |-> 1]
<1>1. last \in K /\ e[last] = Whole - share * (Cardinality(K) - 1)
      BY DEF EqualShares
<1>2. IsFiniteSet(others) /\ Cardinality(others) = Cardinality(K) - 1 /\ Cardinality(K) \in Int
      BY <1>1, FS_RemoveElement, FS_CardinalityType
<1>3. \A k \in K : e[k] \in Int
      <2>1. Whole - share * (Cardinality(K) - 1) \in Int
            BY <1>2 DEF Whole
      <2> QED BY <1>1, <2>1 DEF EqualShares
<1>4. SumFunctionOnSet(e, K) = e[last] + SumFunctionOnSet(e, others)
      BY <1>1, <1>3, SumElement
<1>5. Scaled(e, share, ones, others)
      BY DEF EqualShares, Scaled
<1>6. \A k \in others : ones[k] = 1 /\ ones[k] \in Int
      OBVIOUS
<1> HIDE DEF ones
<1>7. SumFunctionOnSet(ones, others) = Cardinality(others)
      BY <1>2, <1>6, SumOnes
<1>8. SumFunctionOnSet(e, others) = share * Cardinality(others)
      BY <1>2, <1>5, <1>6, <1>7, SumTimes
<1> DEFINE n == Cardinality(K)
<1>9. SumFunctionOnSet(e, K) = (Whole - share * (n - 1)) + share * (n - 1)
      BY <1>1, <1>2, <1>4, <1>8
<1>10. n \in Int /\ Whole \in Int
      BY <1>2 DEF Whole
<1> HIDE DEF n
<1>11. share * (n - 1) \in Int
      BY <1>10
<1> QED BY <1>9, <1>10, <1>11

(* They sum 100.00.                                                        *)
LEMMA EffectiveWeightsSum ==
    ASSUME NEW weight, IsFiniteSet(DOMAIN weight), DOMAIN weight # {}, DOMAIN weight \subseteq Int,
           \A k \in DOMAIN weight : weight[k] \in Weight, WeightsReady(weight)
    PROVE  SumFunction(EffectiveWeights(weight)) = Whole
<1> DEFINE K == DOMAIN weight
           e == EffectiveWeights(weight)
<1>1. DOMAIN e = K /\ \A k \in K : e[k] \in Int
      BY EffectiveShape
<1>2. CASE Weighted(weight)
      <2>1. \A k \in K : e[k] = weight[k]
            BY <1>2, EffectiveShape
      <2>2. SumFunctionOnSet(e, K) = SumFunctionOnSet(weight, K)
            BY <1>1, <2>1, SumSame
      <2> QED BY <1>1, <1>2, <2>2 DEF WeightsReady, SumFunction
<1>3. CASE ~Weighted(weight)
      <2>1. Cardinality(K) \in Nat \ {0} /\ Whole \in Int
            BY FS_CardinalityType, FS_EmptySet DEF Whole
      <2>2. RoundDiv(Whole, Cardinality(K)) \in Int
            BY <2>1, RoundFacts
      <2>3. SumFunctionOnSet(e, K) = Whole
            BY <1>3, <2>2, EffectiveShape, SharesSum
      <2> QED BY <1>1, <2>3 DEF SumFunction
<1> QED BY <1>2, <1>3

LEMMA ProductWithin ==
    ASSUME NEW a \in Int, NEW b \in Int, NEW A \in Nat, NEW B \in Nat,
           -A <= a, a <= A, -B <= b, b <= B
    PROVE  a * b \in Int /\ -(A * B) <= a * b /\ a * b <= A * B
<1>1. ASSUME NEW x \in Nat, NEW y \in Nat, x <= A, y <= B
      PROVE  x * y \in Nat /\ x * y <= A * B
      <2>1. x * y <= A * y /\ A * y <= A * B
            BY <1>1, TimesGrows
      <2>2. x * y \in Nat /\ A * y \in Int /\ A * B \in Int
            OBVIOUS
      <2> QED BY <2>1, <2>2
<1>2. A * B \in Int /\ a * b \in Int
      OBVIOUS
<1>3. CASE a >= 0 /\ b >= 0
      BY <1>1, <1>2, <1>3
<1>4. CASE a >= 0 /\ b < 0
      <2>1. a * (-b) \in Nat /\ a * (-b) <= A * B
            BY <1>1, <1>4
      <2>2. a * (-b) = -(a * b)
            OBVIOUS
      <2> QED BY <1>2, <2>1, <2>2
<1>5. CASE a < 0 /\ b >= 0
      <2>1. (-a) * b \in Nat /\ (-a) * b <= A * B
            BY <1>1, <1>5
      <2>2. (-a) * b = -(a * b)
            OBVIOUS
      <2> QED BY <1>2, <2>1, <2>2
<1>6. CASE a < 0 /\ b < 0
      <2>1. (-a) * (-b) \in Nat /\ (-a) * (-b) <= A * B
            BY <1>1, <1>6
      <2>2. (-a) * (-b) = a * b
            OBVIOUS
      <2> QED BY <1>2, <2>1, <2>2
<1> QED BY <1>3, <1>4, <1>5, <1>6

(* The mean by rounded equal shares, where n rows sum to P and the last of *)
(* them is q, differs from the rounded mean by n hundredths at the most.   *)
LEMMA ShareError ==
    ASSUME NEW n \in Nat \ {0}, NEW W \in Nat \ {0}, NEW P \in Int, NEW q \in Int,
           0 <= q, q <= W, 0 <= P - q, P - q <= (n - 1) * W
    PROVE  LET s == RoundDiv(W, n)
               x == (W - s * (n - 1)) * q + s * (P - q)
           IN  RoundDiv(x, W) - RoundDiv(P, n) \in -n..n
<1> DEFINE s == RoundDiv(W, n)
           a == RoundDiv(P, n)
           d == W - n * s
           Y == n * q - P
           x == (W - s * (n - 1)) * q + s * (P - q)
<1>1. s \in Int /\ 2 * (n * s) <= 2 * W + n /\ 2 * W + n < 2 * (n * s) + 2 * n
      BY RoundFacts
<1>2. a \in Int /\ 2 * (n * a) <= 2 * P + n /\ 2 * P + n < 2 * (n * a) + 2 * n
      BY RoundFacts
<1> HIDE DEF s, a
<1>3. n * s \in Int /\ d \in Int /\ -n <= 2 * d /\ 2 * d <= n
      <2>1. n * s \in Int
            BY <1>1
      <2> QED BY <1>1, <2>1
<1>4. Y \in Int /\ -(n * W) <= Y /\ Y <= n * W
      <2>1. (n - 1) * W = n * W - W /\ n * W \in Int /\ n * q \in Int
            OBVIOUS
      <2>2. n * q <= n * W /\ q <= n * q
            <3>1. 1 * q <= n * q
                  BY TimesGrows
            <3> QED BY <3>1, TimesGrows
      <2>3. P <= n * W - W + q
            BY <2>1
      <2>4. Y <= n * W
            <3>1. n * q - q <= n * W - W
                  <4>1. (n - 1) * q <= (n - 1) * W
                        BY TimesGrows
                  <4>2. (n - 1) * q = n * q - q
                        OBVIOUS
                  <4> QED BY <2>1, <4>1, <4>2
            <3> QED BY <2>1, <3>1
      <2> QED BY <2>1, <2>2, <2>3, <2>4
<1>5. n * x = W * P + d * Y
      BY <1>1
<1>6. x \in Int
      BY <1>1
<1> HIDE DEF x
<1>7. d * Y \in Int /\ -(n * (n * W)) <= 2 * (d * Y) /\ 2 * (d * Y) <= n * (n * W)
      <2>1. 2 * d \in Int /\ n * W \in Nat
            BY <1>3
      <2> HIDE DEF d, Y
      <2>2. (2 * d) * Y \in Int /\ -(n * (n * W)) <= (2 * d) * Y /\ (2 * d) * Y <= n * (n * W)
            BY <1>3, <1>4, <2>1, ProductWithin
      <2>3. (2 * d) * Y = 2 * (d * Y) /\ d * Y \in Int
            BY <1>3, <1>4
      <2> QED BY <2>2, <2>3
<1> HIDE DEF d, Y
<1>8. x <= (a + n) * W
      <2>1. W * (2 * P) <= W * (2 * (n * a) + n)
            <3>1. 2 * P <= 2 * (n * a) + n /\ 2 * P \in Int /\ 2 * (n * a) + n \in Int
                  BY <1>2
            <3> QED BY <3>1, TimesGrows
      <2>2. W * (2 * P) = 2 * (W * P) /\ W * P \in Int
            OBVIOUS
      <2>3. W * (2 * (n * a) + n) + n * (n * W) = n * (W * (2 * a + 1 + n))
            BY <1>2
      <2>4. /\ W * (2 * (n * a) + n) \in Int /\ n * (n * W) \in Int
            /\ 2 * (n * x) = n * (2 * x) /\ n * x \in Int
            BY <1>2, <1>6
      <2>5. n * (2 * x) <= n * (W * (2 * a + 1 + n))
            BY <1>5, <1>7, <2>1, <2>2, <2>3, <2>4
      <2>6. 2 * x <= W * (2 * a + 1 + n)
            <3>1. 2 * x \in Int /\ W * (2 * a + 1 + n) \in Int
                  BY <1>2, <1>6
            <3> QED BY <2>5, <3>1, TimesCancels
      <2>7. W * (2 * a + 1 + n) <= W * (2 * (a + n))
            <3>1. 2 * a + 1 + n \in Int /\ 2 * (a + n) \in Int /\ 2 * a + 1 + n <= 2 * (a + n)
                  BY <1>2
            <3> QED BY <3>1, TimesGrows
      <2>8. W * (2 * (a + n)) = 2 * ((a + n) * W) /\ (a + n) * W \in Int /\ W * (2 * a + 1 + n) \in Int
            BY <1>2
      <2> QED BY <1>6, <2>6, <2>7, <2>8
<1>9. (a - n) * W <= x
      <2>1. W * (2 * (n * a) - n) <= W * (2 * P)
            <3>1. 2 * (n * a) - n <= 2 * P /\ 2 * P \in Int /\ 2 * (n * a) - n \in Int
                  BY <1>2
            <3> QED BY <3>1, TimesGrows
      <2>2. W * (2 * P) = 2 * (W * P) /\ W * P \in Int
            OBVIOUS
      <2>3. W * (2 * (n * a) - n) - n * (n * W) = n * (W * (2 * a - 1 - n))
            BY <1>2
      <2>4. /\ W * (2 * (n * a) - n) \in Int /\ n * (n * W) \in Int
            /\ 2 * (n * x) = n * (2 * x) /\ n * x \in Int
            BY <1>2, <1>6
      <2>5. n * (W * (2 * a - 1 - n)) <= n * (2 * x)
            BY <1>5, <1>7, <2>1, <2>2, <2>3, <2>4
      <2>6. W * (2 * a - 1 - n) <= 2 * x
            <3>1. 2 * x \in Int /\ W * (2 * a - 1 - n) \in Int
                  BY <1>2, <1>6
            <3> QED BY <2>5, <3>1, TimesCancels
      <2>7. W * (2 * (a - n)) <= W * (2 * a - 1 - n)
            <3>1. 2 * a - 1 - n \in Int /\ 2 * (a - n) \in Int /\ 2 * (a - n) <= 2 * a - 1 - n
                  BY <1>2
            <3> QED BY <3>1, TimesGrows
      <2>8. W * (2 * (a - n)) = 2 * ((a - n) * W) /\ (a - n) * W \in Int /\ W * (2 * a - 1 - n) \in Int
            BY <1>2
      <2> QED BY <1>6, <2>6, <2>7, <2>8
<1>10. RoundDiv(x, W) \in Int /\ RoundDiv(x, W) <= a + n
      <2>1. a + n \in Int
            BY <1>2
      <2> QED BY <1>6, <1>8, <2>1, RoundAtMost
<1>11. a - n <= RoundDiv(x, W)
      <2>1. a - n \in Int
            BY <1>2
      <2> QED BY <1>6, <1>9, <2>1, RoundAtLeast
<1>12. RoundDiv(x, W) - a \in -n..n
      <2> DEFINE y == RoundDiv(x, W)
      <2>1. y \in Int /\ y <= a + n /\ a - n <= y
            BY <1>10, <1>11
      <2> HIDE DEF y
      <2>2. y - a \in -n..n
            BY <1>2, <2>1
      <2> QED BY <2>2 DEF y
<1> QED BY <1>12 DEF s, a, x

(* What n percentages sum to.                                              *)
LEMMA SharesWithin ==
    ASSUME NEW S, IsFiniteSet(S), NEW p, \A k \in S : p[k] \in Share
    PROVE  /\ SumFunctionOnSet(p, S) \in Int
           /\ 0 <= SumFunctionOnSet(p, S) /\ SumFunctionOnSet(p, S) <= Cardinality(S) * Whole
<1> DEFINE ones  == [k \in S |-> 1]
           most  == [k \in S |-> Whole]
<1>1. \A k \in S : p[k] \in Int /\ p[k] \in Nat /\ p[k] <= Whole /\ Whole \in Int
      <2>1. Whole \in Int /\ \A v \in Share : v \in Int /\ v \in Nat /\ v <= Whole
            BY DEF Share, Whole
      <2> QED BY <2>1
<1>2. \A k \in S : most[k] = Whole /\ ones[k] = 1
      OBVIOUS
<1>3. Scaled(most, Whole, ones, S)
      BY <1>1 DEF Scaled
<1> HIDE DEF ones, most
<1>4. SumFunctionOnSet(ones, S) = Cardinality(S) /\ Cardinality(S) \in Nat
      BY <1>2, SumOnes, FS_CardinalityType
<1>5. SumFunctionOnSet(most, S) = Whole * Cardinality(S)
      <2>1. Whole \in Int /\ \A k \in S : ones[k] \in Int
            BY <1>2 DEF Whole
      <2> QED BY <1>3, <1>4, <2>1, SumTimes
<1>6. SumFunctionOnSet(p, S) <= SumFunctionOnSet(most, S)
      BY <1>1, <1>2, SumAtMost
<1>7. SumFunctionOnSet(p, S) \in Nat
      BY <1>1, SumPart
<1> QED BY <1>4, <1>5, <1>6, <1>7 DEF Whole

(* The sum of p with the weights e of equal shares.                        *)
LEMMA EqualSharesMean ==
    ASSUME NEW K, IsFiniteSet(K), NEW e, NEW last, NEW share \in Int, EqualShares(e, K, last, share),
           NEW p, \A k \in K : p[k] \in Int, NEW g, Weighing(g, e, p, K)
    PROVE  SumFunctionOnSet(g, K) =
              (Whole - share * (Cardinality(K) - 1)) * p[last]
                + share * (SumFunctionOnSet(p, K) - p[last])
<1> DEFINE others == K \ {last}
<1>1. last \in K /\ e[last] = Whole - share * (Cardinality(K) - 1) /\ \A k \in others : e[k] = share
      BY DEF EqualShares
<1>2. \A k \in K : g[k] \in Int /\ g[k] = e[k] * p[k]
      BY DEF Weighing
<1>3. SumFunctionOnSet(g, K) = g[last] + SumFunctionOnSet(g, others)
      BY <1>1, <1>2, SumElement
<1>4. SumFunctionOnSet(p, K) = p[last] + SumFunctionOnSet(p, others)
      BY <1>1, SumElement
<1>5. IsFiniteSet(others)
      BY FS_RemoveElement
<1>6. Scaled(g, share, p, others)
      BY <1>1, <1>2 DEF Scaled
<1>7. SumFunctionOnSet(g, others) = share * SumFunctionOnSet(p, others)
      BY <1>5, <1>6, SumTimes
<1>8. SumFunctionOnSet(p, others) \in Int /\ p[last] \in Int
      BY <1>1, <1>5, SumElement
<1>9. SumFunctionOnSet(p, others) = SumFunctionOnSet(p, K) - p[last]
      BY <1>4, <1>8
<1>10. g[last] = (Whole - share * (Cardinality(K) - 1)) * p[last]
      BY <1>1, <1>2
<1> QED BY <1>3, <1>7, <1>9, <1>10

(* The effective weights (computeEffectiveWeights) account for the progress*)
(* of the goal up to a hundredth per key result.                           *)
THEOREM EffectiveAccounts ==
    ASSUME NEW weight, IsFiniteSet(DOMAIN weight), DOMAIN weight # {}, DOMAIN weight \subseteq Int,
           \A k \in DOMAIN weight : weight[k] \in Weight, WeightsReady(weight),
           NEW percent, \A k \in DOMAIN weight : percent[k] \in Share
    PROVE  RoundDiv(SumFunction([k \in DOMAIN weight |-> EffectiveWeights(weight)[k] * percent[k]]), Whole)
             - GoalProgress(weight, percent)
           \in -Cardinality(DOMAIN weight)..Cardinality(DOMAIN weight)
<1> DEFINE K == DOMAIN weight
           e == EffectiveWeights(weight)
           c == Counted(weight)
           g == [k \in K |-> e[k] * percent[k]]
           h == [k \in K |-> percent[k] * c[k]]
           n == Cardinality(K)
<1>1. n \in Nat \ {0} /\ Whole \in Nat \ {0}
      BY FS_CardinalityType, FS_EmptySet DEF Whole
<1>2. SumFunction(g) = SumFunctionOnSet(g, K) /\ SumFunction(h) = SumFunctionOnSet(h, K)
      BY DEF SumFunction
<1>3. SumFunction(c) \in Nat \ {0}
      BY <1>1, CountedFacts
<1>4. GoalProgress(weight, percent) = RoundDiv(SumFunctionOnSet(h, K), SumFunction(c))
      BY <1>2, <1>3 DEF GoalProgress
<1>5. \A k \in K : percent[k] \in Int /\ c[k] \in Nat /\ e[k] \in Int
      BY CountedFacts, EffectiveShape DEF Share
<1>6. CASE Weighted(weight)
      <2>1. \A k \in K : g[k] \in Int /\ g[k] = h[k]
            <3>1. \A k \in K : e[k] = weight[k] /\ c[k] = weight[k]
                  BY <1>6, EffectiveShape
            <3>2. \A k \in K : e[k] * percent[k] \in Int /\ e[k] * percent[k] = percent[k] * c[k]
                  BY <1>5, <3>1
            <3> QED BY <3>2
      <2>2. SumFunctionOnSet(g, K) = SumFunctionOnSet(h, K) /\ SumFunctionOnSet(h, K) \in Int
            <3> HIDE DEF g, h
            <3>1. \A k \in K : h[k] \in Int
                  BY <2>1
            <3> QED BY <2>1, <3>1, SumSame, SumElement
      <2>3. SumFunction(c) = Whole
            BY <1>6, CountedFacts
      <2>4. RoundDiv(SumFunctionOnSet(h, K), Whole) \in Int
            BY <1>1, <2>2, RoundFacts
      <2> DEFINE r == RoundDiv(SumFunctionOnSet(h, K), Whole)
      <2> HIDE DEF r
      <2>5. r - r \in -n..n
            BY <1>1, <2>4 DEF r
      <2> QED BY <1>2, <1>4, <2>2, <2>3, <2>5 DEF r
<1>7. CASE ~Weighted(weight)
      <2> DEFINE last  == Max(K)
                 share == RoundDiv(Whole, n)
                 P     == SumFunctionOnSet(percent, K)
                 x     == (Whole - share * (n - 1)) * percent[last] + share * (P - percent[last])
      <2>1. SumFunction(c) = n /\ \A k \in K : c[k] = 1
            BY <1>7, CountedFacts DEF Counted
      <2>2. SumFunctionOnSet(h, K) = P
            <3>1. \A k \in K : h[k] \in Int /\ h[k] = percent[k]
                  BY <1>5, <2>1
            <3> HIDE DEF h
            <3> QED BY <3>1, SumSame
      <2>3. share \in Int
            BY <1>1, RoundFacts
      <2>4. EqualShares(e, K, last, share)
            BY <1>7, EffectiveShape
      <2>5. Weighing(g, e, percent, K)
            <3>1. \A k \in K : e[k] * percent[k] \in Int
                  BY <1>5
            <3> QED BY <3>1 DEF Weighing
      <2>6. SumFunctionOnSet(g, K) = x
            <3> HIDE DEF g, e, last, share
            <3> QED BY <1>5, <2>3, <2>4, <2>5, EqualSharesMean
      <2>7. /\ P \in Int /\ percent[last] \in Int /\ 0 <= percent[last] /\ percent[last] <= Whole
            /\ 0 <= P - percent[last] /\ P - percent[last] <= (n - 1) * Whole
            <3>1. last \in K
                  BY <2>4 DEF EqualShares
            <3>2. IsFiniteSet(K \ {last}) /\ Cardinality(K \ {last}) = n - 1
                  BY <3>1, FS_RemoveElement
            <3>3. P = percent[last] + SumFunctionOnSet(percent, K \ {last})
                  BY <1>5, <3>1, SumElement
            <3>4. percent[last] \in Int /\ 0 <= percent[last] /\ percent[last] <= Whole
                  BY <3>1 DEF Share
            <3>5. /\ SumFunctionOnSet(percent, K \ {last}) \in Int
                  /\ 0 <= SumFunctionOnSet(percent, K \ {last})
                  /\ SumFunctionOnSet(percent, K \ {last}) <= (n - 1) * Whole
                  BY <3>2, SharesWithin
            <3> QED BY <3>3, <3>4, <3>5
      <2>8. RoundDiv(x, Whole) - RoundDiv(P, n) \in -n..n
            <3> HIDE DEF n, P, last
            <3> QED BY <1>1, <2>7, ShareError
      <2> QED BY <1>2, <1>4, <2>1, <2>2, <2>6, <2>8
<1> QED BY <1>6, <1>7

-----------------------------------------------------------------------------
(* Results.                                                                *)
LEMMA ProductIs == ASSUME NEW f PROVE Product(f) = ProductOnSet(f, DOMAIN f)
BY DEF Product, ProductOnSet, FoldFunction

(* The score of an evaluation is a percentage, whichever competencies are  *)
(* answered and whatever their scales.                                     *)
THEOREM EvaluationScoreIsShare ==
    ASSUME NEW comps, IsFiniteSet(DOMAIN comps),
           \A c \in DOMAIN comps : /\ comps[c].weight \in Nat \union {NoWeight}
                                   /\ comps[c].low \in Int /\ comps[c].high \in Int,
           NEW answer, DOMAIN answer \subseteq DOMAIN comps, ScoreReady(comps, answer)
    PROVE  EvaluationScore(comps, answer) \in Share
<1> DEFINE A      == DOMAIN answer
           w      == [c \in A |-> IF comps[c].weight = NoWeight THEN 1 ELSE comps[c].weight]
           range  == [c \in A |-> comps[c].high - comps[c].low]
           common == Product(range)
           unit   == [c \in A |-> (answer[c] - comps[c].low) * (common \div range[c])]
           part   == [c \in A |-> (answer[c] - comps[c].low) * (common \div range[c]) * w[c]]
           weighs == SumFunctionOnSet(w, A)
           sum    == SumFunctionOnSet(part, A)
<1>1. EvaluationScore(comps, answer) = RoundDiv(sum * Whole, common * weighs)
      BY DEF EvaluationScore, SumFunction
<1>2. IsFiniteSet(A) /\ A # {}
      BY FS_Subset DEF ScoreReady
<1>3. \A c \in A : w[c] \in Nat
      OBVIOUS
<1>4. weighs \in Nat \ {0}
      <2>1. CASE Weighted([c \in DOMAIN comps |-> comps[c].weight])
            <3> DEFINE v == [c \in A |-> comps[c].weight]
            <3>1. SumFunctionOnSet(v, A) > 0 /\ \A c \in A : comps[c].weight # NoWeight
                  BY <2>1 DEF ScoreReady, SumFunction
            <3>2. \A c \in A : w[c] \in Int /\ w[c] = v[c]
                  BY <1>3, <3>1
            <3> HIDE DEF w, v
            <3>3. SumFunctionOnSet(w, A) = SumFunctionOnSet(v, A)
                  BY <1>2, <3>2, SumSame
            <3>4. SumFunctionOnSet(w, A) \in Int
                  BY <1>2, <3>2, SumElement
            <3> QED BY <3>1, <3>3, <3>4
      <2>2. CASE ~Weighted([c \in DOMAIN comps |-> comps[c].weight])
            <3>1. \A c \in A : w[c] = 1
                  BY <2>2 DEF Weighted
            <3> HIDE DEF w
            <3>2. weighs = Cardinality(A)
                  BY <1>2, <3>1, SumOnes
            <3> QED BY <1>2, <3>2, FS_CardinalityType, FS_EmptySet
      <2> QED BY <2>1, <2>2
<1>5. \A c \in A : /\ range[c] \in Nat \ {0}
                   /\ answer[c] - comps[c].low \in Nat /\ answer[c] - comps[c].low <= range[c]
      BY DEF ScoreReady
<1>6. common = ProductOnSet(range, A)
      BY ProductIs
<1> HIDE DEF w, range, common
<1>7. /\ common \in Nat \ {0}
      /\ \A c \in A : common \div range[c] \in Nat \ {0} /\ (common \div range[c]) * range[c] = common
      BY <1>2, <1>5, <1>6, ProductPositive
<1>8. ASSUME NEW c \in A PROVE unit[c] \in Int /\ 0 <= unit[c] /\ unit[c] <= common
      <2> DEFINE x == answer[c] - comps[c].low
                 y == common \div range[c]
      <2>1. x \in Nat /\ x <= range[c] /\ y \in Nat /\ range[c] \in Nat /\ y * range[c] = common
            BY <1>5, <1>7
      <2>2. unit[c] = x * y
            OBVIOUS
      <2> HIDE DEF x, y, unit
      <2>3. x * y \in Int /\ 0 <= x * y /\ y * x <= y * range[c] /\ x * y = y * x
            BY <2>1, TimesGrows
      <2> QED BY <2>1, <2>2, <2>3
<1>9. Weighing(part, unit, w, A)
      <2>1. \A c \in A : part[c] = unit[c] * w[c]
            OBVIOUS
      <2>2. \A c \in A : unit[c] * w[c] \in Int
            <3> HIDE DEF unit
            <3> QED BY <1>3, <1>8
      <2> QED BY <2>1, <2>2 DEF Weighing
<1> HIDE DEF unit, part
<1>10. 0 * weighs <= sum
      BY <1>2, <1>3, <1>8, <1>9, WeighingAtLeast
<1>11. sum <= common * weighs
      BY <1>2, <1>3, <1>7, <1>8, <1>9, WeighingAtMost
<1>12. sum \in Int
      <2>1. \A c \in A : part[c] \in Int
            BY <1>9 DEF Weighing
      <2> QED BY <1>2, <2>1, SumElement
<1> HIDE DEF weighs, sum
<1>13. common * weighs \in Nat \ {0} /\ Whole \in Nat
      BY <1>4, <1>7 DEF Whole
<1> DEFINE d == common * weighs
           n == sum * Whole
<1>14. n \in Int /\ 0 * d <= n /\ n <= Whole * d
      <2>1. 0 <= sum /\ 0 * d = 0 /\ d \in Int
            BY <1>4, <1>10, <1>13
      <2>2. 0 * Whole <= sum * Whole /\ sum * Whole <= d * Whole
            BY <1>11, <1>12, <1>13, <2>1, TimesGrows
      <2> QED BY <1>12, <1>13, <2>1, <2>2
<1>15. d \in Nat \ {0}
      BY <1>13
<1> HIDE DEF d, n
<1>16. RoundDiv(n, d) \in Int /\ 0 <= RoundDiv(n, d) /\ RoundDiv(n, d) <= Whole
      BY <1>13, <1>14, <1>15, RoundAtLeast, RoundAtMost
<1> QED BY <1>1, <1>16 DEF Share, d, n

(* The weights that the types in T are given: what rounding leaves goes to *)
(* the last one.                                                           *)
Rounded(weights, T) ==
    [t \in T |-> RoundDiv(weights[Types[t]] * Whole, Configured(weights, T))]

LEMMA EffectiveIs ==
    ASSUME NEW weights, NEW T, IsFiniteSet(T), T # {}, T \subseteq Int,
           \A t \in T : weights[Types[t]] \in Nat, Configured(weights, T) \in Nat \ {0}
    PROVE  /\ DOMAIN Effective(weights, T) = T /\ Max(T) \in T
           /\ \A t \in T : Rounded(weights, T)[t] \in Int /\ 0 <= Rounded(weights, T)[t]
           /\ \A t \in T \ {Max(T)} : Effective(weights, T)[t] = Rounded(weights, T)[t]
           /\ SumFunctionOnSet(Rounded(weights, T), T \ {Max(T)}) \in Int
           /\ Effective(weights, T)[Max(T)] = Whole - SumFunctionOnSet(Rounded(weights, T), T \ {Max(T)})
<1> DEFINE D == Configured(weights, T)
           last == Max(T)
<1>1. last \in T
      BY MaxIn
<1>2. ASSUME NEW t \in T PROVE Rounded(weights, T)[t] \in Int /\ 0 <= Rounded(weights, T)[t]
      <2> DEFINE n == weights[Types[t]] * Whole
      <2>1. n \in Int /\ 0 * D <= n
            <3>1. Whole \in Nat /\ weights[Types[t]] \in Nat
                  BY DEF Whole
            <3> QED BY <3>1, TimesGrows
      <2>2. Rounded(weights, T)[t] = RoundDiv(n, D)
            BY DEF Rounded
      <2> HIDE DEF n, D
      <2>3. RoundDiv(n, D) \in Int /\ 0 <= RoundDiv(n, D)
            BY <2>1, RoundAtLeast DEF D
      <2> QED BY <2>2, <2>3
<1>3. SumFunctionOnSet(Rounded(weights, T), T \ {last}) \in Int
      <2>1. IsFiniteSet(T \ {last})
            BY FS_RemoveElement
      <2> QED BY <1>2, <2>1, SumElement
<1>4. Effective(weights, T) =
        [t \in T |-> IF t = last THEN Whole - SumFunctionOnSet(Rounded(weights, T), T \ {last})
                     ELSE Rounded(weights, T)[t]]
      BY DEF Effective, Rounded
<1> HIDE DEF last
<1> QED BY <1>1, <1>2, <1>3, <1>4 DEF last

(* Evaluations are of four types (clients have none), so that rounding the *)
(* shares of all but the last takes a hundredth more than the whole at     *)
(* most.                                                                   *)
LEMMA FewTypes ==
    /\ IsFiniteSet(1..4) /\ IsFiniteSet(1..3) /\ Cardinality(1..3) = 3
    /\ \A t \in 1..4 : t \in Int
<1>1. 1 \in Int /\ 3 \in Int /\ 4 \in Int /\ (IF 1 > 3 THEN 0 ELSE 3 - 1 + 1) = 3
      OBVIOUS
<1>2. IsFiniteSet(1..4)
      BY <1>1, FS_Interval
<1>3. IsFiniteSet(1..3) /\ Cardinality(1..3) = IF 1 > 3 THEN 0 ELSE 3 - 1 + 1
      BY <1>1, FS_Interval
<1>4. \A t \in 1..4 : t \in Int
      OBVIOUS
<1> QED BY <1>1, <1>2, <1>3, <1>4

LEMMA SharesLeave ==
    ASSUME NEW T \in SUBSET (1..4), NEW last \in T, \A t \in T : t <= last,
           NEW w, \A t \in T : w[t] \in Nat,
           NEW D \in Nat \ {0}, D = SumFunctionOnSet(w, T),
           NEW r, \A t \in T : r[t] \in Int /\ r[t] = RoundDiv(w[t] * Whole, D)
    PROVE  SumFunctionOnSet(r, T \ {last}) <= Whole + 1
<1> DEFINE others == T \ {last}
           S == SumFunctionOnSet(r, others)
<1>1. IsFiniteSet(T) /\ T \subseteq Int
      BY FewTypes, FS_Subset
<1>2. \A t \in T : w[t] \in Int
      OBVIOUS
<1>3. others \subseteq 1..3
      BY <1>1
<1>4. IsFiniteSet(others) /\ Cardinality(others) \in Nat /\ Cardinality(others) <= 3
      BY <1>3, FewTypes, FS_Subset, FS_CardinalityType
<1>5. D = w[last] + SumFunctionOnSet(w, others) /\ SumFunctionOnSet(w, others) \in Int
      BY <1>1, <1>2, SumSplit
<1>6. S \in Int
      BY <1>4, SumElement
<1>7. Whole \in Nat \ {0}
      BY DEF Whole
<1> DEFINE a == [t \in others |-> (2 * D) * r[t]]
           b == [t \in others |-> (2 * Whole) * w[t]]
           c == [t \in others |-> D]
           ones == [t \in others |-> 1]
           bc == [t \in others |-> b[t] + c[t]]
<1>8. 2 * D \in Int /\ 2 * Whole \in Int /\ D \in Int
      BY <1>7
<1>9. Scaled(a, 2 * D, r, others)
      <2>1. \A t \in others : (2 * D) * r[t] \in Int
            BY <1>8
      <2> QED BY <2>1 DEF Scaled
<1>10. Scaled(b, 2 * Whole, w, others)
      <2>1. \A t \in others : (2 * Whole) * w[t] \in Int
            BY <1>2, <1>8
      <2> QED BY <2>1 DEF Scaled
<1>11. Scaled(c, D, ones, others)
      BY <1>8 DEF Scaled
<1>12. \A t \in others : /\ a[t] = (2 * D) * r[t] /\ a[t] \in Int
                        /\ b[t] = (2 * Whole) * w[t] /\ b[t] \in Int
                        /\ c[t] = D /\ c[t] \in Int /\ ones[t] = 1 /\ ones[t] \in Int
                        /\ bc[t] = b[t] + c[t]
      BY <1>2, <1>8
<1> HIDE DEF a, b, c, ones, bc
<1>13. SumFunctionOnSet(a, others) = (2 * D) * S
      BY <1>4, <1>8, <1>9, SumTimes
<1>14. SumFunctionOnSet(b, others) = (2 * Whole) * SumFunctionOnSet(w, others)
      BY <1>2, <1>4, <1>8, <1>10, SumTimes
<1>15. SumFunctionOnSet(c, others) = D * Cardinality(others)
      <2>1. SumFunctionOnSet(ones, others) = Cardinality(others)
            BY <1>4, <1>12, SumOnes
      <2>2. \A t \in others : ones[t] \in Int
            BY <1>12
      <2>3. SumFunctionOnSet(c, others) = D * SumFunctionOnSet(ones, others)
            BY <1>4, <1>8, <1>11, <2>2, SumTimes
      <2> QED BY <2>1, <2>3
<1>16. SumFunctionOnSet(bc, others) = SumFunctionOnSet(b, others) + SumFunctionOnSet(c, others)
      <2>1. \A t \in others : b[t] \in Int /\ c[t] \in Int /\ bc[t] = b[t] + c[t]
            BY <1>12
      <2> QED BY <1>4, <2>1, SumPlus
<1>17. ASSUME NEW t \in others PROVE a[t] \in Int /\ bc[t] \in Int /\ a[t] <= bc[t]
      <2> DEFINE n == w[t] * Whole
      <2>1. n \in Int
            BY <1>2, <1>7
      <2>2. r[t] = RoundDiv(n, D)
            OBVIOUS
      <2> HIDE DEF n
      <2>3. r[t] \in Int /\ 2 * (D * r[t]) <= 2 * n + D
            BY <2>1, <2>2, RoundFacts
      <2>4. 2 * (D * r[t]) = (2 * D) * r[t] /\ 2 * n = (2 * Whole) * w[t]
            BY <1>2, <1>7, <2>3 DEF n
      <2> QED BY <1>8, <1>12, <2>3, <2>4
<1>18. SumFunctionOnSet(a, others) <= SumFunctionOnSet(bc, others)
      BY <1>4, <1>17, SumAtMost
<1>19. (2 * D) * S <= (2 * Whole) * (D - w[last]) + D * Cardinality(others)
      <2>1. SumFunctionOnSet(w, others) = D - w[last]
            BY <1>2, <1>5
      <2> QED BY <1>13, <1>14, <1>15, <1>16, <1>18, <2>1
<1> DEFINE v == w[last]
           m == Cardinality(others)
<1>20. m \in Nat /\ m <= 3 /\ v \in Nat /\ (2 * D) * S <= (2 * Whole) * (D - v) + D * m
      BY <1>4, <1>19
<1> HIDE DEF v, S, m
<1>21. ASSUME S >= Whole + 2 PROVE FALSE
      <2>1. (2 * D) * (Whole + 2) <= (2 * D) * S
            BY <1>6, <1>7, <1>21, TimesGrows
      <2>2. D * m <= D * 3
            BY <1>20, TimesGrows
      <2>3. (2 * Whole) * (D - v) <= (2 * Whole) * D
            BY <1>7, <1>20, TimesGrows
      <2>4. (2 * D) * S \in Int /\ (2 * Whole) * (D - v) \in Int /\ D * m \in Int
            BY <1>6, <1>7, <1>20
      <2>5. (2 * D) * (Whole + 2) <= (2 * Whole) * D + D * 3
            BY <1>7, <1>20, <2>1, <2>2, <2>3, <2>4
      <2> QED BY <2>5 DEF Whole
<1> QED BY <1>6, <1>7, <1>21 DEF S

(* So the weights the types are given sum 100.00.                          *)
LEMMA EffectiveSum ==
    ASSUME NEW weights, NEW T, IsFiniteSet(T), T # {}, T \subseteq Int,
           \A t \in T : weights[Types[t]] \in Nat, Configured(weights, T) \in Nat \ {0}
    PROVE  SumFunction(Effective(weights, T)) = Whole
<1> DEFINE e == Effective(weights, T)
           r == Rounded(weights, T)
           last == Max(T)
           others == T \ {last}
<1>1. /\ DOMAIN e = T /\ last \in T
      /\ \A t \in T : r[t] \in Int /\ 0 <= r[t]
      /\ \A t \in others : e[t] = r[t]
      /\ SumFunctionOnSet(r, others) \in Int
      /\ e[last] = Whole - SumFunctionOnSet(r, others)
      BY EffectiveIs
<1> HIDE DEF e, r, last
<1>2. IsFiniteSet(others)
      BY FS_RemoveElement
<1>3. \A t \in T : e[t] \in Int
      BY <1>1 DEF Whole
<1>4. SumFunctionOnSet(e, T) = e[last] + SumFunctionOnSet(e, others)
      BY <1>1, <1>3, SumSplit
<1>5. SumFunctionOnSet(e, others) = SumFunctionOnSet(r, others)
      BY <1>1, <1>2, SumSame
<1> QED BY <1>1, <1>4, <1>5 DEF SumFunction, Whole, e

(* Whatever the weights, the types that have evaluations share the whole of*)
(* the result.  Only the last of them, which takes what the rounding of the*)
(* others leaves (calculatePerformanceResult), may be left less than       *)
(* nothing, and then a hundredth.                                          *)
THEOREM EffectiveShares ==
    ASSUME NEW weights, NEW T \in SUBSET (1..4), T # {},
           \A t \in T : weights[Types[t]] \in Nat, Configured(weights, T) \in Nat \ {0}
    PROVE  /\ DOMAIN Effective(weights, T) = T /\ Max(T) \in T
           /\ \A t \in T \ {Max(T)} : Effective(weights, T)[t] \in Nat
           /\ Effective(weights, T)[Max(T)] \in Nat \union {-1}
           /\ SumFunction(Effective(weights, T)) = Whole
<1> DEFINE e == Effective(weights, T)
           r == Rounded(weights, T)
           last == Max(T)
           w == [t \in T |-> weights[Types[t]]]
           D == Configured(weights, T)
<1>1. IsFiniteSet(T) /\ T \subseteq Int
      BY FewTypes, FS_Subset
<1>2. /\ DOMAIN e = T /\ last \in T
      /\ \A t \in T : r[t] \in Int /\ 0 <= r[t]
      /\ \A t \in T \ {last} : e[t] = r[t]
      /\ SumFunctionOnSet(r, T \ {last}) \in Int /\ e[last] = Whole - SumFunctionOnSet(r, T \ {last})
      BY <1>1, EffectiveIs
<1>3. \A t \in T : t <= last
      BY <1>1, MaxIn
<1>4. D = SumFunctionOnSet(w, T) /\ D \in Nat \ {0}
      BY DEF Configured, SumFunction
<1>5. \A t \in T : w[t] \in Nat
      OBVIOUS
<1>6. \A t \in T : r[t] = RoundDiv(w[t] * Whole, D)
      BY DEF Rounded
<1>7. SumFunction(e) = Whole
      BY <1>1, EffectiveSum
<1> HIDE DEF e, r, w, D, last
<1>8. SumFunctionOnSet(r, T \ {last}) <= Whole + 1
      BY <1>2, <1>3, <1>4, <1>5, <1>6, SharesLeave
<1>9. e[last] \in Nat \union {-1}
      <2> DEFINE S == SumFunctionOnSet(r, T \ {last})
      <2>1. S \in Int /\ S <= Whole + 1 /\ Whole \in Nat /\ e[last] = Whole - S
            BY <1>2, <1>8 DEF Whole
      <2> HIDE DEF S
      <2> QED BY <2>1
<1> QED BY <1>2, <1>7, <1>9 DEF e, last

(* The sum of some scores, by bounds of theirs.                            *)
LEMMA ScoresWithin ==
    ASSUME NEW S, IsFiniteSet(S), NEW scores, \A e \in S : scores[e] \in Int
    PROVE  /\ SumFunctionOnSet(scores, S) \in Int
           /\ \A lo \in Int : (\A e \in S : lo <= scores[e]) => lo * Cardinality(S) <= SumFunctionOnSet(scores, S)
           /\ \A hi \in Int : (\A e \in S : scores[e] <= hi) => SumFunctionOnSet(scores, S) <= hi * Cardinality(S)
<1> DEFINE ones == [e \in S |-> 1]
<1>1. \A e \in S : ones[e] = 1 /\ ones[e] \in Nat
      OBVIOUS
<1> HIDE DEF ones
<1>2. Weighing(scores, scores, ones, S)
      BY <1>1 DEF Weighing
<1>3. SumFunctionOnSet(ones, S) = Cardinality(S)
      BY <1>1, SumOnes
<1>4. ASSUME NEW lo \in Int, \A e \in S : lo <= scores[e]
      PROVE  lo * Cardinality(S) <= SumFunctionOnSet(scores, S)
      BY <1>1, <1>2, <1>3, <1>4, WeighingAtLeast
<1>5. ASSUME NEW hi \in Int, \A e \in S : scores[e] <= hi
      PROVE  SumFunctionOnSet(scores, S) <= hi * Cardinality(S)
      BY <1>1, <1>2, <1>3, <1>5, WeighingAtMost
<1>6. SumFunctionOnSet(scores, S) \in Int
      BY SumElement
<1> QED BY <1>4, <1>5, <1>6

(* A mean over a common denominator, by the same bounds.                   *)
LEMMA MeanWithin ==
    ASSUME NEW common \in Nat, NEW count \in Nat, NEW y \in Nat, y * count = common, NEW u \in Int
    PROVE  /\ u * y \in Int
           /\ \A lo \in Int : lo * count <= u => lo * common <= u * y
           /\ \A hi \in Int : u <= hi * count => u * y <= hi * common
<1>1. ASSUME NEW c \in Int PROVE c * common = y * (c * count) /\ c * count \in Int
      <2>1. c * common = c * (y * count)
            OBVIOUS
      <2>2. c * (y * count) = y * (c * count) /\ c * count \in Int
            OBVIOUS
      <2> QED BY <2>1, <2>2
<1>2. u * y \in Int /\ u * y = y * u
      OBVIOUS
<1>3. ASSUME NEW lo \in Int, lo * count <= u PROVE lo * common <= u * y
      <2>1. y * (lo * count) <= y * u
            BY <1>1, <1>3, TimesGrows
      <2> QED BY <1>1, <1>2, <2>1
<1>4. ASSUME NEW hi \in Int, u <= hi * count PROVE u * y <= hi * common
      <2>1. y * u <= y * (hi * count)
            BY <1>1, <1>4, TimesGrows
      <2> QED BY <1>1, <1>2, <2>1
<1> QED BY <1>2, <1>3, <1>4

(* A weighted sum whose last weight may be less than nothing by one.       *)
LEMMA WeighingLast ==
    ASSUME NEW T, IsFiniteSet(T), NEW last \in T, NEW p, NEW e, NEW g, Weighing(g, p, e, T),
           NEW a \in Int, NEW b \in Int, \A t \in T : p[t] \in Int /\ a <= p[t] /\ p[t] <= b,
           \A t \in T \ {last} : e[t] \in Nat, e[last] \in Nat \union {-1},
           SumFunctionOnSet(e, T) = Whole
    PROVE  /\ SumFunctionOnSet(g, T) \in Int
           /\ a * Whole - (b - a) <= SumFunctionOnSet(g, T)
           /\ SumFunctionOnSet(g, T) <= b * Whole + (b - a)
           /\ e[last] \in Nat => /\ a * Whole <= SumFunctionOnSet(g, T)
                                 /\ SumFunctionOnSet(g, T) <= b * Whole
<1> DEFINE others == T \ {last}
           x == SumFunctionOnSet(g, T)
<1>1. \A t \in T : g[t] \in Int /\ e[t] \in Int
      BY DEF Weighing
<1>2. x = g[last] + SumFunctionOnSet(g, others) /\ SumFunctionOnSet(g, others) \in Int
      BY <1>1, SumSplit
<1>3. x \in Int /\ Whole \in Nat /\ a <= b
      BY <1>1, <1>2 DEF Whole
<1> HIDE DEF x
<1>4. CASE e[last] \in Nat
      <2>1. \A t \in T : e[t] \in Nat
            BY <1>4
      <2>2. a * SumFunctionOnSet(e, T) <= x
            BY <2>1, WeighingAtLeast DEF x
      <2>3. x <= b * SumFunctionOnSet(e, T)
            BY <2>1, WeighingAtMost DEF x
      <2>4. a * Whole \in Int /\ b * Whole \in Int
            BY <1>3
      <2> QED BY <1>3, <2>2, <2>3, <2>4 DEF x
<1>5. CASE e[last] = -1
      <2>1. IsFiniteSet(others) /\ Weighing(g, p, e, others)
            BY FS_RemoveElement DEF Weighing
      <2>2. SumFunctionOnSet(e, others) = Whole + 1
            <3>1. SumFunctionOnSet(e, T) = e[last] + SumFunctionOnSet(e, others)
                     /\ SumFunctionOnSet(e, others) \in Int
                  BY <1>1, SumSplit
            <3> QED BY <1>3, <1>5, <3>1
      <2>3. a * (Whole + 1) <= SumFunctionOnSet(g, others)
            BY <2>1, <2>2, WeighingAtLeast
      <2>4. SumFunctionOnSet(g, others) <= b * (Whole + 1)
            BY <2>1, <2>2, WeighingAtMost
      <2>5. g[last] = -p[last] /\ p[last] \in Int /\ a <= p[last] /\ p[last] <= b
            BY <1>5 DEF Weighing
      <2>6. /\ a * (Whole + 1) = a * Whole + a /\ a * Whole \in Int
            /\ b * (Whole + 1) = b * Whole + b /\ b * Whole \in Int
            BY <1>3
      <2> QED BY <1>2, <1>3, <1>5, <2>3, <2>4, <2>5, <2>6 DEF x
<1> QED BY <1>4, <1>5

(* What the types make of the scores (calculatePerformanceResult) lies     *)
(* between any bounds of the scores, whatever the weights: a hundredth     *)
(* beyond at most, and only if the last type is left less than nothing.    *)
THEOREM ConsolidateBounds ==
    ASSUME NEW weights, NEW type, NEW scores, IsFiniteSet(DOMAIN scores),
           NEW lo \in Int, NEW hi \in Int, hi - lo <= Whole,
           \A e \in DOMAIN scores : scores[e] \in Int /\ lo <= scores[e] /\ scores[e] <= hi,
           NEW T \in SUBSET (1..4), T # {}, T = PresentTypes(type, scores),
           \A t \in T : weights[Types[t]] \in Nat, Configured(weights, T) \in Nat \ {0}
    PROVE  /\ Consolidate(weights, type, scores) \in Int
           /\ lo - 1 <= Consolidate(weights, type, scores)
           /\ Consolidate(weights, type, scores) <= hi + 1
           /\ (\A t \in T : Effective(weights, T)[t] \in Nat) =>
                 /\ lo <= Consolidate(weights, type, scores)
                 /\ Consolidate(weights, type, scores) <= hi
<1> DEFINE E      == DOMAIN scores
           by     == [t \in T |-> {e \in E : type[e] = Types[t]}]
           count  == [t \in T |-> Cardinality(by[t])]
           common == Product(count)
           mean   == [t \in T |-> SumFunctionOnSet(scores, by[t]) * (common \div count[t])]
           effective == Effective(weights, T)
           last   == Max(T)
           part   == [t \in T |-> mean[t] * effective[t]]
           sum    == SumFunctionOnSet(part, T)
<1>0. IsFiniteSet(T)
      BY FewTypes, FS_Subset
<1>1. Consolidate(weights, type, scores) = RoundDiv(sum, common * Whole)
      BY DEF Consolidate, SumFunction
<1>2. ASSUME NEW t \in T
      PROVE  /\ by[t] \subseteq E /\ IsFiniteSet(by[t])
             /\ count[t] = Cardinality(by[t]) /\ count[t] \in Nat \ {0}
      <2>1. by[t] \subseteq E /\ by[t] # {}
            BY DEF PresentTypes
      <2>2. IsFiniteSet(by[t])
            BY <2>1, FS_Subset
      <2>3. Cardinality(by[t]) \in Nat \ {0}
            BY <2>1, <2>2, FS_CardinalityType, FS_EmptySet
      <2> QED BY <2>1, <2>2, <2>3
<1>3. common = ProductOnSet(count, T)
      BY ProductIs
<1>4. \A t \in T : mean[t] = SumFunctionOnSet(scores, by[t]) * (common \div count[t])
      OBVIOUS
<1>5. \A t \in T : part[t] = mean[t] * effective[t]
      OBVIOUS
<1>5a. /\ last \in T /\ \A t \in T \ {last} : effective[t] \in Nat
      /\ effective[last] \in Nat \union {-1} /\ DOMAIN effective = T
      /\ SumFunction(effective) = Whole
      BY EffectiveShares
<1> HIDE DEF by, count, common, mean, part, effective, last
<1>6. /\ common \in Nat \ {0}
      /\ \A t \in T : common \div count[t] \in Nat \ {0} /\ (common \div count[t]) * count[t] = common
      BY <1>0, <1>2, <1>3, ProductPositive
<1>7. ASSUME NEW t \in T
      PROVE  mean[t] \in Int /\ lo * common <= mean[t] /\ mean[t] <= hi * common
      <2> DEFINE u == SumFunctionOnSet(scores, by[t])
                 y == common \div count[t]
      <2>1. u \in Int /\ lo * count[t] <= u /\ u <= hi * count[t]
            <3>1. \A e \in by[t] : scores[e] \in Int /\ lo <= scores[e] /\ scores[e] <= hi
                  BY <1>2
            <3> QED BY <1>2, <3>1, ScoresWithin
      <2>2. y \in Nat /\ count[t] \in Nat /\ common \in Nat /\ y * count[t] = common
            BY <1>2, <1>6
      <2>3. mean[t] = u * y
            BY <1>4
      <2> HIDE DEF u, y
      <2>4. u * y \in Int /\ lo * common <= u * y /\ u * y <= hi * common
            BY <2>1, <2>2, MeanWithin
      <2> QED BY <2>3, <2>4
<1>8. Weighing(part, mean, effective, T)
      <2>1. ASSUME NEW t \in T PROVE part[t] \in Int /\ part[t] = mean[t] * effective[t]
            <3>1. mean[t] \in Int /\ effective[t] \in Int
                  BY <1>5a, <1>7
            <3> QED BY <1>5, <3>1
      <2> QED BY <2>1 DEF Weighing
<1> DEFINE a == lo * common
           b == hi * common
           d == common * Whole
<1>9. a \in Int /\ b \in Int /\ \A t \in T : mean[t] \in Int /\ a <= mean[t] /\ mean[t] <= b
      BY <1>6, <1>7
<1>10. SumFunctionOnSet(effective, T) = Whole /\ Whole \in Nat \ {0}
      BY <1>5a DEF SumFunction, Whole
<1>11. /\ d \in Nat \ {0}
       /\ a * Whole = lo * d /\ b * Whole = hi * d /\ lo * d \in Int /\ hi * d \in Int
       /\ (lo - 1) * d = lo * d - d /\ (hi + 1) * d = hi * d + d
      BY <1>6, <1>10
<1>12. b - a <= d
      <2>1. common * (hi - lo) <= common * Whole
            BY <1>6, <1>10, TimesGrows
      <2>2. common * (hi - lo) = b - a
            BY <1>6
      <2> QED BY <2>1, <2>2
<1> HIDE DEF a, b
<1>13. /\ sum \in Int /\ a * Whole - (b - a) <= sum /\ sum <= b * Whole + (b - a)
       /\ effective[last] \in Nat => a * Whole <= sum /\ sum <= b * Whole
      <2>1. /\ IsFiniteSet(T) /\ last \in T /\ Weighing(part, mean, effective, T)
            /\ a \in Int /\ b \in Int
            /\ \A t \in T : mean[t] \in Int /\ a <= mean[t] /\ mean[t] <= b
            /\ \A t \in T \ {last} : effective[t] \in Nat
            /\ effective[last] \in Nat \union {-1}
            /\ SumFunctionOnSet(effective, T) = Whole
            BY <1>0, <1>5a, <1>8, <1>9, <1>10
      <2> HIDE DEF sum
      <2>2. sum = SumFunctionOnSet(part, T)
            BY DEF sum
      <2> QED BY ONLY <2>1, <2>2, WeighingLast
<1> HIDE DEF d, sum
<1>14. (lo - 1) * d <= sum /\ sum <= (hi + 1) * d
      BY <1>9, <1>11, <1>12, <1>13
<1>15. RoundDiv(sum, d) \in Int /\ lo - 1 <= RoundDiv(sum, d) /\ RoundDiv(sum, d) <= hi + 1
      <2>1. lo - 1 \in Int /\ hi + 1 \in Int
            OBVIOUS
      <2> QED BY <1>11, <1>13, <1>14, <2>1, RoundAtLeast, RoundAtMost
<1>16. ASSUME \A t \in T : effective[t] \in Nat
       PROVE  lo <= RoundDiv(sum, d) /\ RoundDiv(sum, d) <= hi
      <2>1. lo * d <= sum /\ sum <= hi * d
            BY <1>5a, <1>11, <1>13, <1>16
      <2> QED BY <1>11, <1>13, <2>1, RoundAtLeast, RoundAtMost
<1> QED BY <1>1, <1>15, <1>16 DEF effective, d

(* Both parts of a result stay within what their weights sum to.           *)
LEMMA IntegrateWithin ==
    ASSUME NEW competencies \in Share, NEW goals \in Share, NEW cw \in Nat, NEW gw \in Nat
    PROVE  Integrate(competencies, goals, cw, gw) \in Int
           /\ 0 <= Integrate(competencies, goals, cw, gw)
           /\ Integrate(competencies, goals, cw, gw) <= cw + gw
<1> DEFINE n == competencies * cw + goals * gw
<1>1. competencies \in Nat /\ goals \in Nat /\ competencies <= Whole /\ goals <= Whole /\ Whole \in Nat \ {0}
      BY DEF Share, Whole
<1>2. competencies * cw \in Nat /\ goals * gw \in Nat /\ Whole * cw \in Int /\ Whole * gw \in Int
      BY <1>1
<1>3. competencies * cw <= Whole * cw /\ goals * gw <= Whole * gw
      BY <1>1, TimesGrows
<1>4. (cw + gw) * Whole = Whole * cw + Whole * gw
      BY <1>1
<1>5. n \in Int /\ 0 * Whole <= n /\ n <= (cw + gw) * Whole /\ cw + gw \in Int
      BY <1>1, <1>2, <1>3, <1>4
<1> HIDE DEF n
<1>6. RoundDiv(n, Whole) \in Int /\ 0 <= RoundDiv(n, Whole) /\ RoundDiv(n, Whole) <= cw + gw
      BY <1>1, <1>5, RoundAtLeast, RoundAtMost
<1> QED BY <1>6 DEF Integrate, n
=============================================================================
