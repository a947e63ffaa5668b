----------------------------- MODULE SumTheorems -----------------------------
(***************************************************************************)
(* Facts about sums and products over finite sets, for the arithmetic of   *)
(* goals and results.  The library defines them by a recursive function    *)
(* that takes the elements in an order of its own choice; these lemmas say *)
(* that the function exists, that the order does not matter, and how sums  *)
(* compare.  They are proved by taking a smallest set of which they fail.  *)
(***************************************************************************)
EXTENDS Integers, FiniteSets, Functions, FiniteSetTheorems, WellFoundedInduction, TLAPS

(* Among subsets of a finite set that are collected in B there is one with *)
(* no smaller one in B.                                                    *)
LEMMA SmallestSet ==
    ASSUME NEW S, IsFiniteSet(S), NEW B \in SUBSET SUBSET S, B # {}
    PROVE  \E m \in B : \A y \in B : y \subseteq m => y = m
<1> DEFINE R == StrictSubsetOrdering(S)
<1>1. IsWellFoundedOn(R, SUBSET S)
      BY FS_StrictSubsetOrderingWellFounded, FS_FiniteSubsetsOfFinite
<1>2. PICK m \in B : \A y \in B : ~(<<y, m>> \in R)
      <2> HIDE DEF R
      <2> QED BY <1>1, WFMin
<1>3. ASSUME NEW y \in B, y \subseteq m, y # m
      PROVE  <<y, m>> \in R
      <2>1. <<y, m>> \in (SUBSET S) \X (SUBSET S)
            OBVIOUS
      <2>2. <<y, m>>[1] = y /\ <<y, m>>[2] = m
            OBVIOUS
      <2> QED BY <1>3, <2>1, <2>2, Zenon DEF StrictSubsetOrdering
<1>4. \A y \in B : y \subseteq m => y = m
      <2> HIDE DEF R
      <2> QED BY <1>2, <1>3
<1> QED BY <1>4

-----------------------------------------------------------------------------
(* Folding.  it folds S from base by step: its value on a set combines an  *)
(* element of it with its value on the others.                             *)
Pick(s) == CHOOSE x \in s : TRUE

IsStep(step, S) == step \in [S \X Int -> Int]

FoldOf(it, base, step, S) ==
    /\ it \in [SUBSET S -> Int]
    /\ it[{}] = base
    /\ \A s \in SUBSET S : s # {} => it[s] = step[<<Pick(s), it[s \ {Pick(s)}]>>]

LEMMA PickIn == ASSUME NEW s, s # {} PROVE Pick(s) \in s
BY DEF Pick

(* Two folds agree where both are defined.                                 *)
LEMMA FoldUnique ==
    ASSUME NEW S, IsFiniteSet(S), NEW T, NEW base, NEW step, NEW it, NEW jt,
           FoldOf(it, base, step, S), FoldOf(jt, base, step, T),
           NEW s \in (SUBSET S) \intersect (SUBSET T)
    PROVE  it[s] = jt[s]
<1> DEFINE B == {b \in SUBSET s : it[b] # jt[b]}
<1>1. IsFiniteSet(s)
      BY FS_Subset
<1>2. SUFFICES ASSUME B # {} PROVE FALSE
      OBVIOUS
<1>3. PICK m \in B : \A y \in B : y \subseteq m => y = m
      <2>1. B \in SUBSET SUBSET s
            OBVIOUS
      <2> HIDE DEF B
      <2> QED BY <1>1, <1>2, <2>1, SmallestSet
<1>4. m # {}
      BY <1>3 DEF FoldOf
<1>5. Pick(m) \in m
      BY <1>4, PickIn
<1>6. it[m \ {Pick(m)}] = jt[m \ {Pick(m)}]
      <2>1. m \ {Pick(m)} \in SUBSET s /\ m \ {Pick(m)} # m /\ m \ {Pick(m)} \subseteq m
            BY <1>5
      <2> QED BY <1>3, <2>1
<1>7. m \in SUBSET S /\ m \in SUBSET T
      OBVIOUS
<1> QED BY <1>3, <1>4, <1>6, <1>7 DEF FoldOf

(* Every finite set has a fold.                                            *)
LEMMA FoldExists ==
    ASSUME NEW S, IsFiniteSet(S), NEW base \in Int, NEW step, IsStep(step, S)
    PROVE  \E it : FoldOf(it, base, step, S)
<1> DEFINE Has(T) == \E it : FoldOf(it, base, step, T)
           B      == {T \in SUBSET S : ~Has(T)}
<1>1. SUFFICES ASSUME B # {} PROVE FALSE
      OBVIOUS
<1>2. PICK m \in B : \A y \in B : y \subseteq m => y = m
      <2>1. B \in SUBSET SUBSET S
            OBVIOUS
      <2> HIDE DEF B
      <2> QED BY <1>1, <2>1, SmallestSet
<1>3. m \in SUBSET S /\ ~Has(m) /\ \A y \in SUBSET m : y # m => Has(y)
      BY <1>2
<1> DEFINE fold(y) == CHOOSE it : FoldOf(it, base, step, y)
           value(y) == fold(y)[y]
           jt == [y \in SUBSET m |->
                    IF y = {} THEN base
                    ELSE IF y # m THEN value(y)
                    ELSE step[<<Pick(m), value(m \ {Pick(m)})>>]]
<1>4. ASSUME NEW y \in SUBSET m, y # m
      PROVE  FoldOf(fold(y), base, step, y)
      <2>1. \E it : FoldOf(it, base, step, y)
            BY <1>3, <1>4
      <2> QED BY <2>1, Zenon
<1>5. ASSUME NEW y \in SUBSET m, y # m
      PROVE  value(y) \in Int /\ (y = {} => value(y) = base)
      <2>1. FoldOf(fold(y), base, step, y) /\ y \in SUBSET y
            BY <1>4, <1>5
      <2> HIDE DEF fold
      <2> QED BY <2>1 DEF FoldOf
<1>6. \A y \in SUBSET m : y # {} => Pick(y) \in y
      BY PickIn
<1>7. \A y \in SUBSET m : y # {} /\ y # m => value(y) = step[<<Pick(y), value(y \ {Pick(y)})>>]
      <2> TAKE y \in SUBSET m
      <2> HAVE y # {} /\ y # m
      <2> DEFINE z == y \ {Pick(y)}
      <2>1. z \in SUBSET m /\ z # m /\ z \in SUBSET y
            OBVIOUS
      <2>2. FoldOf(fold(y), base, step, y) /\ FoldOf(fold(z), base, step, z)
            BY <1>4, <2>1
      <2>3. IsFiniteSet(y)
            BY <1>3, FS_Subset
      <2>4. fold(y)[z] = fold(z)[z]
            <3> HIDE DEF fold, z
            <3> QED BY <2>1, <2>2, <2>3, FoldUnique
      <2>5. fold(y)[y] = step[<<Pick(y), fold(y)[z]>>]
            <3> HIDE DEF fold
            <3> QED BY <2>2 DEF FoldOf
      <2> HIDE DEF fold
      <2> QED BY <2>4, <2>5
<1>8. jt \in [SUBSET m -> Int]
      <2>1. m # {} => step[<<Pick(m), value(m \ {Pick(m)})>>] \in Int
            <3> SUFFICES ASSUME m # {} PROVE step[<<Pick(m), value(m \ {Pick(m)})>>] \in Int
                OBVIOUS
            <3>1. Pick(m) \in S /\ m \ {Pick(m)} \in SUBSET m /\ m \ {Pick(m)} # m
                  BY <1>3, <1>6
            <3>2. value(m \ {Pick(m)}) \in Int
                  BY <1>5, <3>1
            <3> HIDE DEF value
            <3> QED BY <3>1, <3>2 DEF IsStep
      <2> HIDE DEF value
      <2> QED BY <1>5, <2>1
<1>9. \A y \in SUBSET m : y # {} => jt[y] = step[<<Pick(y), jt[y \ {Pick(y)}]>>]
      <2> TAKE y \in SUBSET m
      <2> HAVE y # {}
      <2> DEFINE z == y \ {Pick(y)}
      <2>1. z \in SUBSET m /\ z # m
            BY <1>6
      <2>2. jt[z] = value(z)
            <3> HIDE DEF value
            <3> QED BY <1>5, <2>1
      <2>3. CASE y = m
            <3> HIDE DEF value
            <3> QED BY <2>2, <2>3
      <2>4. CASE y # m
            <3>1. jt[y] = value(y)
                  <4> HIDE DEF value
                  <4> QED BY <2>4
            <3> HIDE DEF value, jt
            <3> QED BY <1>7, <2>2, <2>4, <3>1
      <2> QED BY <2>3, <2>4
<1>10. jt[{}] = base
      OBVIOUS
<1>11. FoldOf(jt, base, step, m)
      <2> HIDE DEF jt
      <2> QED BY <1>8, <1>9, <1>10 DEF FoldOf
<1> QED BY <1>3, <1>11

Commutes(step, S) ==
    \A x, y \in S, v \in Int : step[<<x, step[<<y, v>>]>>] = step[<<y, step[<<x, v>>]>>]

(* When the step commutes any element may be taken first.                  *)
LEMMA FoldAny ==
    ASSUME NEW S, IsFiniteSet(S), NEW base \in Int, NEW step, IsStep(step, S), NEW it,
           FoldOf(it, base, step, S), Commutes(step, S)
    PROVE  \A s \in SUBSET S : \A x \in s : it[s] = step[<<x, it[s \ {x}]>>]
<1> DEFINE Apart(b) == \E z \in b : it[b] # step[<<z, it[b \ {z}]>>]
           B        == {b \in SUBSET S : Apart(b)}
<1>1. SUFFICES ASSUME B # {} PROVE FALSE
      OBVIOUS
<1>2. PICK m \in B : \A y \in B : y \subseteq m => y = m
      <2>1. B \in SUBSET SUBSET S
            OBVIOUS
      <2> HIDE DEF B
      <2> QED BY <1>1, <2>1, SmallestSet
<1>3. PICK z \in m : it[m] # step[<<z, it[m \ {z}]>>]
      OBVIOUS
<1> DEFINE p == Pick(m)
           v == it[(m \ {p}) \ {z}]
<1>4. p \in m /\ it[m] = step[<<p, it[m \ {p}]>>] /\ m \in SUBSET S
      BY <1>3, PickIn DEF FoldOf
<1>5. p # z
      BY <1>3, <1>4
<1>6. ASSUME NEW b \in SUBSET m, b # m, NEW y \in b
      PROVE  it[b] = step[<<y, it[b \ {y}]>>]
      <2>1. b \notin B
            BY <1>2, <1>6
      <2> QED BY <1>4, <1>6, <2>1
<1>7. it[m \ {p}] = step[<<z, v>>]
      BY <1>4, <1>5, <1>6
<1>8. it[m \ {z}] = step[<<p, v>>]
      <2>1. (m \ {z}) \ {p} = (m \ {p}) \ {z}
            OBVIOUS
      <2>2. m \ {z} \in SUBSET m /\ m \ {z} # m /\ p \in m \ {z}
            BY <1>4, <1>5
      <2>3. it[m \ {z}] = step[<<p, it[(m \ {z}) \ {p}]>>]
            BY <1>6, <2>2
      <2> QED BY <2>1, <2>3
<1>9. v \in Int
      BY <1>4 DEF FoldOf
<1>10. step[<<p, step[<<z, v>>]>>] = step[<<z, step[<<p, v>>]>>]
      <2>1. p \in S /\ z \in S
            BY <1>4
      <2> HIDE DEF v, p
      <2> QED BY <1>9, <2>1 DEF Commutes
<1> QED BY <1>3, <1>4, <1>7, <1>8, <1>10

-----------------------------------------------------------------------------
(* Sums.                                                                   *)
AddStep(f, S) == [p \in S \X Int |-> f[p[1]] + p[2]]

LEMMA AddStepType ==
    ASSUME NEW f, NEW S, \A s \in S : f[s] \in Int
    PROVE  IsStep(AddStep(f, S), S)
<1>1. \A p \in S \X Int : p[1] \in S /\ p[2] \in Int /\ f[p[1]] + p[2] \in Int
      OBVIOUS
<1> QED BY <1>1 DEF AddStep, IsStep

LEMMA AddStepValue ==
    ASSUME NEW f, NEW S, NEW x \in S, NEW v \in Int
    PROVE  AddStep(f, S)[<<x, v>>] = f[x] + v
<1>1. <<x, v>> \in S \X Int /\ <<x, v>>[1] = x /\ <<x, v>>[2] = v
      OBVIOUS
<1> QED BY <1>1 DEF AddStep

(* The sum over a part of S is the value there of any fold of S.           *)
LEMMA SumFold ==
    ASSUME NEW f, NEW S, IsFiniteSet(S), \A s \in S : f[s] \in Int,
           NEW it, FoldOf(it, 0, AddStep(f, S), S), NEW T \in SUBSET S
    PROVE  SumFunctionOnSet(f, T) = it[T]
<1> DEFINE Sums(kt) == kt = [s \in SUBSET T |-> IF s = {} THEN 0
                                               ELSE f[CHOOSE x \in s : TRUE]
                                                    + kt[s \ {CHOOSE x \in s : TRUE}]]
           jt == [s \in SUBSET T |-> it[s]]
           kt == CHOOSE k : Sums(k)
<1>1. SumFunctionOnSet(f, T) = kt[T]
      BY DEF SumFunctionOnSet, FoldFunctionOnSet, MapThenFoldSet
<1>2. \A s \in SUBSET T : s # {} => Pick(s) \in s /\ it[s] = f[Pick(s)] + it[s \ {Pick(s)}]
      <2> TAKE s \in SUBSET T
      <2> HAVE s # {}
      <2>1. Pick(s) \in s
            BY PickIn
      <2>2. it[s \ {Pick(s)}] \in Int /\ Pick(s) \in S
            BY <2>1 DEF FoldOf
      <2>3. it[s] = AddStep(f, S)[<<Pick(s), it[s \ {Pick(s)}]>>]
            BY DEF FoldOf
      <2>4. AddStep(f, S)[<<Pick(s), it[s \ {Pick(s)}]>>] = f[Pick(s)] + it[s \ {Pick(s)}]
            BY <2>2, AddStepValue
      <2> QED BY <2>1, <2>3, <2>4
<1>3. it[{}] = 0
      BY DEF FoldOf
<1>4. Sums(jt)
      <2>1. \A s \in SUBSET T : s # {} => jt[s] = f[Pick(s)] + jt[s \ {Pick(s)}]
            BY <1>2
      <2>2. jt = [s \in SUBSET T |-> IF s = {} THEN 0 ELSE f[Pick(s)] + jt[s \ {Pick(s)}]]
            BY <1>3, <2>1
      <2> QED BY <2>2, Zenon DEF Pick
<1>5. Sums(kt)
      <2>1. \E k : Sums(k)
            <3> HIDE DEF Sums
            <3> QED BY <1>4
      <2> HIDE DEF Sums
      <2> QED BY <2>1, Zenon
<1>6. \A s \in SUBSET T : kt[s] = IF s = {} THEN 0 ELSE f[Pick(s)] + kt[s \ {Pick(s)}]
      <2>1. kt = [s \in SUBSET T |-> IF s = {} THEN 0 ELSE f[Pick(s)] + kt[s \ {Pick(s)}]]
            <3> HIDE DEF kt
            <3> QED BY <1>5, Zenon DEF Pick
      <2> HIDE DEF kt
      <2> QED BY <2>1
<1>7. IsFiniteSet(T)
      BY FS_Subset
<1> DEFINE B == {s \in SUBSET T : kt[s] # it[s]}
<1>8. SUFFICES ASSUME B # {} PROVE FALSE
      BY <1>1
<1>9. PICK m \in B : \A y \in B : y \subseteq m => y = m
      <2>1. B \in SUBSET SUBSET T
            OBVIOUS
      <2> HIDE DEF B
      <2> QED BY <1>7, <1>8, <2>1, SmallestSet
<1>10. m # {}
      <2> HIDE DEF kt
      <2> QED BY <1>3, <1>6
<1>11. m \ {Pick(m)} \in SUBSET T /\ m \ {Pick(m)} # m /\ m \in SUBSET T
      BY <1>2, <1>10
<1>12. kt[m \ {Pick(m)}] = it[m \ {Pick(m)}]
      <2> HIDE DEF kt
      <2> QED BY <1>9, <1>11
<1> HIDE DEF kt
<1> QED BY <1>2, <1>6, <1>9, <1>10, <1>11, <1>12

(* What a sum is: nothing over no element, and any element plus the rest.  *)
LEMMA SumElement ==
    ASSUME NEW f, NEW S, IsFiniteSet(S), \A s \in S : f[s] \in Int
    PROVE  /\ SumFunctionOnSet(f, S) \in Int
           /\ SumFunctionOnSet(f, {}) = 0
           /\ \A x \in S : SumFunctionOnSet(f, S) = f[x] + SumFunctionOnSet(f, S \ {x})
<1> DEFINE step == AddStep(f, S)
<1>1. IsStep(step, S) /\ \A x \in S, v \in Int : step[<<x, v>>] = f[x] + v
      <2>1. ASSUME NEW x \in S, NEW v \in Int PROVE step[<<x, v>>] = f[x] + v
            BY AddStepValue, Zenon
      <2>2. IsStep(step, S)
            BY AddStepType, Zenon
      <2> HIDE DEF step
      <2> QED BY <2>1, <2>2
<1>2. PICK it : FoldOf(it, 0, step, S)
      <2>1. 0 \in Int
            OBVIOUS
      <2> HIDE DEF step
      <2> QED BY <1>1, <2>1, FoldExists, Zenon
<1>3. ASSUME NEW T \in SUBSET S PROVE SumFunctionOnSet(f, T) = it[T] /\ it[T] \in Int
      <2>1. SumFunctionOnSet(f, T) = it[T]
            BY <1>2, <1>3, SumFold
      <2>2. it[T] \in Int
            <3> HIDE DEF step
            <3> QED BY <1>2 DEF FoldOf
      <2> QED BY <2>1, <2>2
<1>4. Commutes(step, S)
      <2> SUFFICES ASSUME NEW x \in S, NEW y \in S, NEW v \in Int
                   PROVE  step[<<x, step[<<y, v>>]>>] = step[<<y, step[<<x, v>>]>>]
          <3> HIDE DEF step
          <3> QED BY DEF Commutes
      <2>1. f[x] \in Int /\ f[y] \in Int /\ f[y] + v \in Int /\ f[x] + v \in Int
            OBVIOUS
      <2>2. step[<<x, f[y] + v>>] = f[x] + (f[y] + v) /\ step[<<y, f[x] + v>>] = f[y] + (f[x] + v)
            <3> HIDE DEF step
            <3> QED BY <1>1, <2>1
      <2> HIDE DEF step
      <2> QED BY <1>1, <2>1, <2>2
<1>5. ASSUME NEW x \in S PROVE it[S] = f[x] + it[S \ {x}]
      <2>1. it[S] = step[<<x, it[S \ {x}]>>]
            <3>1. 0 \in Int /\ S \in SUBSET S
                  OBVIOUS
            <3> HIDE DEF step
            <3>2. \A s \in SUBSET S : \A y \in s : it[s] = step[<<y, it[s \ {y}]>>]
                  BY <1>1, <1>2, <1>4, <3>1, FoldAny
            <3> QED BY <1>5, <3>1, <3>2
      <2>2. it[S \ {x}] \in Int
            BY <1>3
      <2> HIDE DEF step
      <2> QED BY <1>1, <2>1, <2>2
<1>6. it[{}] = 0
      BY <1>2 DEF FoldOf
<1> QED BY <1>3, <1>5, <1>6

LEMMA SumSplit ==
    ASSUME NEW S, IsFiniteSet(S), NEW f, \A s \in S : f[s] \in Int, NEW x \in S
    PROVE  /\ SumFunctionOnSet(f, S) = f[x] + SumFunctionOnSet(f, S \ {x})
           /\ SumFunctionOnSet(f, S \ {x}) \in Int
<1>1. IsFiniteSet(S \ {x}) /\ \A s \in S \ {x} : f[s] \in Int
      BY FS_RemoveElement
<1>2. SumFunctionOnSet(f, S \ {x}) \in Int
      BY <1>1, SumElement
<1> QED BY <1>2, SumElement

-----------------------------------------------------------------------------
(* Products, in the same way.                                              *)
ProductOnSet(f, S) == FoldFunctionOnSet(LAMBDA x, y : x * y, 1, f, S)

TimesStep(f, S) == [p \in S \X Int |-> f[p[1]] * p[2]]

LEMMA TimesStepType ==
    ASSUME NEW f, NEW S, \A s \in S : f[s] \in Int
    PROVE  IsStep(TimesStep(f, S), S)
<1>1. \A p \in S \X Int : p[1] \in S /\ p[2] \in Int /\ f[p[1]] * p[2] \in Int
      OBVIOUS
<1> QED BY <1>1 DEF TimesStep, IsStep

LEMMA TimesStepValue ==
    ASSUME NEW f, NEW S, NEW x \in S, NEW v \in Int
    PROVE  TimesStep(f, S)[<<x, v>>] = f[x] * v
<1>1. <<x, v>> \in S \X Int /\ <<x, v>>[1] = x /\ <<x, v>>[2] = v
      OBVIOUS
<1> QED BY <1>1 DEF TimesStep

(* The product over a part of S is the value there of any fold of S.       *)
LEMMA ProductFold ==
    ASSUME NEW f, NEW S, IsFiniteSet(S), \A s \in S : f[s] \in Int,
           NEW it, FoldOf(it, 1, TimesStep(f, S), S), NEW T \in SUBSET S
    PROVE  ProductOnSet(f, T) = it[T]
<1> DEFINE Folds(kt) == kt = [s \in SUBSET T |-> IF s = {} THEN 1
                                               ELSE f[CHOOSE x \in s : TRUE]
                                                    * kt[s \ {CHOOSE x \in s : TRUE}]]
           jt == [s \in SUBSET T |-> it[s]]
           kt == CHOOSE k : Folds(k)
<1>1. ProductOnSet(f, T) = kt[T]
      BY DEF ProductOnSet, FoldFunctionOnSet, MapThenFoldSet
<1>2. \A s \in SUBSET T : s # {} => Pick(s) \in s /\ it[s] = f[Pick(s)] * it[s \ {Pick(s)}]
      <2> TAKE s \in SUBSET T
      <2> HAVE s # {}
      <2>1. Pick(s) \in s
            BY PickIn
      <2>2. it[s \ {Pick(s)}] \in Int /\ Pick(s) \in S
            BY <2>1 DEF FoldOf
      <2>3. it[s] = TimesStep(f, S)[<<Pick(s), it[s \ {Pick(s)}]>>]
            BY DEF FoldOf
      <2>4. TimesStep(f, S)[<<Pick(s), it[s \ {Pick(s)}]>>] = f[Pick(s)] * it[s \ {Pick(s)}]
            BY <2>2, TimesStepValue
      <2> QED BY <2>1, <2>3, <2>4
<1>3. it[{}] = 1
      BY DEF FoldOf
<1>4. Folds(jt)
      <2>1. \A s \in SUBSET T : s # {} => jt[s] = f[Pick(s)] * jt[s \ {Pick(s)}]
            BY <1>2
      <2>2. jt = [s \in SUBSET T |-> IF s = {} THEN 1 ELSE f[Pick(s)] * jt[s \ {Pick(s)}]]
            BY <1>3, <2>1
      <2> QED BY <2>2, Zenon DEF Pick
<1>5. Folds(kt)
      <2>1. \E k : Folds(k)
            <3> HIDE DEF Folds
            <3> QED BY <1>4
      <2> HIDE DEF Folds
      <2> QED BY <2>1, Zenon
<1>6. \A s \in SUBSET T : kt[s] = IF s = {} THEN 1 ELSE f[Pick(s)] * kt[s \ {Pick(s)}]
      <2>1. kt = [s \in SUBSET T |-> IF s = {} THEN 1 ELSE f[Pick(s)] * kt[s \ {Pick(s)}]]
            <3> HIDE DEF kt
            <3> QED BY <1>5, Zenon DEF Pick
      <2> HIDE DEF kt
      <2> QED BY <2>1
<1>7. IsFiniteSet(T)
      BY FS_Subset
<1> DEFINE B == {s \in SUBSET T : kt[s] # it[s]}
<1>8. SUFFICES ASSUME B # {} PROVE FALSE
      BY <1>1
<1>9. PICK m \in B : \A y \in B : y \subseteq m => y = m
      <2>1. B \in SUBSET SUBSET T
            OBVIOUS
      <2> HIDE DEF B
      <2> QED BY <1>7, <1>8, <2>1, SmallestSet
<1>10. m # {}
      <2> HIDE DEF kt
      <2> QED BY <1>3, <1>6
<1>11. m \ {Pick(m)} \in SUBSET T /\ m \ {Pick(m)} # m /\ m \in SUBSET T
      BY <1>2, <1>10
<1>12. kt[m \ {Pick(m)}] = it[m \ {Pick(m)}]
      <2> HIDE DEF kt
      <2> QED BY <1>9, <1>11
<1> HIDE DEF kt
<1> QED BY <1>2, <1>6, <1>9, <1>10, <1>11, <1>12

(* What a product is: one over no element, any element times the rest.     *)
LEMMA ProductElement ==
    ASSUME NEW f, NEW S, IsFiniteSet(S), \A s \in S : f[s] \in Int
    PROVE  /\ ProductOnSet(f, S) \in Int
           /\ ProductOnSet(f, {}) = 1
           /\ \A x \in S : ProductOnSet(f, S) = f[x] * ProductOnSet(f, S \ {x})
<1> DEFINE step == TimesStep(f, S)
<1>1. IsStep(step, S) /\ \A x \in S, v \in Int : step[<<x, v>>] = f[x] * v
      <2>1. ASSUME NEW x \in S, NEW v \in Int PROVE step[<<x, v>>] = f[x] * v
            BY TimesStepValue, Zenon
      <2>2. IsStep(step, S)
            BY TimesStepType, Zenon
      <2> HIDE DEF step
      <2> QED BY <2>1, <2>2
<1>2. PICK it : FoldOf(it, 1, step, S)
      <2>1. 1 \in Int
            OBVIOUS
      <2> HIDE DEF step
      <2> QED BY <1>1, <2>1, FoldExists, Zenon
<1>3. ASSUME NEW T \in SUBSET S PROVE ProductOnSet(f, T) = it[T] /\ it[T] \in Int
      <2>1. ProductOnSet(f, T) = it[T]
            BY <1>2, <1>3, ProductFold
      <2>2. it[T] \in Int
            <3> HIDE DEF step
            <3> QED BY <1>2 DEF FoldOf
      <2> QED BY <2>1, <2>2
<1>4. Commutes(step, S)
      <2> SUFFICES ASSUME NEW x \in S, NEW y \in S, NEW v \in Int
                   PROVE  step[<<x, step[<<y, v>>]>>] = step[<<y, step[<<x, v>>]>>]
          <3> HIDE DEF step
          <3> QED BY DEF Commutes
      <2>1. f[x] \in Int /\ f[y] \in Int /\ f[y] * v \in Int /\ f[x] * v \in Int
            OBVIOUS
      <2>2. step[<<x, f[y] * v>>] = f[x] * (f[y] * v) /\ step[<<y, f[x] * v>>] = f[y] * (f[x] * v)
            <3> HIDE DEF step
            <3> QED BY <1>1, <2>1
      <2> HIDE DEF step
      <2> QED BY <1>1, <2>1, <2>2
<1>5. ASSUME NEW x \in S PROVE it[S] = f[x] * it[S \ {x}]
      <2>1. it[S] = step[<<x, it[S \ {x}]>>]
            <3>1. 1 \in Int /\ S \in SUBSET S
                  OBVIOUS
            <3> HIDE DEF step
            <3>2. \A s \in SUBSET S : \A y \in s : it[s] = step[<<y, it[s \ {y}]>>]
                  BY <1>1, <1>2, <1>4, <3>1, FoldAny
            <3> QED BY <1>5, <3>1, <3>2
      <2>2. it[S \ {x}] \in Int
            BY <1>3
      <2> HIDE DEF step
      <2> QED BY <1>1, <2>1, <2>2
<1>6. it[{}] = 1
      BY <1>2 DEF FoldOf
<1> QED BY <1>3, <1>5, <1>6

-----------------------------------------------------------------------------
(* What holds of no element, and of a set when it holds of the set without *)
(* any one element, holds of every finite set.                             *)
LEMMA FiniteInduction ==
    ASSUME NEW S, IsFiniteSet(S), NEW G, {} \in G,
           \A s \in SUBSET S : \A x \in s : s \ {x} \in G => s \in G
    PROVE  \A s \in SUBSET S : s \in G
<1> DEFINE B == {s \in SUBSET S : s \notin G}
<1>1. SUFFICES ASSUME B # {} PROVE FALSE
      OBVIOUS
<1>2. PICK m \in B : \A y \in B : y \subseteq m => y = m
      <2>1. B \in SUBSET SUBSET S
            OBVIOUS
      <2> HIDE DEF B
      <2> QED BY <1>1, <2>1, SmallestSet
<1>3. PICK x \in m : TRUE
      OBVIOUS
<1>4. m \ {x} \in SUBSET S /\ m \ {x} # m /\ m \ {x} \subseteq m
      OBVIOUS
<1>5. m \ {x} \in G
      BY <1>2, <1>4
<1> QED BY <1>5

(* The sums over the parts of a finite set.                                *)
LEMMA SumStep ==
    ASSUME NEW f, NEW S, IsFiniteSet(S), \A s \in S : f[s] \in Int, NEW T \in SUBSET S
    PROVE  /\ SumFunctionOnSet(f, T) \in Int
           /\ SumFunctionOnSet(f, {}) = 0
           /\ \A x \in T : SumFunctionOnSet(f, T) = f[x] + SumFunctionOnSet(f, T \ {x})
<1>1. IsFiniteSet(T) /\ \A s \in T : f[s] \in Int
      BY FS_Subset
<1> QED BY <1>1, SumElement

LEMMA SumSteps ==
    ASSUME NEW f, NEW S, IsFiniteSet(S), \A s \in S : f[s] \in Int
    PROVE  \A T \in SUBSET S :
              /\ SumFunctionOnSet(f, T) \in Int
              /\ SumFunctionOnSet(f, {}) = 0
              /\ \A x \in T : SumFunctionOnSet(f, T) = f[x] + SumFunctionOnSet(f, T \ {x})
BY SumStep

(* Sums compare as their terms do.                                         *)
LEMMA SumAtMost ==
    ASSUME NEW S, IsFiniteSet(S), NEW f, NEW g,
           \A s \in S : f[s] \in Int /\ g[s] \in Int /\ f[s] <= g[s]
    PROVE  SumFunctionOnSet(f, S) <= SumFunctionOnSet(g, S)
<1> DEFINE F(s) == SumFunctionOnSet(f, s)
           H(s) == SumFunctionOnSet(g, s)
           G    == {s \in SUBSET S : F(s) <= H(s)}
<1>1. \A s \in SUBSET S : F(s) \in Int /\ F({}) = 0 /\ \A x \in s : F(s) = f[x] + F(s \ {x})
      BY SumStep
<1>2. \A s \in SUBSET S : H(s) \in Int /\ H({}) = 0 /\ \A x \in s : H(s) = g[x] + H(s \ {x})
      BY SumStep
<1> HIDE DEF F, H
<1>3. {} \in G
      BY <1>1, <1>2
<1>4. ASSUME NEW s \in SUBSET S, NEW x \in s, s \ {x} \in G
      PROVE  s \in G
      <2>1. F(s) = f[x] + F(s \ {x}) /\ H(s) = g[x] + H(s \ {x})
            BY <1>1, <1>2
      <2>2. F(s \ {x}) <= H(s \ {x}) /\ F(s \ {x}) \in Int /\ H(s \ {x}) \in Int
            BY <1>1, <1>2, <1>4
      <2>3. f[x] \in Int /\ g[x] \in Int /\ f[x] <= g[x]
            OBVIOUS
      <2>4. F(s) <= H(s)
            BY <2>1, <2>2, <2>3
      <2> QED BY <2>4
<1>5. \A s \in SUBSET S : s \in G
      <2> HIDE DEF G
      <2> QED BY <1>3, <1>4, FiniteInduction
<1>6. S \in G
      <2> HIDE DEF G
      <2> QED BY <1>5
<1> QED BY <1>6 DEF F, H

(* The terms alone make the sum.                                           *)
LEMMA SumSame ==
    ASSUME NEW S, IsFiniteSet(S), NEW f, NEW g,
           \A s \in S : f[s] \in Int /\ f[s] = g[s]
    PROVE  SumFunctionOnSet(f, S) = SumFunctionOnSet(g, S)
<1>1. SumFunctionOnSet(f, S) \in Int /\ SumFunctionOnSet(g, S) \in Int
      BY SumElement
<1>2. SumFunctionOnSet(f, S) <= SumFunctionOnSet(g, S)
      <2>1. \A s \in S : f[s] \in Int /\ g[s] \in Int /\ f[s] <= g[s]
            OBVIOUS
      <2> QED BY <2>1, SumAtMost
<1>3. SumFunctionOnSet(g, S) <= SumFunctionOnSet(f, S)
      <2>1. \A s \in S : f[s] \in Int /\ g[s] \in Int /\ g[s] <= f[s]
            OBVIOUS
      <2> QED BY <2>1, SumAtMost
<1> QED BY <1>1, <1>2, <1>3

(* A sum of multiples is the multiple of the sum.                          *)
Scaled(g, c, f, S) == \A s \in S : g[s] \in Int /\ g[s] = c * f[s]

LEMMA SumTimes ==
    ASSUME NEW S, IsFiniteSet(S), NEW f, NEW g, NEW c \in Int,
           \A s \in S : f[s] \in Int, Scaled(g, c, f, S)
    PROVE  SumFunctionOnSet(g, S) = c * SumFunctionOnSet(f, S)
<1> DEFINE F(s) == SumFunctionOnSet(f, s)
           H(s) == SumFunctionOnSet(g, s)
           G    == {s \in SUBSET S : H(s) = c * F(s)}
<1>0. \A s \in S : g[s] \in Int
      BY DEF Scaled
<1>1. \A s \in SUBSET S : F(s) \in Int /\ F({}) = 0 /\ \A x \in s : F(s) = f[x] + F(s \ {x})
      BY <1>0, SumSteps
<1>2. \A s \in SUBSET S : H(s) \in Int /\ H({}) = 0 /\ \A x \in s : H(s) = g[x] + H(s \ {x})
      BY <1>0, SumSteps
<1> HIDE DEF F, H
<1>3. {} \in G
      BY <1>1, <1>2
<1>4. ASSUME NEW s \in SUBSET S, NEW x \in s, s \ {x} \in G
      PROVE  s \in G
      <2>1. F(s) = f[x] + F(s \ {x}) /\ H(s) = c * f[x] + H(s \ {x})
            BY <1>1, <1>2 DEF Scaled
      <2>2. H(s \ {x}) = c * F(s \ {x}) /\ F(s \ {x}) \in Int /\ f[x] \in Int
            BY <1>1, <1>4
      <2>3. c * (f[x] + F(s \ {x})) = c * f[x] + c * F(s \ {x})
            BY <2>2
      <2> QED BY <2>1, <2>2, <2>3
<1>5. \A s \in SUBSET S : s \in G
      <2> HIDE DEF G
      <2> QED BY <1>3, <1>4, FiniteInduction
<1>6. S \in G
      <2> HIDE DEF G
      <2> QED BY <1>5
<1> QED BY <1>6 DEF F, H

(* A sum of sums is the sum of both.                                       *)
LEMMA SumPlus ==
    ASSUME NEW S, IsFiniteSet(S), NEW f, NEW g, NEW h,
           \A s \in S : f[s] \in Int /\ g[s] \in Int /\ h[s] = f[s] + g[s]
    PROVE  SumFunctionOnSet(h, S) = SumFunctionOnSet(f, S) + SumFunctionOnSet(g, S)
<1> DEFINE F(s) == SumFunctionOnSet(f, s)
           H(s) == SumFunctionOnSet(g, s)
           K(s) == SumFunctionOnSet(h, s)
           G    == {s \in SUBSET S : K(s) = F(s) + H(s)}
<1>0. \A s \in S : h[s] \in Int
      OBVIOUS
<1>1. \A s \in SUBSET S : F(s) \in Int /\ F({}) = 0 /\ \A x \in s : F(s) = f[x] + F(s \ {x})
      BY SumStep
<1>2. \A s \in SUBSET S : H(s) \in Int /\ H({}) = 0 /\ \A x \in s : H(s) = g[x] + H(s \ {x})
      BY SumStep
<1>3. \A s \in SUBSET S : K(s) \in Int /\ K({}) = 0 /\ \A x \in s : K(s) = h[x] + K(s \ {x})
      BY <1>0, SumStep
<1> HIDE DEF F, H, K
<1>4. {} \in G
      BY <1>1, <1>2, <1>3
<1>5. ASSUME NEW s \in SUBSET S, NEW x \in s, s \ {x} \in G
      PROVE  s \in G
      <2>1. F(s) = f[x] + F(s \ {x}) /\ H(s) = g[x] + H(s \ {x}) /\ K(s) = h[x] + K(s \ {x})
            BY <1>1, <1>2, <1>3
      <2>2. /\ F(s \ {x}) \in Int /\ H(s \ {x}) \in Int
            /\ K(s \ {x}) = F(s \ {x}) + H(s \ {x})
            BY <1>1, <1>2, <1>5
      <2>3. f[x] \in Int /\ g[x] \in Int /\ h[x] = f[x] + g[x]
            OBVIOUS
      <2>4. K(s) = F(s) + H(s)
            BY <2>1, <2>2, <2>3
      <2> QED BY <2>4
<1>6. \A s \in SUBSET S : s \in G
      <2> HIDE DEF G
      <2> QED BY <1>4, <1>5, FiniteInduction
<1>7. S \in G
      <2> HIDE DEF G
      <2> QED BY <1>6
<1> QED BY <1>7 DEF F, H, K

(* A sum of ones counts.                                                   *)
LEMMA SumOnes ==
    ASSUME NEW S, IsFiniteSet(S), NEW f, \A s \in S : f[s] = 1
    PROVE  SumFunctionOnSet(f, S) = Cardinality(S)
<1> DEFINE F(s) == SumFunctionOnSet(f, s)
           G    == {s \in SUBSET S : F(s) = Cardinality(s)}
<1>1. \A s \in SUBSET S : F(s) \in Int /\ F({}) = 0 /\ \A x \in s : F(s) = f[x] + F(s \ {x})
      BY SumStep
<1> HIDE DEF F
<1>2. {} \in G
      BY <1>1, FS_EmptySet
<1>3. ASSUME NEW s \in SUBSET S, NEW x \in s, s \ {x} \in G
      PROVE  s \in G
      <2>1. IsFiniteSet(s)
            BY FS_Subset
      <2>2. Cardinality(s \ {x}) = Cardinality(s) - 1 /\ Cardinality(s) \in Nat
            BY <2>1, FS_RemoveElement, FS_CardinalityType
      <2>3. F(s) = 1 + F(s \ {x})
            BY <1>1
      <2> QED BY <1>3, <2>2, <2>3
<1>4. \A s \in SUBSET S : s \in G
      <2> HIDE DEF G
      <2> QED BY <1>2, <1>3, FiniteInduction
<1>5. S \in G
      <2> HIDE DEF G
      <2> QED BY <1>4
<1> QED BY <1>5 DEF F

(* Of terms that are not negative a part sums to no more than all.         *)
LEMMA SumPart ==
    ASSUME NEW S, IsFiniteSet(S), NEW f, \A s \in S : f[s] \in Nat, NEW T \in SUBSET S
    PROVE  SumFunctionOnSet(f, T) \in Nat /\ SumFunctionOnSet(f, T) <= SumFunctionOnSet(f, S)
<1> DEFINE F(s) == SumFunctionOnSet(f, s)
           P    == {s \in SUBSET S : F(s) \in Nat}
           Q    == {s \in SUBSET S : F(s \intersect T) <= F(s)}
<1>1. \A s \in SUBSET S : F(s) \in Int /\ F({}) = 0 /\ \A x \in s : F(s) = f[x] + F(s \ {x})
      <2>1. \A s \in S : f[s] \in Int
            OBVIOUS
      <2> QED BY <2>1, SumStep
<1> HIDE DEF F
<1>2. \A s \in SUBSET S : s \in P
      <2>1. {} \in P
            BY <1>1
      <2>2. ASSUME NEW s \in SUBSET S, NEW x \in s, s \ {x} \in P PROVE s \in P
            BY <1>1, <2>2
      <2> HIDE DEF P
      <2> QED BY <2>1, <2>2, FiniteInduction
<1>3. \A s \in SUBSET S : s \in Q
      <2>1. {} \in Q
            <3>1. {} \intersect T = {} /\ F({}) = 0
                  BY <1>1
            <3> QED BY <3>1
      <2>2. ASSUME NEW s \in SUBSET S, NEW x \in s, s \ {x} \in Q PROVE s \in Q
            <3>1. F(s) = f[x] + F(s \ {x}) /\ F(s \ {x}) \in Int /\ f[x] \in Nat
                  BY <1>1
            <3>2. F((s \ {x}) \intersect T) <= F(s \ {x}) /\ F((s \ {x}) \intersect T) \in Int
                  BY <1>1, <2>2
            <3>3. CASE x \in T
                  <4>1. x \in s \intersect T /\ (s \intersect T) \ {x} = (s \ {x}) \intersect T
                        BY <3>3
                  <4>2. F(s \intersect T) = f[x] + F((s \ {x}) \intersect T)
                        BY <1>1, <4>1
                  <4> QED BY <3>1, <3>2, <4>2
            <3>4. CASE x \notin T
                  <4>1. s \intersect T = (s \ {x}) \intersect T
                        BY <3>4
                  <4>2. F(s \intersect T) <= F(s)
                        BY <3>1, <3>2, <4>1
                  <4> QED BY <4>2
            <3> QED BY <3>3, <3>4
      <2> HIDE DEF Q
      <2> QED BY <2>1, <2>2, FiniteInduction
<1>4. S \in Q /\ T \in P /\ S \intersect T = T
      BY <1>2, <1>3
<1> QED BY <1>4 DEF F

(* A product of positive factors is positive, and each factor divides it.  *)
LEMMA ProductPositive ==
    ASSUME NEW S, IsFiniteSet(S), NEW f, \A s \in S : f[s] \in Nat \ {0}
    PROVE  /\ ProductOnSet(f, S) \in Nat \ {0}
           /\ \A x \in S : /\ ProductOnSet(f, S) \div f[x] \in Nat \ {0}
                           /\ (ProductOnSet(f, S) \div f[x]) * f[x] = ProductOnSet(f, S)
<1> DEFINE F(s) == ProductOnSet(f, s)
           P    == {s \in SUBSET S : F(s) \in Nat \ {0}}
<1>1. ASSUME NEW s \in SUBSET S
      PROVE  F(s) \in Int /\ F({}) = 1 /\ \A x \in s : F(s) = f[x] * F(s \ {x})
      <2>1. IsFiniteSet(s) /\ \A x \in s : f[x] \in Int
            BY FS_Subset
      <2> QED BY <2>1, ProductElement
<1> HIDE DEF F
<1>2. \A s \in SUBSET S : s \in P
      <2>1. {} \in P
            BY <1>1
      <2>2. ASSUME NEW s \in SUBSET S, NEW x \in s, s \ {x} \in P PROVE s \in P
            <3>1. F(s) = f[x] * F(s \ {x}) /\ f[x] \in Nat \ {0} /\ F(s \ {x}) \in Nat \ {0}
                  BY <1>1, <2>2
            <3>2. \A a, b \in Nat \ {0} : a * b \in Nat \ {0}
                  OBVIOUS
            <3> QED BY <3>1, <3>2
      <2> HIDE DEF P
      <2> QED BY <2>1, <2>2, FiniteInduction
<1>3. ASSUME NEW x \in S
      PROVE  F(S) \div f[x] \in Nat \ {0} /\ (F(S) \div f[x]) * f[x] = F(S)
      <2>1. F(S) = f[x] * F(S \ {x}) /\ f[x] \in Nat \ {0} /\ F(S \ {x}) \in Nat \ {0}
            BY <1>1, <1>2
      <2>2. ASSUME NEW a \in Nat \ {0}, NEW b \in Nat \ {0}
            PROVE  (a * b) \div a = b /\ b * a = a * b
            OBVIOUS
      <2>3. F(S) \div f[x] = F(S \ {x})
            BY <2>1, <2>2
      <2>4. F(S \ {x}) * f[x] = F(S)
            BY <2>1, <2>2
      <2> QED BY <2>1, <2>3, <2>4
<1> QED BY <1>2, <1>3 DEF F

(* A finite set of numbers that is not empty has a greatest one.           *)
LEMMA GreatestIn ==
    ASSUME NEW S, IsFiniteSet(S), S # {}, S \subseteq Int
    PROVE  \E x \in S : \A y \in S : x >= y
<1> DEFINE G == {s \in SUBSET S : s # {} => \E x \in s : \A y \in s : x >= y}
<1>1. {} \in G
      OBVIOUS
<1>2. ASSUME NEW s \in SUBSET S, NEW x \in s, s \ {x} \in G PROVE s \in G
      <2>1. CASE s \ {x} = {}
            <3>1. \A y \in s : x >= y
                  BY <2>1
            <3> QED BY <3>1
      <2>2. CASE s \ {x} # {}
            <3>1. PICK z \in s \ {x} : \A y \in s \ {x} : z >= y
                  BY <1>2, <2>2
            <3>2. x \in Int /\ z \in Int /\ \A y \in s : y \in Int
                  OBVIOUS
            <3>3. CASE x >= z
                  <4>1. \A y \in s : x >= y
                        BY <3>1, <3>2, <3>3
                  <4> QED BY <4>1
            <3>4. CASE ~(x >= z)
                  <4>1. \A y \in s : z >= y
                        BY <3>1, <3>2, <3>4
                  <4> QED BY <3>1, <4>1
            <3> QED BY <3>3, <3>4
      <2> QED BY <2>1, <2>2
<1>3. \A s \in SUBSET S : s \in G
      <2> HIDE DEF G
      <2> QED BY <1>1, <1>2, FiniteInduction
<1> QED BY <1>3
=============================================================================
