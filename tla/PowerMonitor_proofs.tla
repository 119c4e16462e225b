------------------------- MODULE PowerMonitor_proofs -------------------------
(***************************************************************************)
(* Theorems about PowerMonitor, for every list of batteries and every way   *)
(* the kernel changes their attributes: what the monitor reports is what    *)
(* the batteries hold, predictions cover the time elapsed, and an unchanged *)
(* machine is no news.                                                      *)
(*                                                                         *)
(* The sums over the batteries are recursive functions.  That such a        *)
(* function exists, and what it computes, is shown by induction on the      *)
(* number of batteries, which is stated for sets (Induction) since the      *)
(* provers cannot instantiate an operator.                                  *)
(***************************************************************************)
EXTENDS PowerMonitor, WellFoundedInduction, TLAPS

(* Every non-empty set of natural numbers has a least element. *)
LEMMA LeastNat ==
  ASSUME NEW T \in SUBSET Nat, T # {}
  PROVE  \E x \in T : \A y \in T : x <= y
<1> DEFINE R == {ss \in Nat \X Nat : ss[1] < ss[2]}
<1>1. R = OpToRel(<, Nat)
  BY DEF OpToRel
<1>2. IsWellFoundedOn(R, Nat)
  BY <1>1, NatLessThanWellFounded
<1> HIDE DEF R
<1>3. PICK x \in T : \A y \in T : <<y, x>> \notin R
  BY <1>2, WFMin
<1>4. ASSUME NEW y \in T
      PROVE  x <= y
  <2>1. x \in Nat /\ y \in Nat
    OBVIOUS
  <2>2. y < x => <<y, x>> \in R
    BY <2>1 DEF R
  <2> QED
    BY <1>3, <2>1, <2>2
<1> QED
  BY <1>4

LEMMA Induction ==
  ASSUME NEW N \in Nat, NEW P, 0 \in P,
         \A n \in 1..N : n - 1 \in P => n \in P
  PROVE  \A n \in 0..N : n \in P
<1> DEFINE T == {n \in 0..N : n \notin P}
<1>1. CASE T = {}
  BY <1>1
<1>2. CASE T # {}
  <2>1. T \in SUBSET Nat
    OBVIOUS
  <2> HIDE DEF T
  <2>2. PICK x \in T : \A y \in T : x <= y
    BY <1>2, <2>1, LeastNat
  <2>3. x \in 0..N /\ x \notin P
    BY DEF T
  <2>4. x \in 1..N
    BY <2>3
  <2>5. x - 1 \in 0..N /\ ~(x <= x - 1)
    BY <2>4
  <2>6. x - 1 \in P
    BY <2>2, <2>5 DEF T
  <2> QED
    BY <2>3, <2>4, <2>6
<1> QED
  BY <1>1, <1>2

(* A function on 0..N that is defined by recursion, each value from the one *)
(* before, exists.                                                          *)
IsRecursion(f, N, start, step) ==
  f[0] = start /\ \A n \in 1..N : f[n] = step[n][f[n - 1]]

LEMMA RecursionExists ==
  ASSUME NEW N \in Nat, NEW V, NEW start \in V, NEW step \in [1..N -> [V -> V]]
  PROVE  \E f \in [0..N -> V] : IsRecursion(f, N, start, step)
<1> DEFINE Up(m, f) == /\ f \in [0..m -> V]
                       /\ f = [n \in 0..m |-> IF n = 0 THEN start ELSE step[n][f[n - 1]]]
           P == {m \in 0..N : \E f : Up(m, f)}
<1>1. 0 \in P
  <2> DEFINE f == [n \in 0..0 |-> start]
  <2>1. f \in [0..0 -> V] /\ f = [n \in 0..0 |-> IF n = 0 THEN start ELSE step[n][f[n - 1]]]
    OBVIOUS
  <2>2. Up(0, f)
    BY <2>1
  <2> HIDE DEF Up
  <2> QED
    BY <2>2
<1>2. ASSUME NEW m \in 1..N, m - 1 \in P
      PROVE  m \in P
  <2>1. PICK f : Up(m - 1, f)
    BY <1>2
  <2> DEFINE g == [n \in 0..m |-> IF n < m THEN f[n] ELSE step[m][f[m - 1]]]
  <2>2. m - 1 \in 0..(m - 1) /\ 0..(m - 1) \subseteq 0..m /\ m # 0
    OBVIOUS
  <2>3. f \in [0..(m - 1) -> V]
    BY <2>1
  <2>4. \A n \in 0..(m - 1) : f[n] = IF n = 0 THEN start ELSE step[n][f[n - 1]]
    BY <2>1
  <2>5. f[m - 1] \in V /\ step[m][f[m - 1]] \in V
    BY <2>2, <2>3
  <2>6. ASSUME NEW n \in 0..m
        PROVE  g[n] \in V /\ g[n] = IF n = 0 THEN start ELSE step[n][g[n - 1]]
    <3>1. CASE n = m
      <4>1. g[n] = step[m][f[m - 1]]
        BY <3>1
      <4>2. g[n - 1] = f[m - 1]
        BY <2>2, <3>1
      <4> QED
        BY <2>2, <2>5, <3>1, <4>1, <4>2
    <3>2. CASE n # m
      <4>1. n \in 0..(m - 1) /\ n < m
        BY <3>2
      <4>2. g[n] = f[n]
        BY <4>1
      <4>3. n # 0 => n - 1 \in 0..m /\ n - 1 < m
        BY <4>1
      <4>4. n # 0 => g[n - 1] = f[n - 1]
        BY <4>3
      <4> QED
        BY <2>3, <2>4, <4>1, <4>2, <4>4
    <3> QED
      BY <3>1, <3>2
  <2>7. g \in [0..m -> V]
    BY <2>6
  <2>8. g = [n \in 0..m |-> g[n]]
    BY <2>7
  <2> HIDE DEF g
  <2>9. g = [n \in 0..m |-> IF n = 0 THEN start ELSE step[n][g[n - 1]]]
    BY <2>6, <2>8
  <2>10. Up(m, g)
    BY <2>7, <2>9
  <2>11. m \in 0..N
    OBVIOUS
  <2> HIDE DEF Up
  <2> QED
    BY <2>10, <2>11
<1> HIDE DEF P
<1>3. \A m \in 1..N : m - 1 \in P => m \in P
  BY <1>2
<1>4. \A m \in 0..N : m \in P
  BY <1>1, <1>3, Induction
<1>5. N \in P
  BY <1>4
<1>6. PICK f : Up(N, f)
  BY <1>5 DEF P
<1>7. f \in [0..N -> V] /\ f[0] = start
  BY <1>6
<1>8. \A n \in 1..N : f[n] = step[n][f[n - 1]]
  BY <1>6
<1> QED
  BY <1>7, <1>8 DEF IsRecursion

-----------------------------------------------------------------------------
(* The sums over the batteries, one battery at a time *)
LEMMA AddToType ==
  ASSUME NEW a \in Energies, NEW b \in Energies
  PROVE  AddTo(a, b) \in Energies
BY DEF AddTo, Known, Plus, Energies

LEMMA LengthOfValues ==
  ASSUME NEW N \in Nat, NEW S, NEW values \in [1..N -> S]
  PROVE  Len(values) = N
OBVIOUS

LEMMA SumUpSteps ==
  ASSUME NEW N \in Nat, NEW values \in [1..N -> Energies]
  PROVE  \E t \in [0..N -> Energies] :
           /\ t[0] = -1
           /\ \A n \in 1..N : t[n] = AddTo(t[n - 1], values[n])
           /\ SumUp(values) = t[N]
<1> DEFINE step == [n \in 1..N |-> [v \in Energies |-> AddTo(v, values[n])]]
           total == CHOOSE f : f = [n \in 0..Len(values) |->
                                      IF n = 0 THEN -1 ELSE AddTo(f[n - 1], values[n])]
<1>1. Len(values) = N
  BY LengthOfValues
<1>2. step \in [1..N -> [Energies -> Energies]]
  BY AddToType
<1>3. -1 \in Energies
  BY DEF Energies
<1> HIDE DEF step
<1>4. PICK f \in [0..N -> Energies] : IsRecursion(f, N, -1, step)
  BY <1>2, <1>3, RecursionExists
<1>5. ASSUME NEW n \in 0..N, n # 0
      PROVE  f[n] = AddTo(f[n - 1], values[n])
  <2>1. n \in 1..N /\ n - 1 \in 0..N
    BY <1>5
  <2>2. f[n - 1] \in Energies
    BY <2>1
  <2>3. step[n][f[n - 1]] = AddTo(f[n - 1], values[n])
    BY <2>1, <2>2 DEF step
  <2> QED
    BY <1>4, <2>1, <2>3 DEF IsRecursion
<1>6. f = [n \in 0..Len(values) |-> IF n = 0 THEN -1 ELSE AddTo(f[n - 1], values[n])]
  BY <1>1, <1>4, <1>5 DEF IsRecursion
<1>7. total = [n \in 0..Len(values) |-> IF n = 0 THEN -1 ELSE AddTo(total[n - 1], values[n])]
  BY <1>6
<1>8. SumUp(values) = total[N]
  BY <1>1 DEF SumUp
<1> HIDE DEF total
<1>9. /\ total[0] = -1
      /\ \A n \in 1..N : total[n] = AddTo(total[n - 1], values[n])
  BY <1>1, <1>7
<1>10. \A n \in 0..N : total[n] \in Energies
  <2> DEFINE P == {n \in 0..N : total[n] \in Energies}
  <2>1. 0 \in P
    BY <1>3, <1>9
  <2>2. ASSUME NEW n \in 1..N, n - 1 \in P
        PROVE  n \in P
    BY <1>9, <2>2, AddToType
  <2> HIDE DEF P
  <2>3. \A n \in 0..N : n \in P
    BY <2>1, <2>2, Induction
  <2> QED
    BY <2>3 DEF P
<1>11. total \in [0..N -> Energies]
  BY <1>1, <1>7, <1>10
<1> QED
  BY <1>8, <1>9, <1>11

LEMMA AddDesignType ==
  ASSUME NEW n, NEW a \in Energies, NEW b \in Energies
  PROVE  AddDesign(n, a, b) \in Energies
BY AddToType DEF AddDesign, Energies

LEMMA SumUpDesignSteps ==
  ASSUME NEW N \in Nat, NEW values \in [1..N -> Energies]
  PROVE  \E t \in [0..N -> Energies] :
           /\ t[0] = -1
           /\ \A n \in 1..N : t[n] = AddDesign(n - 1, t[n - 1], values[n])
           /\ SumUpDesign(values) = t[N]
<1> DEFINE step == [n \in 1..N |-> [v \in Energies |-> AddDesign(n - 1, v, values[n])]]
           total == CHOOSE f : f = [n \in 0..Len(values) |->
                                      IF n = 0 THEN -1 ELSE AddDesign(n - 1, f[n - 1], values[n])]
<1>1. Len(values) = N
  BY LengthOfValues
<1>2. step \in [1..N -> [Energies -> Energies]]
  BY AddDesignType
<1>3. -1 \in Energies
  BY DEF Energies
<1> HIDE DEF step
<1>4. PICK f \in [0..N -> Energies] : IsRecursion(f, N, -1, step)
  BY <1>2, <1>3, RecursionExists
<1>5. ASSUME NEW n \in 0..N, n # 0
      PROVE  f[n] = AddDesign(n - 1, f[n - 1], values[n])
  <2>1. n \in 1..N /\ n - 1 \in 0..N
    BY <1>5
  <2>2. f[n - 1] \in Energies
    BY <2>1
  <2>3. step[n][f[n - 1]] = AddDesign(n - 1, f[n - 1], values[n])
    BY <2>1, <2>2 DEF step
  <2> QED
    BY <1>4, <2>1, <2>3 DEF IsRecursion
<1>6. f = [n \in 0..Len(values) |-> IF n = 0 THEN -1 ELSE AddDesign(n - 1, f[n - 1], values[n])]
  BY <1>1, <1>4, <1>5 DEF IsRecursion
<1>7. total = [n \in 0..Len(values) |-> IF n = 0 THEN -1 ELSE AddDesign(n - 1, total[n - 1], values[n])]
  BY <1>6
<1>8. SumUpDesign(values) = total[N]
  BY <1>1 DEF SumUpDesign
<1> HIDE DEF total
<1>9. /\ total[0] = -1
      /\ \A n \in 1..N : total[n] = AddDesign(n - 1, total[n - 1], values[n])
  BY <1>1, <1>7
<1>10. \A n \in 0..N : total[n] \in Energies
  <2> DEFINE P == {n \in 0..N : total[n] \in Energies}
  <2>1. 0 \in P
    BY <1>3, <1>9
  <2>2. ASSUME NEW n \in 1..N, n - 1 \in P
        PROVE  n \in P
    BY <1>9, <2>2, AddDesignType
  <2> HIDE DEF P
  <2>3. \A n \in 0..N : n \in P
    BY <2>1, <2>2, Induction
  <2> QED
    BY <2>3 DEF P
<1>11. total \in [0..N -> Energies]
  BY <1>1, <1>7, <1>10
<1> QED
  BY <1>8, <1>9, <1>11

IsSum(t, N, S, values) ==
  /\ t[0] = 0
  /\ \A n \in 1..N : t[n] = t[n - 1] + (IF n \in S THEN values[n] ELSE 0)

LEMMA SumOverSteps ==
  ASSUME NEW N \in Nat, NEW S, NEW values \in [1..N -> Energies],
         \A n \in 1..N : n \in S => values[n] \in Int
  PROVE  \E t \in [0..N -> Int] :
           IsSum(t, N, S, values) /\ SumOver(S, values) = t[N]
<1> DEFINE step == [n \in 1..N |-> [v \in Int |-> v + (IF n \in S THEN values[n] ELSE 0)]]
           total == CHOOSE f : f = [n \in 0..Len(values) |->
                          IF n = 0 THEN 0
                          ELSE f[n - 1] + (IF n \in S THEN values[n] ELSE 0)]
<1>1. Len(values) = N
  BY LengthOfValues
<1>2. step \in [1..N -> [Int -> Int]]
  OBVIOUS
<1>3. 0 \in Int
  OBVIOUS
<1> HIDE DEF step
<1>4. PICK f \in [0..N -> Int] : IsRecursion(f, N, 0, step)
  BY <1>2, <1>3, RecursionExists
<1>5. ASSUME NEW n \in 0..N, n # 0
      PROVE  f[n] = f[n - 1] + (IF n \in S THEN values[n] ELSE 0)
  <2>1. n \in 1..N /\ n - 1 \in 0..N
    BY <1>5
  <2>2. f[n - 1] \in Int
    BY <2>1
  <2>3. step[n][f[n - 1]] = f[n - 1] + (IF n \in S THEN values[n] ELSE 0)
    BY <2>1, <2>2 DEF step
  <2> QED
    BY <1>4, <2>1, <2>3 DEF IsRecursion
<1>6. f = [n \in 0..Len(values) |->
             IF n = 0 THEN 0 ELSE f[n - 1] + (IF n \in S THEN values[n] ELSE 0)]
  BY <1>1, <1>4, <1>5 DEF IsRecursion
<1>7. total = [n \in 0..Len(values) |->
                 IF n = 0 THEN 0 ELSE total[n - 1] + (IF n \in S THEN values[n] ELSE 0)]
  BY <1>6
<1>8. SumOver(S, values) = total[N]
  BY <1>1 DEF SumOver
<1> HIDE DEF total
<1>9. /\ total[0] = 0
      /\ \A n \in 1..N : total[n] = total[n - 1] + (IF n \in S THEN values[n] ELSE 0)
  BY <1>1, <1>7
<1>10. \A n \in 0..N : total[n] \in Int
  <2> DEFINE P == {n \in 0..N : total[n] \in Int}
  <2>1. 0 \in P
    BY <1>3, <1>9
  <2>2. ASSUME NEW n \in 1..N, n - 1 \in P
        PROVE  n \in P
    <3>1. total[n - 1] \in Int /\ (n \in S => values[n] \in Int)
      BY <2>2
    <3>2. total[n] = total[n - 1] + (IF n \in S THEN values[n] ELSE 0)
      BY <1>9
    <3>3. total[n] \in Int
      BY <3>1, <3>2
    <3> QED
      BY <3>3
  <2> HIDE DEF P
  <2>3. \A n \in 0..N : n \in P
    BY <2>1, <2>2, Induction
  <2> QED
    BY <2>3 DEF P
<1>11. total \in [0..N -> Int]
  BY <1>1, <1>7, <1>10
<1> QED
  BY <1>8, <1>9, <1>11 DEF IsSum

-----------------------------------------------------------------------------
(* What the sums come to.  Values that are all known add up to their sum.   *)
Number == Nat \cup {NaN}

LEMMA SumOfKnown ==
  ASSUME NEW N \in Nat \ {0}, NEW values \in [1..N -> Nat]
  PROVE  SumUp(values) = SumOver(1..N, values) /\ SumUp(values) \in Nat
<1>1. values \in [1..N -> Energies]
  BY DEF Energies
<1>2. PICK t \in [0..N -> Energies] :
        /\ t[0] = -1
        /\ \A n \in 1..N : t[n] = AddTo(t[n - 1], values[n])
        /\ SumUp(values) = t[N]
  BY <1>1, SumUpSteps
<1>3. \A n \in 1..N : n \in 1..N => values[n] \in Int
  OBVIOUS
<1>4. PICK u \in [0..N -> Int] :
        IsSum(u, N, 1..N, values) /\ SumOver(1..N, values) = u[N]
  BY <1>1, <1>3, SumOverSteps
<1> DEFINE P == {n \in 0..N : u[n] \in Nat /\ (n # 0 => t[n] = u[n])}
<1>5. 0 \in P
  BY <1>4 DEF IsSum
<1>6. ASSUME NEW n \in 1..N, n - 1 \in P
      PROVE  n \in P
  <2>1. u[n - 1] \in Nat /\ (n - 1 # 0 => t[n - 1] = u[n - 1])
    BY <1>6
  <2>2. values[n] \in Nat /\ values[n] # NaN /\ u[n - 1] # NaN
    BY <2>1, NaNAssumption
  <2>3. u[n] = u[n - 1] + values[n]
    BY <1>4 DEF IsSum
  <2>4. t[n] = AddTo(t[n - 1], values[n])
    BY <1>2
  <2>5. CASE n = 1
    <3>1. t[n - 1] = -1 /\ u[n - 1] = 0
      BY <1>2, <1>4, <2>5 DEF IsSum
    <3>2. t[n] = values[n]
      BY <2>4, <3>1 DEF AddTo, Known
    <3> QED
      BY <2>2, <2>3, <3>1, <3>2
  <2>6. CASE n # 1
    <3>1. t[n - 1] = u[n - 1]
      BY <2>1, <2>6
    <3>2. t[n] = u[n - 1] + values[n]
      BY <2>1, <2>2, <2>4, <3>1 DEF AddTo, Known, Plus
    <3>3. u[n] \in Nat
      BY <2>1, <2>2, <2>3
    <3> QED
      BY <2>3, <3>2, <3>3
  <2> QED
    BY <2>5, <2>6
<1> HIDE DEF P
<1>7. \A n \in 0..N : n \in P
  BY <1>5, <1>6, Induction
<1>8. N \in P /\ N # 0
  BY <1>7
<1> QED
  BY <1>2, <1>4, <1>8 DEF P

(* Of values some of which are no number, a sum that is a number counts no   *)
(* more than the numbers.                                                   *)
LEMMA SumOfSome ==
  ASSUME NEW N \in Nat \ {0}, NEW values \in [1..N -> Number],
         NEW S, S = {n \in 1..N : values[n] # NaN}
  PROVE  /\ SumUp(values) \in Number
         /\ SumUp(values) # NaN => SumUp(values) <= SumOver(S, values)
<1>1. values \in [1..N -> Energies]
  BY DEF Energies, Number
<1>2. PICK t \in [0..N -> Energies] :
        /\ t[0] = -1
        /\ \A n \in 1..N : t[n] = AddTo(t[n - 1], values[n])
        /\ SumUp(values) = t[N]
  BY <1>1, SumUpSteps
<1>3. \A n \in 1..N : n \in S => values[n] \in Int
  BY DEF Number
<1>4. PICK u \in [0..N -> Int] :
        IsSum(u, N, S, values) /\ SumOver(S, values) = u[N]
  BY <1>1, <1>3, SumOverSteps
<1> DEFINE P == {n \in 0..N : /\ u[n] \in Nat
                              /\ n # 0 => t[n] \in Number
                              /\ t[n] # NaN => t[n] <= u[n]}
<1>5. 0 \in P
  BY <1>2, <1>4 DEF IsSum
<1>6. ASSUME NEW n \in 1..N, n - 1 \in P
      PROVE  n \in P
  <2>1. /\ u[n - 1] \in Nat /\ u[n - 1] # NaN
        /\ t[n - 1] \in Energies
        /\ t[n - 1] # NaN => t[n - 1] <= u[n - 1]
    BY <1>6, NaNAssumption
  <2>2. t[n] = AddTo(t[n - 1], values[n])
    BY <1>2
  <2>3. CASE values[n] = NaN
    <3>1. t[n] = NaN
      BY <2>2, <2>3 DEF AddTo, Plus
    <3>2. u[n] = u[n - 1]
      BY <1>4, <2>1, <2>3 DEF IsSum
    <3> QED
      BY <2>1, <3>1, <3>2 DEF Number
  <2>4. CASE values[n] # NaN
    <3>1. values[n] \in Nat
      BY <2>4 DEF Number
    <3>2. u[n] = u[n - 1] + values[n] /\ u[n] \in Nat
      BY <1>4, <2>1, <2>4, <3>1 DEF IsSum
    <3>3. CASE Known(t[n - 1])
      <4>1. t[n - 1] \in Nat /\ t[n - 1] <= u[n - 1]
        BY <2>1, <3>3 DEF Known, Energies
      <4>2. t[n] = t[n - 1] + values[n]
        BY <2>2, <2>4, <3>3 DEF AddTo, Plus, Known
      <4>3. t[n] \in Nat /\ t[n] <= u[n]
        BY <2>1, <3>1, <3>2, <4>1, <4>2
      <4> QED
        BY <3>2, <4>3 DEF Number
    <3>4. CASE ~Known(t[n - 1])
      <4>1. t[n] = values[n]
        BY <2>2, <3>4 DEF AddTo
      <4>2. t[n] \in Nat /\ t[n] <= u[n]
        BY <2>1, <3>1, <3>2, <4>1
      <4> QED
        BY <3>2, <4>2 DEF Number
    <3> QED
      BY <3>3, <3>4
  <2> QED
    BY <2>3, <2>4
<1> HIDE DEF P
<1>7. \A n \in 0..N : n \in P
  BY <1>5, <1>6, Induction
<1>8. N \in P /\ N # 0
  BY <1>7
<1> QED
  BY <1>2, <1>4, <1>8 DEF P

(* The design energy is that of all batteries, or unknown. *)
LEMMA SumOfDesigns ==
  ASSUME NEW N \in Nat \ {0}, NEW values \in [1..N -> Number]
  PROVE  SumUpDesign(values) =
           IF \A n \in 1..N : values[n] # NaN THEN SumOver(1..N, values) ELSE -1
<1>1. values \in [1..N -> Energies]
  BY DEF Energies, Number
<1>2. PICK t \in [0..N -> Energies] :
        /\ t[0] = -1
        /\ \A n \in 1..N : t[n] = AddDesign(n - 1, t[n - 1], values[n])
        /\ SumUpDesign(values) = t[N]
  BY <1>1, SumUpDesignSteps
<1>3. CASE \A n \in 1..N : values[n] # NaN
  <2>1. values \in [1..N -> Nat]
    BY <1>3 DEF Number
  <2>2. \A n \in 1..N : n \in 1..N => values[n] \in Int
    BY <2>1
  <2>3. PICK u \in [0..N -> Int] :
          IsSum(u, N, 1..N, values) /\ SumOver(1..N, values) = u[N]
    BY <1>1, <2>2, SumOverSteps
  <2> DEFINE P == {n \in 0..N : u[n] \in Nat /\ (n # 0 => t[n] = u[n])}
  <2>4. 0 \in P
    BY <2>3 DEF IsSum
  <2>5. ASSUME NEW n \in 1..N, n - 1 \in P
        PROVE  n \in P
    <3>1. u[n - 1] \in Nat /\ (n - 1 # 0 => t[n - 1] = u[n - 1])
      BY <2>5
    <3>2. values[n] \in Nat /\ values[n] # NaN /\ u[n - 1] # NaN /\ -1 # NaN
      BY <2>1, <3>1, NaNAssumption
    <3>3. u[n] = u[n - 1] + values[n]
      BY <2>3 DEF IsSum
    <3>4. Known(values[n]) /\ ~Known(-1)
      BY <3>2 DEF Known
    <3>5. t[n] = AddDesign(n - 1, t[n - 1], values[n])
      BY <1>2
    <3>6. CASE n = 1
      <4>1. t[n - 1] = -1 /\ u[n - 1] = 0
        BY <1>2, <2>3, <3>6 DEF IsSum
      <4>2. t[n] = values[n]
        BY <3>4, <3>5, <3>6, <4>1 DEF AddDesign, AddTo
      <4> QED
        BY <3>2, <3>3, <4>1, <4>2
    <3>7. CASE n # 1
      <4>1. t[n - 1] = u[n - 1] /\ Known(u[n - 1])
        BY <3>1, <3>2, <3>7 DEF Known
      <4>2. t[n] = u[n - 1] + values[n]
        BY <3>2, <3>4, <3>5, <4>1 DEF AddDesign, AddTo, Plus
      <4> QED
        BY <3>1, <3>2, <3>3, <4>2
    <3> QED
      BY <3>6, <3>7
  <2> HIDE DEF P
  <2>6. \A n \in 0..N : n \in P
    BY <2>4, <2>5, Induction
  <2>7. N \in P /\ N # 0
    BY <2>6
  <2> QED
    BY <1>2, <1>3, <2>3, <2>7 DEF P
<1>4. CASE \E n \in 1..N : values[n] = NaN
  <2>1. PICK m \in 1..N : values[m] = NaN
    BY <1>4
  <2> DEFINE P == {n \in 0..N : n >= m => t[n] = -1}
  <2>2. 0 \in P
    OBVIOUS
  <2>3. ASSUME NEW n \in 1..N, n - 1 \in P
        PROVE  n \in P
    <3>1. t[n] = AddDesign(n - 1, t[n - 1], values[n])
      BY <1>2
    <3>2. CASE n < m
      BY <3>2
    <3>3. CASE n = m
      <4>1. ~Known(values[n])
        BY <2>1, <3>3 DEF Known
      <4> QED
        BY <3>1, <4>1 DEF AddDesign
    <3>4. CASE n > m
      <4>1. t[n - 1] = -1 /\ n - 1 # 0
        BY <2>3, <3>4
      <4>2. ~Known(-1)
        BY DEF Known
      <4> QED
        BY <3>1, <4>1, <4>2 DEF AddDesign
    <3> QED
      BY <3>2, <3>3, <3>4
  <2> HIDE DEF P
  <2>4. \A n \in 0..N : n \in P
    BY <2>2, <2>3, Induction
  <2>5. N \in P /\ N >= m
    BY <2>4
  <2>6. t[N] = -1
    BY <2>5 DEF P
  <2> QED
    BY <1>2, <1>4, <2>6
<1> QED
  BY <1>3, <1>4

(* Values that are each within a bound add up to no more than the bounds.   *)
LEMMA SumOfBounded ==
  ASSUME NEW N \in Nat \ {0}, NEW values \in [1..N -> Number], NEW bounds \in [1..N -> Nat],
         \A n \in 1..N : values[n] # NaN => values[n] <= bounds[n]
  PROVE  SumUp(values) # NaN => SumUp(values) <= SumUp(bounds)
<1>1. values \in [1..N -> Energies] /\ bounds \in [1..N -> Energies]
  BY DEF Energies, Number
<1>2. PICK t \in [0..N -> Energies] :
        /\ t[0] = -1
        /\ \A n \in 1..N : t[n] = AddTo(t[n - 1], values[n])
        /\ SumUp(values) = t[N]
  BY <1>1, SumUpSteps
<1>3. PICK u \in [0..N -> Energies] :
        /\ u[0] = -1
        /\ \A n \in 1..N : u[n] = AddTo(u[n - 1], bounds[n])
        /\ SumUp(bounds) = u[N]
  BY <1>1, SumUpSteps
<1> DEFINE P == {n \in 0..N : u[n] \in Int /\ u[n] >= -1 /\ (t[n] # NaN => t[n] <= u[n])}
<1>4. 0 \in P
  BY <1>2, <1>3
<1>5. ASSUME NEW n \in 1..N, n - 1 \in P
      PROVE  n \in P
  <2>1. /\ u[n - 1] \in Int /\ u[n - 1] >= -1 /\ u[n - 1] # NaN
        /\ t[n - 1] \in Energies
        /\ t[n - 1] # NaN => t[n - 1] <= u[n - 1]
    BY <1>5, NaNAssumption
  <2>2. t[n] = AddTo(t[n - 1], values[n]) /\ u[n] = AddTo(u[n - 1], bounds[n])
    BY <1>2, <1>3
  <2>3. bounds[n] \in Nat /\ bounds[n] # NaN
    BY NaNAssumption
  <2>4. u[n] \in Nat /\ u[n] >= bounds[n] /\ (Known(u[n - 1]) => u[n] = u[n - 1] + bounds[n])
    <3>1. CASE Known(u[n - 1])
      <4>1. u[n] = u[n - 1] + bounds[n]
        BY <2>1, <2>2, <2>3, <3>1 DEF AddTo, Plus
      <4>2. u[n - 1] >= 0
        BY <3>1 DEF Known
      <4> QED
        BY <2>1, <2>3, <4>1, <4>2
    <3>2. CASE ~Known(u[n - 1])
      BY <2>2, <2>3, <3>2 DEF AddTo
    <3> QED
      BY <3>1, <3>2
  <2>5. CASE values[n] = NaN
    <3>1. t[n] = NaN
      BY <2>2, <2>5 DEF AddTo, Plus
    <3> QED
      BY <2>4, <3>1
  <2>6. CASE values[n] # NaN
    <3>1. values[n] \in Nat /\ values[n] <= bounds[n]
      BY <2>6 DEF Number
    <3>2. CASE Known(t[n - 1])
      <4>1. t[n - 1] \in Nat /\ t[n - 1] <= u[n - 1] /\ t[n - 1] # NaN
        BY <2>1, <3>2 DEF Known, Energies
      <4>2. t[n] = t[n - 1] + values[n]
        BY <2>2, <2>6, <3>2, <4>1 DEF AddTo, Plus
      <4>3. Known(u[n - 1])
        BY <2>1, <4>1 DEF Known
      <4> QED
        BY <2>1, <2>3, <2>4, <3>1, <4>1, <4>2, <4>3
    <3>3. CASE ~Known(t[n - 1])
      <4>1. t[n] = values[n]
        BY <2>2, <3>3 DEF AddTo
      <4> QED
        BY <2>3, <2>4, <3>1, <4>1
    <3> QED
      BY <3>2, <3>3
  <2> QED
    BY <2>5, <2>6
<1> HIDE DEF P
<1>6. \A n \in 0..N : n \in P
  BY <1>4, <1>5, Induction
<1>7. N \in P
  BY <1>6
<1> QED
  BY <1>2, <1>3, <1>7 DEF P

-----------------------------------------------------------------------------
(* Batteries and their attributes *)
NBatteries == Len(Kinds)
Onlines == [Adapters -> {0, 1, NaN}]

LEMMA BatteriesNumbered ==
  /\ NBatteries \in Nat \ {0}
  /\ Batteries = 1..NBatteries
  /\ \A b \in Batteries : Kinds[b] \subseteq Attr
<1>1. Kinds \in Seq(SUBSET Attr) /\ Kinds # <<>>
  BY KindsAssumption
<1>2. ASSUME NEW S, NEW q \in Seq(S), q # <<>>
      PROVE  Len(q) \in Nat \ {0} /\ DOMAIN q = 1..Len(q) /\ \A b \in DOMAIN q : q[b] \in S
  BY <1>2
<1>3. /\ Len(Kinds) \in Nat \ {0}
      /\ DOMAIN Kinds = 1..Len(Kinds)
      /\ \A b \in DOMAIN Kinds : Kinds[b] \in SUBSET Attr
  BY <1>1, <1>2
<1> QED
  BY <1>3 DEF NBatteries, Batteries

LEMMA ProductType == ASSUME NEW a \in Nat, NEW b \in Nat PROVE a * b \in Nat
OBVIOUS

LEMMA TimesType ==
  ASSUME NEW a \in Number, NEW b \in Nat
  PROVE  Times(a, b) \in Number
<1>1. CASE a = NaN
  BY <1>1 DEF Times, Number
<1>2. CASE a # NaN
  <2>1. a \in Nat /\ b # NaN
    BY <1>2, NaNAssumption DEF Number
  <2>2. Times(a, b) = a * b
    BY <1>2, <2>1 DEF Times
  <2> QED
    BY <2>1, <2>2, ProductType DEF Number
<1> QED
  BY <1>1, <1>2

(* A source that is usable, or the estimate: a positive number of volts.    *)
LEMMA VoltageDesignType ==
  ASSUME NEW attr \in Attr
  PROVE  VoltageDesign(attr) \in Nat \ {0}
<1> DEFINE usable == {i \in DOMAIN VoltageSources : Usable(attr[VoltageSources[i]])}
<1>1. CASE usable = {}
  BY <1>1 DEF VoltageDesign
<1>2. CASE usable # {}
  <2>1. usable \in SUBSET Nat
    BY DEF VoltageSources
  <2>2. PICK i \in usable : \A j \in usable : i <= j
    <3> HIDE DEF usable
    <3> QED
      BY <1>2, <2>1, LeastNat
  <2>3. Min(usable) \in usable
    <3> HIDE DEF usable
    <3> QED
      BY <2>2 DEF Min
  <2> DEFINE source == VoltageSources[Min(usable)]
  <2>4. source \in Attributes /\ Usable(attr[source])
    BY <2>3 DEF Attributes, ToSet
  <2>5. attr[source] \in Nat \ {0}
    <3> HIDE DEF source
    <3>1. attr[source] \in Nat \cup {NaN}
      BY <2>4 DEF Attr
    <3> QED
      BY <2>4, <3>1 DEF Usable
  <2>6. VoltageDesign(attr) = attr[source]
    BY <1>2 DEF VoltageDesign
  <2> QED
    BY <2>5, <2>6
<1> QED
  BY <1>1, <1>2

LEMMA AttributeNames ==
  {"energy_now", "energy_full", "energy_full_design",
   "charge_now", "charge_full", "charge_full_design"} \subseteq Attributes
BY DEF Attributes, EnergyAttributes, ChargeAttributes

LEMMA AttributeType ==
  ASSUME NEW attr \in Attr
  PROVE  /\ attr["energy_now"] \in Number
         /\ attr["energy_full"] \in Number
         /\ attr["energy_full_design"] \in Number
         /\ attr["charge_now"] \in Number
         /\ attr["charge_full"] \in Number
         /\ attr["charge_full_design"] \in Number
BY AttributeNames DEF Attr, Number

LEMMA EnergyDesignType ==
  ASSUME NEW attr \in Attr
  PROVE  EnergyDesign(attr) \in Battery
<1>1. VoltageDesign(attr) \in Nat
  BY VoltageDesignType
<1>2. /\ Times(attr["charge_full"], VoltageDesign(attr)) \in Number
      /\ Times(attr["charge_full_design"], VoltageDesign(attr)) \in Number
  BY <1>1, AttributeType, TimesType
<1>3. 0 \in Number /\ Number = Nat \cup {NaN}
  BY DEF Number
<1>4. Usable(attr["energy_now"]) \in BOOLEAN /\ Usable(attr["charge_now"]) \in BOOLEAN
  BY DEF Usable
<1> QED
  BY <1>1, <1>2, <1>3, <1>4, AttributeType DEF EnergyDesign, Battery

LEMMA BatteryPollType ==
  ASSUME NEW battery \in Battery, NEW attr \in Attr
  PROVE  BatteryPoll(battery, attr) \in Number
<1>1. battery.voltage_design \in Nat
  BY DEF Battery
<1>2. Times(attr["charge_now"], battery.voltage_design) \in Number
  BY <1>1, AttributeType, TimesType
<1> QED
  BY <1>2, AttributeType DEF BatteryPoll

LEMMA PollsType ==
  ASSUME NEW bats \in [Batteries -> Battery], NEW attrs \in [Batteries -> Attr]
  PROVE  Polls(bats, attrs) \in [1..NBatteries -> Number]
<1>1. \A b \in Batteries : BatteryPoll(bats[b], attrs[b]) \in Number
  BY BatteryPollType
<1> QED
  BY <1>1, BatteriesNumbered DEF Polls

Fulls(bats) == [b \in Batteries |-> bats[b].energy_full]
Designs(bats) == [b \in Batteries |-> bats[b].energy_full_design]

LEMMA FullsType ==
  ASSUME NEW bats \in [Batteries -> Battery]
  PROVE  /\ Fulls(bats) \in [1..NBatteries -> Number]
         /\ Designs(bats) \in [1..NBatteries -> Number]
<1>1. \A b \in Batteries : bats[b].energy_full \in Number /\ bats[b].energy_full_design \in Number
  BY DEF Battery, Number
<1> QED
  BY <1>1, BatteriesNumbered DEF Fulls, Designs

(* The fields of a reading. *)
LEMMA ReadingFields ==
  ASSUME NEW bats, NEW attrs, NEW onlines, NEW now, NEW s \in ReadState(bats, attrs, onlines, now)
  PROVE  /\ s.time = now
         /\ s.online \in BOOLEAN
         /\ s.energy_now = SumUp(Polls(bats, attrs))
         /\ s.energy_full = SumUp(Fulls(bats))
         /\ s.energy_full_design = SumUpDesign(Designs(bats))
         /\ s = [time |-> now, online |-> s.online, energy_now |-> s.energy_now,
                 energy_full |-> s.energy_full, energy_full_design |-> s.energy_full_design]
<1>1. PICK o \in [Adapters -> BOOLEAN] :
        /\ \A a \in Adapters : o[a] \in MainsPoll(onlines[a])
        /\ s = [time |-> now,
                online |-> \E a \in Adapters : o[a],
                energy_now |-> SumUp(Polls(bats, attrs)),
                energy_full |-> SumUp(Fulls(bats)),
                energy_full_design |-> SumUpDesign(Designs(bats))]
  BY DEF ReadState, Fulls, Designs
<1>2. (\E a \in Adapters : o[a]) \in BOOLEAN
  OBVIOUS
<1> QED
  BY <1>1, <1>2

(* A reading differs from another of the same attributes only in its time,  *)
(* when no adapter's attribute is missing.                                  *)
LEMMA SameReading ==
  ASSUME NEW bats, NEW attrs, NEW onlines, NEW now, NEW then,
         NEW s \in ReadState(bats, attrs, onlines, now),
         NEW r \in ReadState(bats, attrs, onlines, then),
         \A a \in Adapters : onlines[a] # NaN
  PROVE  s.online = r.online
<1>1. PICK o \in [Adapters -> BOOLEAN] :
        /\ \A a \in Adapters : o[a] \in MainsPoll(onlines[a])
        /\ s = [time |-> now,
                online |-> \E a \in Adapters : o[a],
                energy_now |-> SumUp(Polls(bats, attrs)),
                energy_full |-> SumUp(Fulls(bats)),
                energy_full_design |-> SumUpDesign(Designs(bats))]
  BY DEF ReadState, Fulls, Designs
<1>2. PICK q \in [Adapters -> BOOLEAN] :
        /\ \A a \in Adapters : q[a] \in MainsPoll(onlines[a])
        /\ r = [time |-> then,
                online |-> \E a \in Adapters : q[a],
                energy_now |-> SumUp(Polls(bats, attrs)),
                energy_full |-> SumUp(Fulls(bats)),
                energy_full_design |-> SumUpDesign(Designs(bats))]
  BY DEF ReadState, Fulls, Designs
<1>3. \A a \in Adapters : o[a] = q[a]
  BY <1>1, <1>2 DEF MainsPoll
<1> QED
  BY <1>1, <1>2, <1>3

(* A reading that gbb_power_state_equal finds equal to one of the current   *)
(* attributes is one of them, but for its time.                             *)
LEMMA EqualReading ==
  ASSUME NEW bats, NEW attrs, NEW onlines, NEW now,
         NEW attrs0, NEW onlines0, NEW then,
         NEW s \in ReadState(bats, attrs, onlines, now),
         NEW r \in ReadState(bats, attrs0, onlines0, then),
         SameState(r, s)
  PROVE  r \in ReadState(bats, attrs, onlines, then)
<1>1. /\ r.online = s.online /\ r.energy_now = s.energy_now
      /\ r.energy_full = s.energy_full /\ r.energy_full_design = s.energy_full_design
  BY DEF SameState, SameDouble
<1>2. r = [time |-> then, online |-> s.online, energy_now |-> s.energy_now,
           energy_full |-> s.energy_full, energy_full_design |-> s.energy_full_design]
  BY <1>1, ReadingFields
<1>3. PICK o \in [Adapters -> BOOLEAN] :
        /\ \A a \in Adapters : o[a] \in MainsPoll(onlines[a])
        /\ s = [time |-> now,
                online |-> \E a \in Adapters : o[a],
                energy_now |-> SumUp(Polls(bats, attrs)),
                energy_full |-> SumUp(Fulls(bats)),
                energy_full_design |-> SumUpDesign(Designs(bats))]
  BY DEF ReadState, Fulls, Designs
<1>4. r = [time |-> then,
           online |-> \E a \in Adapters : o[a],
           energy_now |-> SumUp(Polls(bats, attrs)),
           energy_full |-> SumUp(Fulls(bats)),
           energy_full_design |-> SumUpDesign(Designs(bats))]
  BY <1>2, <1>3
<1> QED
  BY <1>3, <1>4 DEF ReadState, Fulls, Designs

LEMMA ReadingType ==
  ASSUME NEW bats \in [Batteries -> Battery], NEW attrs \in [Batteries -> Attr],
         NEW onlines, NEW now \in 0..MaxTime,
         NEW s \in ReadState(bats, attrs, onlines, now)
  PROVE  /\ s \in State
         /\ s.energy_now \in Number /\ s.energy_full \in Number
<1> DEFINE polls == Polls(bats, attrs)
           fulls == Fulls(bats)
           designs == Designs(bats)
<1>1. /\ polls \in [1..NBatteries -> Number]
      /\ fulls \in [1..NBatteries -> Number]
      /\ designs \in [1..NBatteries -> Number]
  BY PollsType, FullsType
<1> HIDE DEF polls, fulls, designs
<1>2. SumUp(polls) \in Number /\ SumUp(fulls) \in Number
  BY <1>1, SumOfSome, BatteriesNumbered
<1>3. SumUpDesign(designs) \in Energies
  <2>1. designs \in [1..NBatteries -> Energies] /\ NBatteries \in Nat
    BY <1>1, BatteriesNumbered DEF Energies, Number
  <2> QED
    BY <2>1, SumUpDesignSteps
<1>4. /\ s.time = now /\ s.online \in BOOLEAN
      /\ s.energy_now \in Number /\ s.energy_full \in Number
      /\ s.energy_full_design \in Energies
  BY <1>2, <1>3, ReadingFields DEF polls, fulls, designs
<1>5. s.energy_now \in Energies /\ s.energy_full \in Energies
  BY <1>4 DEF Energies, Number
<1>6. s = [time |-> now, online |-> s.online, energy_now |-> s.energy_now,
           energy_full |-> s.energy_full, energy_full_design |-> s.energy_full_design]
  BY ReadingFields
<1>7. s \in State
  BY <1>4, <1>5, <1>6 DEF State
<1> QED
  BY <1>4, <1>7

-----------------------------------------------------------------------------
(* What a battery was settled from when the monitor was made can still be   *)
(* seen in its attributes: the level is that of then, or one of Levels.     *)
Settled(b, attr) ==
  \E made \in Kinds[b] :
    /\ batteries[b] = EnergyDesign(made)
    /\ attr["energy_now"] \in {made["energy_now"]} \cup Levels
    /\ attr["charge_now"] \in {made["charge_now"]} \cup Levels

Held(attrs) == attrs \in [Batteries -> Attr] /\ \A b \in Batteries : Settled(b, attrs[b])

WasRead(s) ==
  \E attrs, onlines :
    /\ Held(attrs) /\ onlines \in Onlines
    /\ s \in ReadState(batteries, attrs, onlines, s.time)

(* The inductive invariant: the current reading is that of the last poll,   *)
(* whether that poll replaced the one before or found it equal, and the     *)
(* first one was taken before it, of the same batteries.                    *)
IInv ==
  /\ batteries \in [Batteries -> Battery]
  /\ Held(sysfs) /\ mains \in Onlines
  /\ Held(polled.sysfs) /\ polled.mains \in Onlines
  /\ clock \in 0..MaxTime
  /\ current_state.time \in 0..clock
  /\ current_state \in ReadState(batteries, polled.sysfs, polled.mains, current_state.time)
  /\ start_state # NewState =>
       start_state.time \in 0..current_state.time /\ WasRead(start_state)

LEMMA InitIInv == Init => IInv
<1> SUFFICES ASSUME Init PROVE IInv
  OBVIOUS
<1>1. \A b \in Batteries : sysfs[b] \in Kinds[b] /\ sysfs[b] \in Attr
  BY BatteriesNumbered DEF Init
<1>2. sysfs \in [Batteries -> Attr]
  BY <1>1 DEF Init
<1>3. batteries = [b \in Batteries |-> EnergyDesign(sysfs[b])]
  BY DEF Init
<1>4. batteries \in [Batteries -> Battery]
  BY <1>1, <1>3, EnergyDesignType
<1>5. \A b \in Batteries : Settled(b, sysfs[b])
  BY <1>1, <1>3 DEF Settled
<1>6. Held(sysfs)
  BY <1>2, <1>5 DEF Held
<1>7. mains \in Onlines /\ polled.sysfs = sysfs /\ polled.mains = mains
  BY DEF Init, Onlines
<1>8. clock = 0 /\ clock \in 0..MaxTime
  BY MaxTimeAssumption DEF Init
<1>9. current_state \in ReadState(batteries, sysfs, mains, 0) /\ start_state = NewState
  BY DEF Init
<1>10. current_state.time = 0
  BY <1>9, ReadingFields
<1> QED
  BY <1>4, <1>6, <1>7, <1>8, <1>9, <1>10 DEF IInv

LEMMA DrainHeld ==
  ASSUME NEW b \in Batteries, NEW v \in Levels, Held(sysfs),
         sysfs' = [sysfs EXCEPT ![b][Reports(b)] = v], batteries' = batteries
  PROVE  Held(sysfs)'
<1> DEFINE name == Reports(b)
<1>1. name \in {"energy_now", "charge_now"} /\ name \in Attributes
  BY AttributeNames DEF Reports
<1>2. v \in Nat \cup {NaN}
  BY LevelsAssumption
<1>3. sysfs \in [Batteries -> Attr]
  BY DEF Held
<1> HIDE DEF name
<1>4. sysfs' = [sysfs EXCEPT ![b] = [sysfs[b] EXCEPT ![name] = v]]
  BY DEF name
<1>5. [sysfs[b] EXCEPT ![name] = v] \in Attr
  <2>1. sysfs[b] \in [Attributes -> Nat \cup {NaN}]
    BY <1>3 DEF Attr
  <2> QED
    BY <1>1, <1>2, <2>1 DEF Attr
<1>6. sysfs' \in [Batteries -> Attr]
  BY <1>3, <1>4, <1>5
<1>7. ASSUME NEW c \in Batteries
      PROVE  Settled(c, sysfs[c])'
  <2>1. PICK made \in Kinds[c] :
          /\ batteries[c] = EnergyDesign(made)
          /\ sysfs[c]["energy_now"] \in {made["energy_now"]} \cup Levels
          /\ sysfs[c]["charge_now"] \in {made["charge_now"]} \cup Levels
    BY DEF Held, Settled
  <2>2. /\ sysfs'[c]["energy_now"] \in {sysfs[c]["energy_now"]} \cup Levels
        /\ sysfs'[c]["charge_now"] \in {sysfs[c]["charge_now"]} \cup Levels
    <3>1. CASE c = b
      <4>1. sysfs[b] \in [Attributes -> Nat \cup {NaN}]
        BY <1>3 DEF Attr
      <4>2. sysfs'[c] = [sysfs[b] EXCEPT ![name] = v]
        BY <1>3, <1>4, <3>1
      <4>3. \A a \in Attributes : sysfs'[c][a] = IF a = name THEN v ELSE sysfs[b][a]
        BY <4>1, <4>2
      <4> QED
        BY <3>1, <4>3, AttributeNames
    <3>2. CASE c # b
      BY <1>3, <1>4, <3>2
    <3> QED
      BY <3>1, <3>2
  <2>3. /\ sysfs'[c]["energy_now"] \in {made["energy_now"]} \cup Levels
        /\ sysfs'[c]["charge_now"] \in {made["charge_now"]} \cup Levels
    BY <2>1, <2>2
  <2> QED
    BY <2>1, <2>3 DEF Settled
<1> QED
  BY <1>6, <1>7 DEF Held

LEMMA IInvStep == IInv /\ [Next]_vars => IInv'
<1> SUFFICES ASSUME IInv, [Next]_vars PROVE IInv'
  OBVIOUS
<1>1. ASSUME NEW b \in Batteries, Drain(b)
      PROVE  IInv'
  <2>1. PICK v \in Levels : sysfs' = [sysfs EXCEPT ![b][Reports(b)] = v]
    BY <1>1 DEF Drain
  <2>2. UNCHANGED <<mains, batteries, current_state, start_state, clock, polled>>
    BY <1>1 DEF Drain
  <2>3. Held(sysfs)'
    BY <2>1, <2>2, DrainHeld DEF IInv
  <2> QED
    BY <2>2, <2>3 DEF IInv, Held, Settled, WasRead
<1>2. ASSUME NEW a \in Adapters, PlugMains(a)
      PROVE  IInv'
  <2>1. mains' \in Onlines
    BY <1>2 DEF PlugMains, IInv, Onlines
  <2>2. UNCHANGED <<sysfs, batteries, current_state, start_state, clock, polled>>
    BY <1>2 DEF PlugMains
  <2> QED
    BY <2>1, <2>2 DEF IInv, Held, Settled, WasRead
<1>3. CASE UpdateTimeout
  <2> DEFINE now == clock + Period
  <2>1. /\ clock' = now /\ UNCHANGED <<sysfs, mains, batteries>>
        /\ polled'.sysfs = sysfs /\ polled'.mains = mains
    BY <1>3 DEF UpdateTimeout
  <2>2. now \in 0..MaxTime /\ clock \in 0..now /\ current_state.time \in 0..now
    BY <1>3, TicksAssumption, MaxTimeAssumption DEF UpdateTimeout, IInv
  <2>3. PICK s \in ReadState(batteries, sysfs, mains, now) : PollTo(s)
    BY <1>3 DEF UpdateTimeout
  <2> HIDE DEF now
  <2>4. s.time = now
    BY <2>3, ReadingFields
  <2>5. batteries' \in [Batteries -> Battery] /\ Held(sysfs)' /\ mains' \in Onlines
    BY <2>1 DEF IInv, Held, Settled
  <2>6. Held(polled.sysfs)' /\ polled'.mains \in Onlines
    BY <2>1 DEF IInv, Held, Settled
  <2>7. ASSUME NEW r, WasRead(r)
        PROVE  WasRead(r)'
    BY <2>1, <2>7 DEF WasRead, Held, Settled
  <2>8. CASE SameState(current_state, s)
    <3>1. UNCHANGED <<current_state, start_state>>
      BY <2>3, <2>8 DEF PollTo
    <3>2. current_state \in ReadState(batteries, sysfs, mains, current_state.time)
      BY <2>3, <2>8, EqualReading DEF IInv
    <3>3. current_state' \in
            ReadState(batteries', polled'.sysfs, polled'.mains, current_state'.time)
      BY <2>1, <3>1, <3>2
    <3>4. start_state' # NewState =>
            start_state'.time \in 0..current_state'.time /\ WasRead(start_state)'
      BY <2>7, <3>1 DEF IInv
    <3>5. clock' \in 0..MaxTime /\ current_state'.time \in 0..clock'
      BY <2>1, <2>2, <3>1
    <3> QED
      BY <2>5, <2>6, <3>3, <3>4, <3>5 DEF IInv
  <2>9. CASE ~SameState(current_state, s)
    <3>1. current_state' = s /\ OnPowerMonitorChanged(s)
      BY <2>3, <2>9 DEF PollTo
    <3>2. current_state' \in
            ReadState(batteries', polled'.sysfs, polled'.mains, current_state'.time)
      BY <2>1, <2>3, <2>4, <3>1
    <3>3. clock' \in 0..MaxTime /\ current_state'.time \in 0..clock'
      BY <2>1, <2>2, <2>4, <3>1
    <3>4. WasRead(s)
      BY <2>3, <2>4 DEF WasRead, IInv
    <3>5. start_state' = s \/ start_state' = start_state
      BY <3>1 DEF OnPowerMonitorChanged
    <3>6. s.time \in 0..current_state'.time
      BY <2>2, <2>4, <3>1
    <3>7. start_state # NewState => start_state.time \in 0..current_state'.time
      BY <2>2, <2>4, <3>1 DEF IInv
    <3>8. start_state' # NewState =>
            start_state'.time \in 0..current_state'.time /\ WasRead(start_state)'
      <4>1. CASE start_state' = s
        BY <2>7, <3>4, <3>6, <4>1
      <4>2. CASE start_state' = start_state
        BY <2>7, <3>7, <4>2 DEF IInv
      <4> QED
        BY <3>5, <4>1, <4>2
    <3> QED
      BY <2>5, <2>6, <3>2, <3>3, <3>8 DEF IInv
  <2> QED
    BY <2>8, <2>9
<1>4. CASE UNCHANGED vars
  BY <1>4 DEF vars, IInv, Held, Settled, WasRead
<1> QED
  BY <1>1, <1>2, <1>3, <1>4 DEF Next

THEOREM Invariance == Spec => []IInv
BY InitIInv, IInvStep, PTL DEF Spec

-----------------------------------------------------------------------------
LEMMA NewStateType == NewState \in State
BY MaxTimeAssumption DEF NewState, State, Energies

(* Every variable keeps its type: what is read of any attributes, readable   *)
(* or not, is a voltage, a capacity or an energy.                           *)
THEOREM TypeCorrect == Spec => []TypeOK
<1>1. IInv => TypeOK
  <2> SUFFICES ASSUME IInv PROVE TypeOK
    OBVIOUS
  <2>1. current_state.time \in 0..MaxTime
    BY MaxTimeAssumption DEF IInv
  <2>2. current_state \in State
    BY <2>1, ReadingType DEF IInv, Held
  <2>3. start_state \in State
    <3>1. CASE start_state = NewState
      BY <3>1, NewStateType
    <3>2. CASE start_state # NewState
      <4>1. start_state.time \in 0..MaxTime
        BY <2>1, <3>2, MaxTimeAssumption DEF IInv
      <4>2. PICK attrs, onlines :
              /\ Held(attrs)
              /\ start_state \in ReadState(batteries, attrs, onlines, start_state.time)
        BY <3>2 DEF IInv, WasRead
      <4> QED
        BY <4>1, <4>2, ReadingType DEF IInv, Held
    <3> QED
      BY <3>1, <3>2
  <2> QED
    BY <2>2, <2>3 DEF IInv, Held, Onlines, TypeOK
<1> QED
  BY <1>1, Invariance, PTL

(* What the monitor reports is what the batteries held when they were polled *)
(* last, any number of them, readable or not (power-monitor.c:129-136 and   *)
(* 179-204).                                                                *)
THEOREM EnergyAlwaysAccounted == Spec => []EnergyAccounted
<1>1. IInv => EnergyAccounted
  <2> SUFFICES ASSUME IInv PROVE EnergyAccounted
    OBVIOUS
  <2> DEFINE polls == Polls(batteries, polled.sysfs)
             designs == Designs(batteries)
             readable == {b \in Batteries : polls[b] # NaN}
  <2>1. batteries \in [Batteries -> Battery] /\ polled.sysfs \in [Batteries -> Attr]
    BY DEF IInv, Held
  <2>2. polls \in [1..NBatteries -> Number] /\ designs \in [1..NBatteries -> Number]
    BY <2>1, PollsType, FullsType
  <2>3. NBatteries \in Nat \ {0} /\ Batteries = 1..NBatteries
    BY BatteriesNumbered
  <2>4. /\ current_state.energy_now = SumUp(polls)
        /\ current_state.energy_full_design = SumUpDesign(designs)
    BY ReadingFields DEF IInv
  <2>5. polls = PolledEnergies
    BY DEF PolledEnergies
  <2> HIDE DEF polls
  <2>6. AllReadable => current_state.energy_now = SumOver(Batteries, polls)
    <3> SUFFICES ASSUME AllReadable PROVE current_state.energy_now = SumOver(Batteries, polls)
      OBVIOUS
    <3>1. \A n \in 1..NBatteries : polls[n] \in Nat
      BY <2>2, <2>3, <2>5 DEF AllReadable, Number
    <3>2. polls \in [1..NBatteries -> Nat]
      BY <2>2, <3>1
    <3> QED
      BY <2>3, <2>4, <3>2, SumOfKnown
  <2>7. current_state.energy_now # NaN => current_state.energy_now <= SumOver(readable, polls)
    BY <2>2, <2>3, <2>4, SumOfSome
  <2> HIDE DEF designs
  <2>8. current_state.energy_full_design =
          IF \A b \in Batteries : designs[b] # NaN THEN SumOver(Batteries, designs) ELSE -1
    BY <2>2, <2>3, <2>4, SumOfDesigns
  <2> QED
    BY <2>5, <2>6, <2>7, <2>8 DEF EnergyAccounted, designs, Designs
<1> QED
  BY <1>1, Invariance, PTL

(* "changed" is news: while no attribute changes and everything can be read  *)
(* it is not emitted, however long the monitor polls (power-monitor.c:213). *)
THEOREM AlwaysQuietWhenSteady == Spec => QuietWhenSteady
<1>1. IInv /\ [Next]_vars =>
        [current_state' # current_state =>
           \/ polled' # polled
           \/ ~AllReadable' \/ ~AdaptersReadable'
           \/ NaN \in {batteries[b].energy_full : b \in Batteries}]_vars
  <2> SUFFICES ASSUME IInv, [Next]_vars, current_state' # current_state, polled' = polled,
                      AllReadable', AdaptersReadable',
                      NaN \notin {batteries[b].energy_full : b \in Batteries}
               PROVE  FALSE
    OBVIOUS
  <2>1. UpdateTimeout
    BY DEF Next, Drain, PlugMains, vars
  <2> DEFINE now == clock + Period
  <2>2. PICK s \in ReadState(batteries, sysfs, mains, now) : PollTo(s)
    BY <2>1 DEF UpdateTimeout
  <2> HIDE DEF now
  <2>3. ~SameState(current_state, s)
    BY <2>2 DEF PollTo
  <2>4. polled.sysfs = sysfs /\ polled.mains = mains /\ batteries' = batteries
    BY <2>1 DEF UpdateTimeout
  <2>5. current_state \in ReadState(batteries, sysfs, mains, current_state.time)
    BY <2>4 DEF IInv
  <2>6. /\ s.energy_now = current_state.energy_now
        /\ s.energy_full = current_state.energy_full
        /\ s.energy_full_design = current_state.energy_full_design
    BY <2>2, <2>5, ReadingFields
  <2>7. s.online = current_state.online
    <3>1. \A a \in Adapters : mains[a] # NaN
      BY <2>4 DEF AdaptersReadable
    <3> QED
      BY <2>2, <2>5, <3>1, SameReading
  <2> DEFINE polls == Polls(batteries, sysfs)
             fulls == Fulls(batteries)
             designs == Designs(batteries)
  <2>8. NBatteries \in Nat \ {0} /\ Batteries = 1..NBatteries
    BY BatteriesNumbered
  <2>9. /\ polls \in [1..NBatteries -> Number]
        /\ fulls \in [1..NBatteries -> Number]
        /\ designs \in [1..NBatteries -> Number]
    BY PollsType, FullsType DEF IInv, Held
  <2>10. \A b \in Batteries : polls[b] # NaN
    BY <2>4 DEF AllReadable, PolledEnergies
  <2>11. \A b \in Batteries : fulls[b] # NaN
    BY DEF Fulls
  <2>12. /\ s.energy_now = SumUp(polls) /\ s.energy_full = SumUp(fulls)
         /\ s.energy_full_design = SumUpDesign(designs)
    BY <2>2, ReadingFields
  <2> HIDE DEF polls, fulls, designs
  <2>13. polls \in [1..NBatteries -> Nat] /\ fulls \in [1..NBatteries -> Nat]
    BY <2>8, <2>9, <2>10, <2>11 DEF Number
  <2>14. s.energy_now # NaN /\ s.energy_full # NaN
    <3>1. SumUp(polls) \in Nat
      BY <2>8, <2>13, SumOfKnown
    <3>2. SumUp(fulls) \in Nat
      BY <2>8, <2>13, SumOfKnown
    <3> QED
      BY <2>12, <3>1, <3>2, NaNAssumption
  <2>15. s.energy_full_design # NaN
    <3>1. CASE \A n \in 1..NBatteries : designs[n] # NaN
      <4>1. designs \in [1..NBatteries -> Nat]
        BY <2>9, <3>1 DEF Number
      <4>2. SumUpDesign(designs) = SumOver(1..NBatteries, designs)
        BY <2>8, <2>9, <3>1, SumOfDesigns
      <4>3. SumOver(1..NBatteries, designs) \in Nat
        BY <2>8, <4>1, SumOfKnown
      <4> QED
        BY <2>12, <4>2, <4>3, NaNAssumption
    <3>2. CASE ~\A n \in 1..NBatteries : designs[n] # NaN
      <4>1. SumUpDesign(designs) = -1
        BY <2>8, <2>9, <3>2, SumOfDesigns
      <4> QED
        BY <2>12, <4>1, NaNAssumption
    <3> QED
      BY <3>1, <3>2
  <2> QED
    BY <2>3, <2>6, <2>7, <2>14, <2>15 DEF SameState, SameDouble
<1> QED
  BY <1>1, Invariance, PTL DEF Spec, QuietWhenSteady

-----------------------------------------------------------------------------
(* Arithmetic of the prediction *)
LEMMA TimesMonotonic ==
  ASSUME NEW a \in Nat, NEW b \in Nat, NEW c \in Nat, a <= b
  PROVE  c * a <= c * b /\ a * c <= b * c
OBVIOUS

(* A battery is found with no more than the capacity it was settled with.   *)
LEMMA PollWithinCapacity ==
  ASSUME NeverOverfull, NEW b \in Batteries, NEW attr \in Attr, Settled(b, attr),
         Positive(batteries[b].energy_full),
         BatteryPoll(batteries[b], attr) # NaN
  PROVE  BatteryPoll(batteries[b], attr) <= batteries[b].energy_full
<1>1. PICK made \in Kinds[b] :
        /\ batteries[b] = EnergyDesign(made)
        /\ attr["energy_now"] \in {made["energy_now"]} \cup Levels
        /\ attr["charge_now"] \in {made["charge_now"]} \cup Levels
  BY DEF Settled
<1>2. made \in Attr
  BY BatteriesNumbered
<1>3. /\ NaN \in {attr["energy_now"], made["energy_full"]} \/ attr["energy_now"] <= made["energy_full"]
      /\ NaN \in {attr["charge_now"], made["charge_full"]} \/ attr["charge_now"] <= made["charge_full"]
  BY <1>1 DEF NeverOverfull
<1> DEFINE volts == VoltageDesign(made)
<1>4. volts \in Nat
  BY <1>2, VoltageDesignType
<1> HIDE DEF volts
<1>5. CASE Usable(made["energy_now"])
  <2>1. batteries[b].energy_full = made["energy_full"] /\ ~batteries[b].use_charge
    <3>1. EnergyDesign(made).energy_full = made["energy_full"]
      BY <1>5 DEF EnergyDesign
    <3>2. EnergyDesign(made).use_charge = FALSE
      BY <1>5 DEF EnergyDesign
    <3> QED
      BY <1>1, <3>1, <3>2
  <2>2. BatteryPoll(batteries[b], attr) = attr["energy_now"]
    BY <2>1 DEF BatteryPoll
  <2>3. attr["energy_now"] # NaN
    BY <2>2
  <2>4. made["energy_full"] # NaN
    BY <2>1 DEF Positive
  <2>5. attr["energy_now"] <= made["energy_full"]
    BY <1>3, <2>3, <2>4
  <2> QED
    BY <2>1, <2>2, <2>5
<1>6. CASE ~Usable(made["energy_now"]) /\ Usable(made["charge_now"])
  <2>1. /\ batteries[b].energy_full = Times(made["charge_full"], volts)
        /\ batteries[b].use_charge /\ batteries[b].voltage_design = volts
    <3>1. EnergyDesign(made).energy_full = Times(made["charge_full"], volts)
      BY <1>6 DEF EnergyDesign, volts
    <3>2. EnergyDesign(made).use_charge = TRUE
      BY <1>6 DEF EnergyDesign
    <3>3. EnergyDesign(made).voltage_design = volts
      BY DEF EnergyDesign, volts
    <3> QED
      BY <1>1, <3>1, <3>2, <3>3
  <2>2. BatteryPoll(batteries[b], attr) = Times(attr["charge_now"], volts)
    BY <2>1 DEF BatteryPoll
  <2>3. attr["charge_now"] # NaN /\ made["charge_full"] # NaN
    <3>1. Times(attr["charge_now"], volts) # NaN
      BY <2>2
    <3>2. Times(made["charge_full"], volts) # NaN
      BY <2>1 DEF Positive
    <3> QED
      BY <3>1, <3>2 DEF Times
  <2>4. /\ attr["charge_now"] \in Nat /\ made["charge_full"] \in Nat
        /\ attr["charge_now"] <= made["charge_full"]
    BY <1>2, <1>3, <2>3, AttributeType DEF Number
  <2>5. volts # NaN
    BY <1>4, NaNAssumption
  <2>6. /\ batteries[b].energy_full = made["charge_full"] * volts
        /\ BatteryPoll(batteries[b], attr) = attr["charge_now"] * volts
    BY <2>1, <2>2, <2>3, <2>5 DEF Times
  <2> QED
    BY <1>4, <2>4, <2>6, TimesMonotonic
<1>7. CASE ~Usable(made["energy_now"]) /\ ~Usable(made["charge_now"])
  <2>1. batteries[b].energy_full = 0
    BY <1>1, <1>7 DEF EnergyDesign
  <2> QED
    BY <2>1 DEF Positive
<1> QED
  BY <1>5, <1>6, <1>7

(* A reading of batteries with a known capacity shows no more than that.    *)
LEMMA ReadingWithinCapacity ==
  ASSUME NeverOverfull, CapacitiesKnown, batteries \in [Batteries -> Battery],
         NEW s, WasRead(s)
  PROVE  /\ s.energy_now \in Number /\ s.energy_full \in Nat
         /\ s.energy_now # NaN => s.energy_now <= s.energy_full
<1>1. PICK attrs, onlines :
        Held(attrs) /\ s \in ReadState(batteries, attrs, onlines, s.time)
  BY DEF WasRead
<1> DEFINE polls == Polls(batteries, attrs)
           fulls == Fulls(batteries)
<1>2. NBatteries \in Nat \ {0} /\ Batteries = 1..NBatteries
  BY BatteriesNumbered
<1>3. s.energy_now = SumUp(polls) /\ s.energy_full = SumUp(fulls)
  BY <1>1, ReadingFields
<1>4. polls \in [1..NBatteries -> Number] /\ fulls \in [1..NBatteries -> Number]
  BY <1>1, PollsType, FullsType DEF Held
<1>5. \A b \in Batteries : fulls[b] # NaN
  BY DEF CapacitiesKnown, Positive, Fulls
<1>6. \A b \in Batteries : polls[b] # NaN => polls[b] <= fulls[b]
  BY <1>1, PollWithinCapacity DEF Held, CapacitiesKnown, Polls, Fulls
<1> HIDE DEF polls, fulls
<1>7. fulls \in [1..NBatteries -> Nat]
  BY <1>2, <1>4, <1>5 DEF Number
<1>8. SumUp(polls) \in Number /\ SumUp(fulls) \in Nat
  BY <1>2, <1>4, <1>7, SumOfSome, SumOfKnown
<1>9. SumUp(polls) # NaN => SumUp(polls) <= SumUp(fulls)
  BY <1>2, <1>4, <1>6, <1>7, SumOfBounded
<1> QED
  BY <1>3, <1>8, <1>9

(* On batteries that never hold more than their capacity the charge is never *)
(* above 100%, and the predicted life covers the time that has been spent   *)
(* on it, whatever was unreadable or charged in between                     *)
(* (power-monitor.c:49 and 264-267).                                        *)
THEOREM PredictionAlwaysCovers ==
  ASSUME NeverOverfull
  PROVE  Spec => []PredictionCoversElapsed
<1>1. IInv => PredictionCoversElapsed
  <2> SUFFICES ASSUME IInv, CapacitiesKnown
               PROVE  LET life == Statistics(start_state, current_state).battery_life
                          elapsed == current_state.time - start_state.time
                      IN  /\ Known(current_state.energy_now) =>
                               current_state.energy_now <= current_state.energy_full
                          /\ start_state # NewState /\ life # Unknown =>
                               AtMost(Quotient(elapsed, 1), life)
    BY DEF PredictionCoversElapsed
  <2>1. batteries \in [Batteries -> Battery]
    BY DEF IInv
  <2>2. WasRead(current_state)
    BY DEF IInv, WasRead
  <2>3. /\ current_state.energy_now \in Number
        /\ current_state.energy_now # NaN =>
             current_state.energy_now <= current_state.energy_full
    BY <2>1, <2>2, ReadingWithinCapacity
  <2> DEFINE life == Statistics(start_state, current_state).battery_life
             elapsed == current_state.time - start_state.time
             used == EnergyUsed(start_state, current_state)
             full == start_state.energy_full
  <2>4. ASSUME start_state # NewState, life # Unknown
        PROVE  AtMost(Quotient(elapsed, 1), life)
    <3>1. /\ start_state.energy_now \in Number /\ full \in Nat
          /\ start_state.energy_now # NaN => start_state.energy_now <= full
      BY <2>1, <2>4, ReadingWithinCapacity DEF IInv
    <3>2. elapsed \in Nat
      BY <2>4 DEF IInv
    <3>3. elapsed >= Period /\ used > 0 /\ life = Life(start_state, current_state, full)
      BY <2>4 DEF Statistics
    <3>4. NaN \notin {start_state.energy_now, current_state.energy_now}
      BY <3>3 DEF EnergyUsed
    <3>5. used \in Nat /\ used <= full
      BY <2>3, <3>1, <3>3, <3>4 DEF EnergyUsed, Number
    <3>6. Known(full)
      BY <3>1, NaNAssumption DEF Known
    <3>7. life = Quotient(full * elapsed, used)
      BY <3>3, <3>6 DEF Life
    <3> HIDE DEF life, elapsed, used, full
    <3>8. elapsed * used <= full * elapsed
      BY <3>1, <3>2, <3>5, TimesMonotonic
    <3>9. full * elapsed \in Nat /\ elapsed * used \in Nat
      BY <3>1, <3>2, <3>5, ProductType
    <3> QED
      BY <3>7, <3>8, <3>9 DEF AtMost, Quotient
  <2> QED
    BY <2>3, <2>4 DEF Known
<1> QED
  BY <1>1, Invariance, PTL
==============================================================================
