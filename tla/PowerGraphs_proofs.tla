-------------------------- MODULE PowerGraphs_proofs --------------------------
(***************************************************************************)
(* Theorems about PowerGraphs, for every limit, every battery and every     *)
(* course of its readings: a run that was written can be read back, and the *)
(* curves of the run that is shown stay inside their charts.                *)
(*                                                                         *)
(* Reading a file is a recursive function over its elements.  As in         *)
(* PowerMonitor_proofs, that the function exists and what it computes is    *)
(* shown by induction, stated for sets.                                     *)
(***************************************************************************)
EXTENDS PowerGraphs, WellFoundedInduction, TLAPS

(* Every non-empty set of natural numbers has a least element. *)
LEMMA LeastNat ==
  ASSUME NEW M \in SUBSET Nat, M # {}
  PROVE  \E x \in M : \A y \in M : x <= y
<1> DEFINE R == {ss \in Nat \X Nat : ss[1] < ss[2]}
<1>1. R = OpToRel(<, Nat)
  BY DEF OpToRel
<1>2. IsWellFoundedOn(R, Nat)
  BY <1>1, NatLessThanWellFounded
<1> HIDE DEF R
<1>3. PICK x \in M : \A y \in M : <<y, x>> \notin R
  BY <1>2, WFMin
<1>4. ASSUME NEW y \in M
      PROVE  x <= y
  <2>1. x \in Nat /\ y \in Nat
    OBVIOUS
  <2>2. y < x => <<y, x>> \in R
    BY <2>1 DEF R
  <2> QED
    BY <1>3, <2>1, <2>2
<1> QED
  BY <1>4

LEMMA Induction ==
  ASSUME NEW N \in Nat, NEW P, 0 \in P,
         \A n \in 1..N : n - 1 \in P => n \in P
  PROVE  \A n \in 0..N : n \in P
<1> DEFINE M == {n \in 0..N : n \notin P}
<1>1. CASE M = {}
  BY <1>1
<1>2. CASE M # {}
  <2>1. M \in SUBSET Nat
    OBVIOUS
  <2> HIDE DEF M
  <2>2. PICK x \in M : \A y \in M : x <= y
    BY <1>2, <2>1, LeastNat
  <2>3. x \in 0..N /\ x \notin P
    BY DEF M
  <2>4. x \in 1..N
    BY <2>3
  <2>5. x - 1 \in 0..N /\ ~(x <= x - 1)
    BY <2>4
  <2>6. x - 1 \in P
    BY <2>2, <2>5 DEF M
  <2> QED
    BY <2>3, <2>4, <2>6
<1> QED
  BY <1>1, <1>2

(* A function on 0..N that is defined by recursion, each value from the one *)
(* before, exists.                                                          *)
IsRecursion(f, N, start, step) ==
  f[0] = start /\ \A n \in 1..N : f[n] = step[n][f[n - 1]]

LEMMA RecursionExists ==
  ASSUME NEW N \in Nat, NEW V, NEW start \in V, NEW step \in [1..N -> [V -> V]]
  PROVE  \E f \in [0..N -> V] : IsRecursion(f, N, start, step)
<1> DEFINE Up(m, f) == /\ f \in [0..m -> V]
                       /\ f = [n \in 0..m |-> IF n = 0 THEN start ELSE step[n][f[n - 1]]]
           P == {m \in 0..N : \E f : Up(m, f)}
<1>1. 0 \in P
  <2> DEFINE f == [n \in 0..0 |-> start]
  <2>1. f \in [0..0 -> V] /\ f = [n \in 0..0 |-> IF n = 0 THEN start ELSE step[n][f[n - 1]]]
    OBVIOUS
  <2>2. Up(0, f)
    BY <2>1
  <2> HIDE DEF Up
  <2> QED
    BY <2>2
<1>2. ASSUME NEW m \in 1..N, m - 1 \in P
      PROVE  m \in P
  <2>1. PICK f : Up(m - 1, f)
    BY <1>2
  <2> DEFINE g == [n \in 0..m |-> IF n < m THEN f[n] ELSE step[m][f[m - 1]]]
  <2>2. m - 1 \in 0..(m - 1) /\ 0..(m - 1) \subseteq 0..m /\ m # 0
    OBVIOUS
  <2>3. f \in [0..(m - 1) -> V]
    BY <2>1
  <2>4. \A n \in 0..(m - 1) : f[n] = IF n = 0 THEN start ELSE step[n][f[n - 1]]
    BY <2>1
  <2>5. f[m - 1] \in V /\ step[m][f[m - 1]] \in V
    BY <2>2, <2>3
  <2>6. ASSUME NEW n \in 0..m
        PROVE  g[n] \in V /\ g[n] = IF n = 0 THEN start ELSE step[n][g[n - 1]]
    <3>1. CASE n = m
      <4>1. g[n] = step[m][f[m - 1]]
        BY <3>1
      <4>2. g[n - 1] = f[m - 1]
        BY <2>2, <3>1
      <4> QED
        BY <2>2, <2>5, <3>1, <4>1, <4>2
    <3>2. CASE n # m
      <4>1. n \in 0..(m - 1) /\ n < m
        BY <3>2
      <4>2. g[n] = f[n]
        BY <4>1
      <4>3. n # 0 => n - 1 \in 0..m /\ n - 1 < m
        BY <4>1
      <4>4. n # 0 => g[n - 1] = f[n - 1]
        BY <4>3
      <4> QED
        BY <2>3, <2>4, <4>1, <4>2, <4>4
    <3> QED
      BY <3>1, <3>2
  <2>7. g \in [0..m -> V]
    BY <2>6
  <2>8. g = [n \in 0..m |-> g[n]]
    BY <2>7
  <2> HIDE DEF g
  <2>9. g = [n \in 0..m |-> IF n = 0 THEN start ELSE step[n][g[n - 1]]]
    BY <2>6, <2>8
  <2>10. Up(m, g)
    BY <2>7, <2>9
  <2>11. m \in 0..N
    OBVIOUS
  <2> HIDE DEF Up
  <2> QED
    BY <2>10, <2>11
<1> HIDE DEF P
<1>3. \A m \in 1..N : m - 1 \in P => m \in P
  BY <1>2
<1>4. \A m \in 0..N : m \in P
  BY <1>1, <1>3, Induction
<1>5. N \in P
  BY <1>4
<1>6. PICK f : Up(N, f)
  BY <1>5 DEF P
<1>7. f \in [0..N -> V] /\ f[0] = start
  BY <1>6
<1>8. \A n \in 1..N : f[n] = step[n][f[n - 1]]
  BY <1>6
<1> QED
  BY <1>7, <1>8 DEF IsRecursion

-----------------------------------------------------------------------------
(* The inductive invariant *)

(* What a file holds of a run: the elements of its first n readings, but    *)
(* for those that have been spoilt.                                         *)
Element ==
  LET Value == Int \cup {Missing}
  IN  [time_ms : Nat, online : BOOLEAN \cup {Missing}, energy : Value,
       energy_full : Value, energy_full_design : Value]

File == [duration : Durations, power : [num : Int, den : Int], log : Seq(Element \cup {Wrong})]

Holds(f, r, n) ==
  /\ f \in File
  /\ f.duration = r.duration
  /\ Len(f.log) = n
  /\ \A i \in 1..n : f.log[i] \in {Wrong, LogElement(r.history, i)}

(* The decision of UseState for a limit of charge *)
Spent(d, start, last, s) ==
  /\ NaN \notin {Percent(start), Percent(last), Percent(s)}
  /\ LET used == Minus(Percent(last), Percent(s))
         span == Minus(Percent(start), Quotient(d.limit, 1))
     IN  T!QuotientExceeds(used.num * span.den, span.num * used.den, PercentSamples)

(* Readings of one battery, in the order of their times, each of which used *)
(* a share of the charge if that is limited.                                *)
Measured(r) ==
  LET h == r.history IN
  /\ \A i \in 1..Len(h) :
       /\ h[i].energy_now \in Energies
       /\ [full |-> h[i].energy_full, design |-> h[i].energy_full_design] \in Capacities
       /\ h[i].energy_full = h[1].energy_full
       /\ h[i].energy_full_design = h[1].energy_full_design
       /\ \A j \in 1..i : h[j].time <= h[i].time
  /\ r.duration.type = "PERCENT" =>
       \A i \in 2..Len(h) : Spent(r.duration, h[1], h[i - 1], h[i])

(* The extremes that the run keeps are those of its curves. *)
Extremes(r) ==
  \A i \in 2..Len(r.history) :
    /\ AtMost(Statistics(r.history[i - 1], r.history[i]).power, r.max_power)
    /\ AtMost(Statistics(r.history[1], r.history[i]).battery_life, r.max_life)

(* A run that is limited by charge uses energy up as time passes. *)
UsesUp(r) ==
  LET h == r.history
      n == Len(h)
  IN  r.duration.type = "PERCENT" /\ n > 1 /\ Discharging(r) =>
        /\ h[1].energy_now \in Nat
        /\ \A i \in 2..n : /\ h[i].energy_now \in Nat
                            /\ h[i].energy_now < h[1].energy_now
                            /\ h[i].energy_full = h[1].energy_full
                            /\ h[i].time <= h[n].time

(* No reading of a run is before the first. *)
Dated(r) == \A i \in 1..Len(r.history) : r.history[1].time <= r.history[i].time

(* What a reader finds of the charge of a battery: what the file makes of   *)
(* it, or nothing.                                                          *)
Charges == {Stored(e) : e \in Energies} \cup {-1}
Fulls == {Stored(c.full) : c \in Capacities} \cup {-1}
Held(s) == s.energy_now \in Charges /\ s.energy_full \in Fulls
HeldRun(r) == \A i \in 1..Len(r.history) : Held(r.history[i])

IInv ==
  /\ TypeOK
  /\ Measured(run) /\ Extremes(run) /\ UsesUp(run)
  /\ file \notin {NoFile, Scratch} => \E n \in 1..Len(run.history) : Holds(file, run, n)
  /\ loaded # NoRun => /\ Extremes(loaded) /\ Dated(loaded) /\ HeldRun(loaded)
                       /\ WholeMicros => UsesUp(loaded)
  /\ ranges = UpdateChartRanges(Shown(shown))

-----------------------------------------------------------------------------
(* Arithmetic *)
LEMMA ProductType ==
  ASSUME NEW a \in Int, NEW b \in Int
  PROVE  a * b \in Int
OBVIOUS

LEMMA TimesMonotonic ==
  ASSUME NEW a \in Int, NEW b \in Int, NEW c \in Nat, a <= b
  PROVE  a * c <= b * c
OBVIOUS

LEMMA TimesStrict ==
  ASSUME NEW a \in Int, NEW b \in Int, NEW c \in Nat \ {0}
  PROVE  a * c <= b * c <=> a <= b
OBVIOUS

LEMMA ProductPositive ==
  ASSUME NEW a \in Nat \ {0}, NEW b \in Nat \ {0}
  PROVE  a * b \in Nat \ {0}
OBVIOUS

(* Division by a unit rounds down by less than the unit. *)
LEMMA RoundedDown ==
  ASSUME NEW a \in Int, NEW u \in Nat \ {0}
  PROVE  /\ a \div u \in Int
         /\ u * (a \div u) \in Int
         /\ u * (a \div u) <= a
         /\ a < u * (a \div u) + u
OBVIOUS

LEMMA RoundedOrder ==
  ASSUME NEW a \in Int, NEW b \in Int, NEW u \in Nat \ {0}, a <= b
  PROVE  a \div u <= b \div u
OBVIOUS

LEMMA DividedExactly ==
  ASSUME NEW a \in Int, NEW u \in Nat \ {0}, a % u = 0
  PROVE  a = u * (a \div u)
OBVIOUS

LEMMA RoundedExactly ==
  ASSUME NEW a \in Nat, NEW u \in Nat \ {0}, a % u = 0
  PROVE  u * ((u \div 2 + a) \div u) = a
<1> DEFINE k == a \div u
           q == (u \div 2 + a) \div u
<1>1. k \in Int /\ a = u * k
  BY RoundedDown, DividedExactly
<1>2. u \div 2 \in Nat /\ u \div 2 < u /\ u \div 2 + a \in Int
  OBVIOUS
<1>3. q \in Int /\ u * q <= u \div 2 + a /\ u \div 2 + a < u * q + u
  BY <1>2, RoundedDown
<1> HIDE DEF k, q
<1>4. u * q < u * k + u /\ u * k < u * q + u
  <2>1. u * q \in Int /\ u * k \in Int
    BY <1>1, <1>3, ProductType
  <2> QED
    BY <1>1, <1>2, <1>3, <2>1
<1>5. u * q + u = u * (q + 1) /\ u * k + u = u * (k + 1)
  BY <1>1, <1>3
<1>6. q < k + 1 /\ k < q + 1
  BY <1>1, <1>3, <1>4, <1>5
<1>7. q = k
  BY <1>1, <1>3, <1>6
<1> QED
  BY <1>1, <1>7 DEF q

LEMMA RoundedZero ==
  ASSUME NEW u \in Nat \ {0}
  PROVE  (u \div 2) \div u = 0
OBVIOUS

-----------------------------------------------------------------------------
(* Quotients *)
Quotients == [num : Int, den : Nat \ {0}]

LEMMA AtMostTransitive ==
  ASSUME NEW p \in Quotients, NEW q \in Quotients, NEW r \in Quotients,
         AtMost(p, q), AtMost(q, r)
  PROVE  AtMost(p, r)
<1> DEFINE pn == p.num
           pd == p.den
           qn == q.num
           qd == q.den
           rn == r.num
           rd == r.den
<1>1. /\ pn \in Int /\ qn \in Int /\ rn \in Int
      /\ pd \in Nat \ {0} /\ qd \in Nat \ {0} /\ rd \in Nat \ {0}
  BY DEF Quotients
<1>2. pn * qd <= qn * pd /\ qn * rd <= rn * qd
  BY DEF AtMost
<1> SUFFICES pn * rd <= rn * pd
  BY DEF AtMost
<1> HIDE DEF pn, pd, qn, qd, rn, rd
<1>3. /\ pn * qd \in Int /\ qn * pd \in Int /\ qn * rd \in Int /\ rn * qd \in Int
      /\ pn * rd \in Int /\ rn * pd \in Int
  BY <1>1, ProductType
<1>4. (pn * qd) * rd <= (qn * pd) * rd
  BY <1>1, <1>2, <1>3, TimesMonotonic
<1>5. (qn * rd) * pd <= (rn * qd) * pd
  BY <1>1, <1>2, <1>3, TimesMonotonic
<1>6. /\ (pn * qd) * rd = (pn * rd) * qd
      /\ (qn * pd) * rd = (qn * rd) * pd
      /\ (rn * qd) * pd = (rn * pd) * qd
  BY <1>1
<1>7. (pn * rd) * qd <= (rn * pd) * qd
  <2>1. (pn * qd) * rd \in Int /\ (qn * pd) * rd \in Int /\ (rn * qd) * pd \in Int
    BY <1>1, <1>3, ProductType
  <2> QED
    BY <1>4, <1>5, <1>6, <2>1
<1> QED
  BY <1>1, <1>3, <1>7, TimesStrict

LEMMA AtMostTotal ==
  ASSUME NEW p \in Quotients, NEW q \in Quotients, ~AtMost(p, q)
  PROVE  AtMost(q, p)
<1>1. p.num * q.den \in Int /\ q.num * p.den \in Int
  BY ProductType DEF Quotients
<1> QED
  BY <1>1 DEF AtMost

LEMMA ExtremeQuotient ==
  Extreme \subseteq Quotients /\ Unknown \in Quotients /\ Zero \in Extreme
BY DEF Extreme, Quotients, Unknown, Zero, Quotient

(* The greater of a new value and the extreme so far is an extreme of both. *)
LEMMA LargerIsExtreme ==
  ASSUME NEW p \in Quotients, NEW q \in Extreme
  PROVE  Larger(p, q) \in Extreme /\ AtMost(p, Larger(p, q)) /\ AtMost(q, Larger(p, q))
<1>1. q \in Quotients
  BY ExtremeQuotient
<1>2. CASE AtMost(p, q)
  BY <1>2 DEF Larger, AtMost, Extreme
<1>3. CASE ~AtMost(p, q)
  <2>1. Larger(p, q) = p /\ AtMost(q, p)
    BY <1>1, <1>3, AtMostTotal DEF Larger
  <2>2. AtMost(p, p)
    <3>1. p.num * p.den \in Int
      BY ProductType DEF Quotients
    <3> QED
      BY <3>1 DEF AtMost
  <2>3. q.num * p.den \in Nat
    <3> DEFINE a == q.num
               b == p.den
    <3>1. a \in Nat /\ b \in Nat
      BY DEF Quotients, Extreme
    <3> HIDE DEF a, b
    <3>2. a * b \in Nat
      BY <3>1
    <3> QED
      BY <3>2 DEF a, b
  <2>4. q.num * p.den < p.num * q.den
    <3>1. p.num * q.den \in Int /\ q.num * p.den \in Int
      BY <1>1, ProductType DEF Quotients
    <3> QED
      BY <1>3, <3>1 DEF AtMost
  <2>5. p.num > 0
    <3> DEFINE a == p.num
               b == q.den
    <3>1. a \in Int /\ b \in Nat \ {0} /\ a * b > 0
      <4>1. p.num * q.den \in Int
        BY <1>1, ProductType DEF Quotients
      <4> QED
        BY <1>1, <2>3, <2>4, <4>1 DEF Quotients
    <3> HIDE DEF a, b
    <3>2. a > 0
      BY <3>1
    <3> QED
      BY <3>2 DEF a
  <2>6. p \in Extreme
    BY <2>5 DEF Quotients, Extreme
  <2> QED
    BY <2>1, <2>2, <2>6
<1> QED
  BY <1>2, <1>3

-----------------------------------------------------------------------------
(* The statistics of two readings *)
LEMMA EnergyUsedType ==
  ASSUME NEW base \in Reading, NEW s \in Reading
  PROVE  EnergyUsed(base, s) \in Int
BY DEF EnergyUsed, Reading

LEMMA StatisticsType ==
  ASSUME NEW base \in Reading, NEW s \in Reading
  PROVE  /\ Statistics(base, s).power \in Quotients
         /\ Statistics(base, s).battery_life \in Quotients
<1> DEFINE elapsed == s.time - base.time
           used == EnergyUsed(base, s)
           full == base.energy_full
<1>1. elapsed \in Int /\ used \in Int /\ full \in Int \cup {NaN}
  BY EnergyUsedType DEF Reading
<1>2. Hour \in Nat \ {0} /\ Period \in Nat \ {0}
  BY TicksAssumption
<1>3. CASE elapsed >= Period /\ used > 0
  <2>1. elapsed \in Nat \ {0} /\ used \in Nat \ {0}
    <3> HIDE DEF elapsed, used
    <3> QED
      BY <1>1, <1>2, <1>3
  <2>2. used * Hour \in Int
    <3> HIDE DEF used
    <3> QED
      BY <1>1, <1>2, ProductType
  <2>3. Quotient(used * Hour, elapsed) \in Quotients
    <3> HIDE DEF elapsed, used
    <3> QED
      BY <2>1, <2>2 DEF Quotient, Quotients
  <2>4. Life(base, s, full) \in Quotients
    <3>1. CASE Known(full)
      <4>1. full * elapsed \in Int
        <5>1. full \in Int
          BY <1>1, <3>1 DEF Known
        <5> HIDE DEF full, elapsed
        <5> QED
          BY <1>1, <5>1, ProductType
      <4>2. Life(base, s, full) = Quotient(full * elapsed, used)
        BY <3>1 DEF Life
      <4> HIDE DEF full, elapsed, used
      <4> QED
        BY <2>1, <4>1, <4>2 DEF Quotient, Quotients
    <3>2. CASE ~Known(full)
      BY <3>2, ExtremeQuotient DEF Life
    <3> QED
      BY <3>1, <3>2
  <2>5. /\ Statistics(base, s).power = Quotient(used * Hour, elapsed)
        /\ Statistics(base, s).battery_life = Life(base, s, full)
    BY <1>3 DEF Statistics
  <2> QED
    BY <2>3, <2>4, <2>5
<1>4. CASE ~(elapsed >= Period /\ used > 0)
  <2>1. /\ Statistics(base, s).power = Unknown
        /\ Statistics(base, s).battery_life = Unknown
    BY <1>4 DEF Statistics
  <2> QED
    BY <2>1, ExtremeQuotient
<1> QED
  BY <1>3, <1>4

(* What is known of them is not negative. *)
LEMMA StatisticsNotNegative ==
  ASSUME NEW base \in Reading, NEW s \in Reading
  PROVE  LET stats == Statistics(base, s) IN
         /\ stats.power # Unknown => AtMost(Zero, stats.power)
         /\ stats.battery_life # Unknown => AtMost(Zero, stats.battery_life)
<1> DEFINE elapsed == s.time - base.time
           used == EnergyUsed(base, s)
           full == base.energy_full
<1>1. elapsed \in Int /\ used \in Int /\ full \in Int \cup {NaN}
  BY EnergyUsedType DEF Reading
<1>2. Hour \in Nat \ {0} /\ Period \in Nat \ {0}
  BY TicksAssumption
<1>3. CASE elapsed >= Period /\ used > 0
  <2>1. /\ Statistics(base, s).power = Quotient(used * Hour, elapsed)
        /\ Statistics(base, s).battery_life = Life(base, s, full)
    BY <1>3 DEF Statistics
  <2>2. Known(full) => Life(base, s, full) = Quotient(full * elapsed, used) /\ full \in Nat
    BY <1>1 DEF Life, Known
  <2>3. ~Known(full) => Life(base, s, full) = Unknown
    BY DEF Life
  <2> HIDE DEF elapsed, used, full
  <2>4. elapsed \in Nat /\ used \in Nat
    BY <1>1, <1>2, <1>3
  <2>5. ASSUME NEW a \in Nat, NEW b \in Nat, NEW d \in Nat
        PROVE  AtMost(Zero, Quotient(a * b, d))
    <3>1. a * b \in Nat
      BY <2>5
    <3> QED
      BY <3>1 DEF AtMost, Zero, Quotient
  <2> QED
    BY <1>2, <2>1, <2>2, <2>3, <2>4, <2>5
<1>4. CASE ~(elapsed >= Period /\ used > 0)
  BY <1>4 DEF Statistics
<1> QED
  BY <1>3, <1>4

(* A battery that started with no more than its capacity would last longer  *)
(* than what was spent of it did (power-monitor.c:264-267).                 *)
LEMMA LifeCoversElapsed ==
  ASSUME NEW base \in Reading, NEW s \in Reading,
         base.energy_now \in Nat, s.energy_now \in Nat, base.energy_full \in Nat,
         base.energy_now <= base.energy_full, s.energy_now < base.energy_now,
         s.time - base.time >= Period
  PROVE  AtMost(Quotient(s.time - base.time, 1), Statistics(base, s).battery_life)
<1> DEFINE elapsed == s.time - base.time
           used == EnergyUsed(base, s)
           full == base.energy_full
<1>1. used = base.energy_now - s.energy_now
  BY NaNAssumption DEF EnergyUsed
<1>2. elapsed \in Nat /\ used \in Nat /\ full \in Nat /\ used <= full /\ used > 0
  BY <1>1, TicksAssumption DEF Reading
<1>3. Known(full)
  BY <1>2, NaNAssumption DEF Known
<1>4. Statistics(base, s).battery_life = Quotient(full * elapsed, used)
  BY <1>2, <1>3 DEF Statistics, Life
<1> HIDE DEF elapsed, used, full
<1>5. used * elapsed <= full * elapsed
  BY <1>2, TimesMonotonic
<1>6. AtMost(Quotient(elapsed, 1), Quotient(full * elapsed, used))
  <2>1. full * elapsed \in Int
    BY <1>2, ProductType
  <2> QED
    BY <1>2, <1>5, <2>1 DEF AtMost, Quotient
<1> QED
  BY <1>4, <1>6 DEF elapsed

-----------------------------------------------------------------------------
(* The axes.  A range is not below what it is for, or it is the last one.   *)
LEMMA RoundUpCovers ==
  ASSUME NEW q \in Quotients, NEW steps \in Seq(Nat),
         NEW unit \in Nat \ {0}, NEW top \in Nat
  PROVE  /\ RoundUp(q, steps, unit, top) \in Nat
         /\ \/ AtMost(q, Quotient(RoundUp(q, steps, unit, top), 1))
            \/ RoundUp(q, steps, unit, top) = unit * top
<1> DEFINE above == {i \in DOMAIN steps : AtMost(q, Quotient(steps[i] * unit, 1))}
<1>1. CASE above = {}
  <2>1. RoundUp(q, steps, unit, top) = unit * top
    BY <1>1 DEF RoundUp
  <2>2. unit * top \in Nat
    OBVIOUS
  <2> QED
    BY <2>1, <2>2
<1>2. CASE above # {}
  <2>1. above \in SUBSET Nat
    OBVIOUS
  <2>2. PICK i \in above : \A j \in above : i <= j
    <3> HIDE DEF above
    <3> QED
      BY <1>2, <2>1, LeastNat
  <2>3. Min(above) \in above
    <3> HIDE DEF above
    <3> QED
      BY <2>2 DEF Min
  <2> DEFINE m == Min(above)
  <2>4. RoundUp(q, steps, unit, top) = unit * steps[m]
    BY <1>2 DEF RoundUp
  <2>5. m \in DOMAIN steps /\ AtMost(q, Quotient(steps[m] * unit, 1))
    BY <2>3
  <2> HIDE DEF m, above
  <2>6. steps[m] \in Nat
    BY <2>5
  <2>7. unit * steps[m] \in Nat /\ unit * steps[m] = steps[m] * unit
    BY <2>6
  <2> QED
    BY <2>4, <2>5, <2>7
<1> QED
  BY <1>1, <1>2

LEMMA StepsType ==
  TimeSteps \in Seq(Nat) /\ PowerSteps \in Seq(Nat)
BY DEF TimeSteps, PowerSteps

LEMMA RoundUpTimeCovers ==
  ASSUME NEW q \in Quotients
  PROVE  /\ RoundUpTime(q) \in Nat
         /\ \/ AtMost(q, Quotient(RoundUpTime(q), 1))
            \/ RoundUpTime(q) = 2880 * Minute
<1>1. RoundUpTime(q) = RoundUp(q, TimeSteps, Minute, 2880)
  BY DEF RoundUpTime
<1>2. Minute * 2880 = 2880 * Minute
  BY BoundsAssumption
<1>3. Minute \in Nat \ {0} /\ 2880 \in Nat /\ TimeSteps \in Seq(Nat)
  BY StepsType, BoundsAssumption
<1> QED
  BY <1>1, <1>2, <1>3, RoundUpCovers

(* Every step of the time is at least five minutes. *)
LEMMA RoundUpTimeAtLeast ==
  ASSUME NEW q \in Quotients
  PROVE  RoundUpTime(q) >= 5 * Minute
<1> DEFINE above == {i \in DOMAIN TimeSteps : AtMost(q, Quotient(TimeSteps[i] * Minute, 1))}
<1>1. Minute \in Nat \ {0}
  BY BoundsAssumption
<1>2. CASE above = {}
  <2>1. RoundUpTime(q) = Minute * 2880
    BY <1>2 DEF RoundUpTime, RoundUp
  <2> QED
    BY <1>1, <2>1
<1>3. CASE above # {}
  <2>1. above \in SUBSET Nat
    BY StepsType
  <2>2. PICK i \in above : \A j \in above : i <= j
    <3> HIDE DEF above
    <3> QED
      BY <1>3, <2>1, LeastNat
  <2>3. Min(above) \in above
    <3> HIDE DEF above
    <3> QED
      BY <2>2 DEF Min
  <2> DEFINE m == Min(above)
  <2>4. RoundUpTime(q) = Minute * TimeSteps[m]
    BY <1>3 DEF RoundUpTime, RoundUp
  <2>5. m \in DOMAIN TimeSteps
    BY <2>3
  <2> HIDE DEF m, above
  <2>6. TimeSteps[m] \in Nat /\ TimeSteps[m] >= 5
    BY <2>5 DEF TimeSteps
  <2> DEFINE step == TimeSteps[m]
  <2>7. step \in Nat /\ step >= 5 /\ RoundUpTime(q) = step * Minute
    BY <1>1, <2>4, <2>6
  <2> HIDE DEF step
  <2>8. 5 * Minute <= step * Minute
    BY <1>1, <2>7, TimesMonotonic
  <2> QED
    BY <1>1, <2>7, <2>8
<1> QED
  BY <1>2, <1>3

-----------------------------------------------------------------------------
(* A reading that is added to a run *)
LEMMA RunFields ==
  ASSUME NEW r \in Run
  PROVE  /\ r.duration \in Durations /\ r.duration.type \in {"TIME", "PERCENT"}
         /\ r.duration.limit \in Nat
         /\ r.loop_time \in Nat
         /\ r.history \in Seq(Reading) /\ Len(r.history) \in Nat
         /\ r.max_power \in Extreme /\ r.max_life \in Extreme
         /\ r.history # <<>> => /\ T!StartState(r) = r.history[1]
                                /\ T!LastState(r) = r.history[Len(r.history)]
                                /\ T!StartState(r) \in Reading
                                /\ T!LastState(r) \in Reading
                                /\ Len(r.history) >= 1
<1>1. r.duration \in [type : {"TIME", "PERCENT"}, limit : Nat]
  BY DurationsAssumption DEF Run
<1>2. r.loop_time \in Nat
  <2>1. r.loop_time \in LoopTimes \cup {0}
    BY DEF Run
  <2>2. LoopTimes \cup {0} \subseteq Nat
    BY LoopTimesAssumption
  <2> QED
    BY <2>1, <2>2
<1>3. r.history \in Seq(Reading)
  BY DEF Run
<1>4. r.history # <<>> => Len(r.history) >= 1
  BY <1>3
<1> QED
  BY <1>1, <1>2, <1>3, <1>4 DEF Run, T!StartState, T!LastState

(* What Add makes of a run, in the three cases *)
Extended(r, s) ==
  [r EXCEPT !.history = Append(@, s),
            !.max_life = Larger(Statistics(T!StartState(r), s).battery_life, @),
            !.max_power = Larger(Statistics(T!LastState(r), s).power, @)]

LEMMA AddCases ==
  ASSUME NEW r, NEW s
  PROVE  /\ ~UseState(r, s) => Add(r, s) = r
         /\ r.history = <<>> => Add(r, s) = [r EXCEPT !.history = <<s>>] /\ UseState(r, s)
         /\ UseState(r, s) /\ r.history # <<>> => Add(r, s) = Extended(r, s)
<1>1. r.history = <<>> => UseState(r, s)
  BY DEF UseState
<1> QED
  BY <1>1 DEF Add, Extended

LEMMA ExtendedFields ==
  ASSUME NEW r \in Run, NEW s \in Reading, r.history # <<>>
  PROVE  LET n == Len(r.history)
             e == Extended(r, s)
         IN  /\ e \in Run
             /\ e.duration = r.duration /\ e.loop_time = r.loop_time
             /\ e.history = Append(r.history, s)
             /\ Len(e.history) = n + 1
             /\ e.history[n + 1] = s
             /\ \A i \in 1..n : e.history[i] = r.history[i]
             /\ e.max_life = Larger(Statistics(r.history[1], s).battery_life, r.max_life)
             /\ e.max_power = Larger(Statistics(r.history[n], s).power, r.max_power)
<1> DEFINE n == Len(r.history)
           e == Extended(r, s)
           life == Statistics(r.history[1], s).battery_life
           power == Statistics(r.history[n], s).power
<1>1. /\ r.history \in Seq(Reading) /\ n \in Nat /\ n >= 1
      /\ T!StartState(r) = r.history[1] /\ T!LastState(r) = r.history[n]
      /\ r.history[1] \in Reading /\ r.history[n] \in Reading
      /\ r.max_power \in Extreme /\ r.max_life \in Extreme
  BY RunFields
<1>2. /\ e.duration = r.duration /\ e.loop_time = r.loop_time
      /\ e.history = Append(r.history, s)
      /\ e.max_life = Larger(life, r.max_life)
      /\ e.max_power = Larger(power, r.max_power)
  BY <1>1 DEF Extended, Run
<1>3. life \in Quotients /\ power \in Quotients
  BY <1>1, StatisticsType
<1> HIDE DEF life, power
<1>4. Larger(life, r.max_life) \in Extreme /\ Larger(power, r.max_power) \in Extreme
  BY <1>1, <1>3, LargerIsExtreme
<1>5. /\ Append(r.history, s) \in Seq(Reading)
      /\ Len(Append(r.history, s)) = n + 1
      /\ Append(r.history, s)[n + 1] = s
      /\ \A i \in 1..n : Append(r.history, s)[i] = r.history[i]
  BY <1>1
<1>6. e = [duration |-> r.duration, loop_time |-> r.loop_time,
           history |-> Append(r.history, s),
           max_power |-> Larger(power, r.max_power), max_life |-> Larger(life, r.max_life)]
  <2>1. r = [duration |-> r.duration, loop_time |-> r.loop_time, history |-> r.history,
             max_power |-> r.max_power, max_life |-> r.max_life]
    BY DEF Run
  <2>2. r \in [duration : {r.duration}, loop_time : {r.loop_time}, history : {r.history},
               max_power : {r.max_power}, max_life : {r.max_life}]
    BY <2>1
  <2> HIDE DEF life, power
  <2>3. e = [r EXCEPT !.history = Append(r.history, s), !.max_life = Larger(life, r.max_life),
                      !.max_power = Larger(power, r.max_power)]
    BY <1>1 DEF Extended, life, power
  <2> HIDE DEF e
  <2> QED
    BY <2>2, <2>3
<1>7. e \in Run
  <2> HIDE DEF e
  <2> QED
    BY <1>4, <1>5, <1>6 DEF Run
<1> HIDE DEF e
<1> QED
  BY <1>2, <1>5, <1>7 DEF life, power, e

LEMMA AddType ==
  ASSUME NEW r \in Run, NEW s \in Reading
  PROVE  Add(r, s) \in Run
<1>1. CASE r.history = <<>>
  <2>1. <<s>> \in Seq(Reading)
    OBVIOUS
  <2>2. [r EXCEPT !.history = <<s>>] \in Run
    BY <2>1 DEF Run
  <2> QED
    BY <1>1, <2>2, AddCases
<1>2. CASE r.history # <<>>
  BY <1>2, AddCases, ExtendedFields
<1> QED
  BY <1>1, <1>2

LEMMA AddKeepsDuration ==
  ASSUME NEW r \in Run, NEW s \in Reading
  PROVE  Add(r, s).duration = r.duration
<1>1. CASE ~UseState(r, s)
  BY <1>1, AddCases
<1>2. CASE r.history = <<>>
  BY <1>2, AddCases DEF Run
<1>3. CASE UseState(r, s) /\ r.history # <<>>
  BY <1>3, AddCases, ExtendedFields
<1> QED
  BY <1>1, <1>2, <1>3

LEMMA AddKeepsExtremes ==
  ASSUME NEW r \in Run, NEW s \in Reading, Extremes(r)
  PROVE  Extremes(Add(r, s))
<1>1. CASE ~UseState(r, s)
  BY <1>1, AddCases
<1>2. CASE r.history = <<>>
  <2>1. Add(r, s).history = <<s>>
    BY <1>2, AddCases DEF Run
  <2>2. 2..Len(<<s>>) = {}
    OBVIOUS
  <2> QED
    BY <2>1, <2>2 DEF Extremes
<1>3. CASE UseState(r, s) /\ r.history # <<>>
  <2> DEFINE n == Len(r.history)
             e == Extended(r, s)
             h == r.history
  <2>1. Add(r, s) = e
    BY <1>3, AddCases
  <2>2. /\ e.history = Append(h, s)
        /\ Len(e.history) = n + 1 /\ e.history[n + 1] = s
        /\ \A i \in 1..n : e.history[i] = h[i]
        /\ e.max_life = Larger(Statistics(h[1], s).battery_life, r.max_life)
        /\ e.max_power = Larger(Statistics(h[n], s).power, r.max_power)
    BY <1>3, ExtendedFields
  <2>3. /\ h \in Seq(Reading) /\ n \in Nat /\ n >= 1
        /\ r.max_power \in Extreme /\ r.max_life \in Extreme
    BY <1>3, RunFields
  <2>4. \A i \in 1..n : h[i] \in Reading
    BY <2>3
  <2>5. /\ Statistics(h[1], s).battery_life \in Quotients
        /\ Statistics(h[n], s).power \in Quotients
    BY <2>3, <2>4, StatisticsType
  <2>6. /\ AtMost(Statistics(h[1], s).battery_life, e.max_life)
        /\ AtMost(r.max_life, e.max_life) /\ e.max_life \in Quotients
        /\ AtMost(Statistics(h[n], s).power, e.max_power)
        /\ AtMost(r.max_power, e.max_power) /\ e.max_power \in Quotients
    BY <2>2, <2>3, <2>5, LargerIsExtreme, ExtremeQuotient
  <2> HIDE DEF e
  <2>7. ASSUME NEW i \in 2..(n + 1)
        PROVE  /\ AtMost(Statistics(e.history[i - 1], e.history[i]).power, e.max_power)
               /\ AtMost(Statistics(e.history[1], e.history[i]).battery_life, e.max_life)
    <3>1. CASE i = n + 1
      <4>1. e.history[i] = s /\ e.history[i - 1] = h[n] /\ e.history[1] = h[1]
        BY <2>2, <2>3, <3>1
      <4> QED
        BY <2>6, <4>1
    <3>2. CASE i \in 2..n
      <4>1. i - 1 \in 1..n /\ i \in 1..n /\ 1 \in 1..n
        BY <3>2
      <4>2. e.history[i] = h[i] /\ e.history[i - 1] = h[i - 1] /\ e.history[1] = h[1]
        BY <2>2, <4>1
      <4>3. /\ AtMost(Statistics(h[i - 1], h[i]).power, r.max_power)
            /\ AtMost(Statistics(h[1], h[i]).battery_life, r.max_life)
        BY <3>2 DEF Extremes
      <4>4. /\ Statistics(h[i - 1], h[i]).power \in Quotients
            /\ Statistics(h[1], h[i]).battery_life \in Quotients
            /\ r.max_power \in Quotients /\ r.max_life \in Quotients
        BY <2>3, <2>4, <4>1, StatisticsType, ExtremeQuotient
      <4>5. /\ AtMost(Statistics(h[i - 1], h[i]).power, e.max_power)
            /\ AtMost(Statistics(h[1], h[i]).battery_life, e.max_life)
        BY <2>6, <4>3, <4>4, AtMostTransitive
      <4> QED
        BY <4>2, <4>5
    <3> QED
      BY <2>3, <3>1, <3>2
  <2> QED
    BY <2>1, <2>2, <2>7 DEF Extremes
<1> QED
  BY <1>1, <1>2, <1>3

-----------------------------------------------------------------------------
(* The curves of a run whose extremes are kept, inside the axes made for it *)
LEMMA OrElseCovers ==
  ASSUME NEW q \in Extreme, NEW d \in Nat
  PROVE  OrElse(q, d) \in Quotients /\ AtMost(q, OrElse(q, d))
<1>1. CASE q.num = 0
  <2>1. OrElse(q, d) = Quotient(d, 1)
    BY <1>1 DEF OrElse
  <2>2. Quotient(d, 1) \in Quotients /\ Quotient(d, 1).num = d /\ Quotient(d, 1).den = 1
    BY DEF Quotient, Quotients
  <2>3. q.den \in Nat
    BY DEF Extreme
  <2>4. d * q.den \in Nat
    <3> DEFINE b == q.den
    <3>1. b \in Nat
      BY <2>3
    <3> HIDE DEF b
    <3>2. d * b \in Nat
      BY <3>1
    <3> QED
      BY <3>2 DEF b
  <2> QED
    BY <1>1, <2>1, <2>2, <2>4 DEF AtMost
<1>2. CASE q.num # 0
  <2>1. q.num * q.den \in Int
    BY ProductType DEF Extreme
  <2>2. AtMost(q, q)
    BY <2>1 DEF AtMost
  <2> QED
    BY <1>2, <2>2, ExtremeQuotient DEF OrElse
<1> QED
  BY <1>1, <1>2

LEMMA WholeQuotient ==
  ASSUME NEW a \in Int
  PROVE  Quotient(a, 1) \in Quotients /\ Quotient(a, 1).num = a /\ Quotient(a, 1).den = 1
BY DEF Quotient, Quotients

LEMMA AtMostWhole ==
  ASSUME NEW a \in Int, NEW b \in Int, AtMost(Quotient(a, 1), Quotient(b, 1))
  PROVE  a <= b
BY DEF AtMost, Quotient

LEMMA CurvesInside ==
  ASSUME NEW r \in Run, Extremes(r), NEW p \in Curve(r)
  PROVE  LET axes == UpdateChartRanges(r) IN
         /\ AtMost(p.power, Quotient(axes.max_y_power, 1)) \/ axes.max_y_power = 100
         /\ AtMost(p.life, Quotient(axes.max_y_life, 1)) \/ axes.max_y_life = 2880 * Minute
         /\ p.power # Unknown => AtMost(Zero, p.power)
         /\ p.life # Unknown => AtMost(Zero, p.life)
<1> DEFINE h == r.history
           power == OrElse(r.max_power, 10)
           life == OrElse(r.max_life, 300 * Minute)
           y_power == RoundUp(power, PowerSteps, 1, 100)
           y_life == RoundUpTime(life)
<1>1. r # NoRun
  BY NoRunAssumption
<1>2. UpdateChartRanges(r).max_y_power = y_power /\ UpdateChartRanges(r).max_y_life = y_life
  BY <1>1 DEF UpdateChartRanges
<1>3. PICK i \in 2..Len(h) : p = [x |-> h[i].time - h[1].time,
                                  power |-> Statistics(h[i - 1], h[i]).power,
                                  percent |-> Percent(h[i]),
                                  charged |-> Charged(h[i]),
                                  life |-> Statistics(h[1], h[i]).battery_life]
  BY DEF Curve
<1>4. h \in Seq(Reading) /\ r.max_power \in Extreme /\ r.max_life \in Extreme
  BY RunFields
<1>5. h[i - 1] \in Reading /\ h[i] \in Reading /\ h[1] \in Reading
  <2>1. i - 1 \in 1..Len(h) /\ i \in 1..Len(h) /\ 1 \in 1..Len(h)
    BY <1>4
  <2> QED
    BY <1>4, <2>1
<1>6. /\ p.power \in Quotients /\ AtMost(p.power, r.max_power)
      /\ p.life \in Quotients /\ AtMost(p.life, r.max_life)
  BY <1>3, <1>5, StatisticsType DEF Extremes
<1>7. Minute \in Nat \ {0} /\ 300 * Minute \in Nat
  BY BoundsAssumption
<1>8. /\ power \in Quotients /\ AtMost(r.max_power, power)
      /\ life \in Quotients /\ AtMost(r.max_life, life)
  BY <1>4, <1>7, OrElseCovers
<1>9. r.max_power \in Quotients /\ r.max_life \in Quotients
  BY <1>4, ExtremeQuotient
<1>10. AtMost(p.power, power) /\ AtMost(p.life, life)
  <2> HIDE DEF power, life
  <2> QED
    BY <1>6, <1>8, <1>9, AtMostTransitive
<1>11. y_power \in Nat /\ (AtMost(power, Quotient(y_power, 1)) \/ y_power = 100)
  <2> DEFINE unit == 1
             top == 100
  <2>1. PowerSteps \in Seq(Nat) /\ unit \in Nat \ {0} /\ top \in Nat
    BY StepsType
  <2>2. y_power = RoundUp(power, PowerSteps, unit, top)
    OBVIOUS
  <2> HIDE DEF power, y_power, unit, top
  <2>3. /\ y_power \in Nat
        /\ AtMost(power, Quotient(y_power, 1)) \/ y_power = unit * top
    BY <1>8, <2>1, <2>2, RoundUpCovers
  <2> QED
    BY <2>3 DEF unit, top
<1>12. y_life \in Nat /\ (AtMost(life, Quotient(y_life, 1)) \/ y_life = 2880 * Minute)
  BY <1>8, RoundUpTimeCovers
<1> HIDE DEF power, life, y_power, y_life
<1>13. Quotient(y_power, 1) \in Quotients /\ Quotient(y_life, 1) \in Quotients
  BY <1>11, <1>12, WholeQuotient
<1>14. AtMost(p.power, Quotient(y_power, 1)) \/ y_power = 100
  BY <1>6, <1>8, <1>10, <1>11, <1>13, AtMostTransitive
<1>15. AtMost(p.life, Quotient(y_life, 1)) \/ y_life = 2880 * Minute
  BY <1>6, <1>8, <1>10, <1>12, <1>13, AtMostTransitive
<1>16. /\ p.power # Unknown => AtMost(Zero, p.power)
       /\ p.life # Unknown => AtMost(Zero, p.life)
  BY <1>3, <1>5, StatisticsNotNegative
<1> QED
  BY <1>2, <1>14, <1>15, <1>16

LEMMA LoopInside ==
  ASSUME NEW r \in Run, r.duration.type = "TIME", NEW p \in Curve(r),
         p.x <= r.duration.limit + r.loop_time
  PROVE  LET axes == UpdateChartRanges(r)
         IN  p.x <= axes.max_x \/ axes.max_x = 2880 * Minute
<1> DEFINE end == r.duration.limit + r.loop_time
           max_x == RoundUpTime(Quotient(end, 1))
<1>1. end \in Nat
  BY RunFields
<1>2. r # NoRun
  BY NoRunAssumption
<1>3. UpdateChartRanges(r).max_x = max_x
  BY <1>2 DEF UpdateChartRanges, RangeOfTime
<1>4. PICK i \in 2..Len(r.history) : p.x = r.history[i].time - r.history[1].time
  BY DEF Curve
<1>5. p.x \in Int
  <2>1. r.history \in Seq(Reading) /\ i \in 1..Len(r.history) /\ 1 \in 1..Len(r.history)
    BY RunFields
  <2>2. r.history[i] \in Reading /\ r.history[1] \in Reading
    BY <2>1
  <2> QED
    BY <1>4, <2>2 DEF Reading
<1>6. max_x \in Nat /\ (AtMost(Quotient(end, 1), Quotient(max_x, 1)) \/ max_x = 2880 * Minute)
  BY <1>1, WholeQuotient, RoundUpTimeCovers
<1>7. p.x <= end
  OBVIOUS
<1> HIDE DEF end, max_x
<1>8. end <= max_x \/ max_x = 2880 * Minute
  BY <1>1, <1>6, AtMostWhole
<1> QED
  BY <1>1, <1>3, <1>5, <1>6, <1>7, <1>8

LEMMA BatteryInside ==
  ASSUME NEW r \in Run, UsesUp(r), r.duration.type = "PERCENT", Discharging(r),
         NEW p \in Curve(r)
  PROVE  LET axes == UpdateChartRanges(r)
         IN  p.x <= axes.max_x \/ axes.max_x = 2880 * Minute
<1> DEFINE h == r.history
           n == Len(h)
           life == Statistics(h[1], h[n]).battery_life
           max_x == RoundUpTime(life)
           elapsed == h[n].time - h[1].time
<1>1. PICK i \in 2..n : p.x = h[i].time - h[1].time
  BY DEF Curve
<1>2. h \in Seq(Reading) /\ n \in Nat /\ n > 1
  BY <1>1, RunFields
<1>3. h # <<>> /\ h[1] \in Reading /\ h[n] \in Reading /\ h[i] \in Reading
  BY <1>1, <1>2
<1>4. T!StartState(r) = h[1] /\ T!LastState(r) = h[n]
  BY DEF T!StartState, T!LastState
<1>5. r # NoRun
  BY NoRunAssumption
<1>6. UpdateChartRanges(r).max_x = max_x
  <2>1. UpdateChartRanges(r).max_x = RangeOfTime(r)
    BY <1>5 DEF UpdateChartRanges
  <2>2. ~(n < 2) /\ r.duration.type # "TIME"
    BY <1>2
  <2> QED
    BY <1>4, <2>1, <2>2 DEF RangeOfTime
<1>7. /\ h[1].energy_now \in Nat /\ h[n].energy_now \in Nat
      /\ h[n].energy_now < h[1].energy_now
      /\ h[i].time <= h[n].time
  <2>1. n \in 2..n
    BY <1>2
  <2> QED
    BY <1>1, <1>2, <2>1 DEF UsesUp
<1>8. h[1].energy_full \in Nat /\ h[1].energy_now <= h[1].energy_full
  <2>1. Percent(h[1]) # NaN /\ h[1].energy_now <= h[1].energy_full
    BY <1>4 DEF Discharging
  <2>2. h[1].energy_full # NaN
    BY <2>1 DEF Percent
  <2>3. h[1].energy_full \in Int
    BY <1>3, <2>2 DEF Reading
  <2> QED
    BY <1>7, <2>1, <2>3
<1>9. /\ h[1].time \in Nat /\ h[n].time \in Nat /\ h[i].time \in Nat
  BY <1>3 DEF Reading
<1>10. p.x \in Int /\ elapsed \in Int /\ p.x <= elapsed
  <2> DEFINE first == h[1].time
             now == h[i].time
             last == h[n].time
  <2>1. first \in Nat /\ now \in Nat /\ last \in Nat /\ now <= last
    BY <1>1, <1>7, <1>9
  <2> HIDE DEF first, now, last
  <2>2. now - first \in Int /\ last - first \in Int /\ now - first <= last - first
    BY <2>1
  <2> QED
    BY <1>1, <2>2 DEF first, now, last
<1>11. life \in Quotients
  BY <1>3, StatisticsType
<1>12. /\ max_x \in Nat /\ max_x >= 5 * Minute
       /\ AtMost(life, Quotient(max_x, 1)) \/ max_x = 2880 * Minute
  BY <1>11, RoundUpTimeCovers, RoundUpTimeAtLeast
<1>13. CASE elapsed >= Period
  <2>1. AtMost(Quotient(elapsed, 1), life)
    BY <1>3, <1>7, <1>8, <1>13, LifeCoversElapsed
  <2>2. CASE AtMost(life, Quotient(max_x, 1))
    <3> HIDE DEF life, max_x, elapsed
    <3>1. Quotient(elapsed, 1) \in Quotients /\ Quotient(max_x, 1) \in Quotients
      BY <1>10, <1>12, WholeQuotient
    <3>2. AtMost(Quotient(elapsed, 1), Quotient(max_x, 1))
      BY <1>11, <2>1, <2>2, <3>1, AtMostTransitive
    <3>3. elapsed <= max_x
      BY <1>10, <1>12, <3>2, AtMostWhole
    <3> QED
      BY <1>6, <1>10, <1>12, <3>3
  <2> QED
    BY <1>6, <1>12, <2>2
<1>14. CASE elapsed < Period
  <2>1. Period <= 5 * Minute /\ 5 * Minute \in Nat /\ Period \in Nat
    BY PeriodAssumption, BoundsAssumption, TicksAssumption
  <2> HIDE DEF max_x, elapsed
  <2> QED
    BY <1>6, <1>10, <1>12, <1>14, <2>1
<1>15. Period \in Int
  BY TicksAssumption
<1> HIDE DEF elapsed
<1> QED
  BY <1>10, <1>13, <1>14, <1>15

-----------------------------------------------------------------------------
(* Reading a file, element by element *)
Acc == [run : Run, last : Reading]

LEMMA NewRunType ==
  ASSUME NEW d \in Durations, NEW l \in LoopTimes \cup {0}
  PROVE  /\ NewRun(d, l) \in Run
         /\ NewRun(d, l).history = <<>> /\ NewRun(d, l).duration = d
<1>1. Zero \in Extreme /\ <<>> \in Seq(Reading)
  BY ExtremeQuotient
<1> QED
  BY <1>1 DEF NewRun, Run

LEMMA FreedType ==
  ASSUME NEW s \in Reading
  PROVE  NewState \in Reading /\ Freed(s) \subseteq Reading
<1>1. NewState \in Reading
  BY DEF NewState, Reading
<1>2. \A b \in BOOLEAN : [s EXCEPT !.online = b] \in Reading
  BY DEF Reading
<1> QED
  BY <1>1, <1>2 DEF Freed

LEMMA MemberType ==
  ASSUME NEW v \in Int \cup {Missing}, NEW old \in Int \cup {NaN}, NEW scale \in Nat \ {0}
  PROVE  /\ Member(v, old, scale) \in Int \cup {NaN}
         /\ v # Missing => v \in Int /\ Member(v, old, scale) = scale * v
         /\ v = Missing => Member(v, old, scale) = old
<1>1. CASE v = Missing
  BY <1>1 DEF Member
<1>2. CASE v # Missing
  <2>1. v \in Int /\ v * scale \in Int /\ v * scale = scale * v /\ v * 1 = v
    BY <1>2
  <2>2. Member(v, old, scale) = v * scale
    BY <1>2, <2>1 DEF Member
  <2> QED
    BY <1>2, <2>1, <2>2
<1> QED
  BY <1>1, <1>2

LEMMA ReadElementType ==
  ASSUME NEW last \in Reading, NEW e \in Element
  PROVE  /\ ReadElement(last, e) \in Reading
         /\ ReadElement(last, e).time = Ms * e.time_ms
         /\ ReadElement(last, e).online = IF e.online = Missing THEN last.online ELSE e.online
<1>1. /\ e.time_ms \in Nat /\ e.online \in BOOLEAN \cup {Missing}
      /\ e.energy \in Int \cup {Missing}
      /\ e.energy_full \in Int \cup {Missing}
      /\ e.energy_full_design \in Int \cup {Missing}
  BY DEF Element
<1>2. /\ last.time \in Nat /\ last.online \in BOOLEAN
      /\ last.energy_now \in Int \cup {NaN}
      /\ last.energy_full \in Int \cup {NaN}
      /\ last.energy_full_design \in Int \cup {NaN}
  BY DEF Reading
<1>3. Ms \in Nat \ {0} /\ Micro \in Nat \ {0}
  BY UnitsAssumption
<1>4. /\ Member(e.energy, last.energy_now, Micro) \in Int \cup {NaN}
      /\ Member(e.energy_full, last.energy_full, Micro) \in Int \cup {NaN}
      /\ Member(e.energy_full_design, last.energy_full_design, Micro) \in Int \cup {NaN}
  BY <1>1, <1>2, <1>3, MemberType
<1>5. Member(e.time_ms, last.time, Ms) = Ms * e.time_ms
  <2>1. e.time_ms \in Int \cup {Missing} /\ e.time_ms # Missing /\ last.time \in Int \cup {NaN}
    BY <1>1, <1>2, MissingAssumption
  <2> QED
    BY <1>3, <2>1, MemberType
<1>6. Ms * e.time_ms \in Nat
  <2> DEFINE t == e.time_ms
  <2>1. t \in Nat
    BY <1>1
  <2> HIDE DEF t
  <2>2. Ms * t \in Nat
    BY <1>3, <2>1
  <2> QED
    BY <2>2 DEF t
<1>7. Member(e.online, last.online, 1) = IF e.online = Missing THEN last.online ELSE e.online
  BY DEF Member
<1>8. Member(e.online, last.online, 1) \in BOOLEAN
  BY <1>1, <1>2, <1>7
<1> QED
  BY <1>4, <1>5, <1>6, <1>7, <1>8 DEF ReadElement, Reading

LEMMA ReadStepCases ==
  ASSUME NEW accs \in SUBSET Acc, NEW e \in Element, NEW next \in ReadStep(accs, e)
  PROVE  /\ next \in Acc
         /\ \E acc \in accs :
              /\ next.run = Add(acc.run, ReadElement(acc.last, e))
              /\ UseState(acc.run, ReadElement(acc.last, e)) =>
                   next.last = ReadElement(acc.last, e)
              /\ next.last \in {ReadElement(acc.last, e)} \cup Freed(ReadElement(acc.last, e))
<1>1. PICK acc \in accs :
        next \in LET s == ReadElement(acc.last, e)
                 IN  {[run |-> Add(acc.run, s), last |-> l] :
                        l \in IF UseState(acc.run, s) THEN {s} ELSE Freed(s)}
  BY DEF ReadStep
<1> DEFINE s == ReadElement(acc.last, e)
<1>2. PICK l \in IF UseState(acc.run, s) THEN {s} ELSE Freed(s) :
        next = [run |-> Add(acc.run, s), last |-> l]
  BY <1>1
<1>3. acc.run \in Run /\ acc.last \in Reading
  BY DEF Acc
<1>4. s \in Reading /\ Add(acc.run, s) \in Run
  BY <1>3, ReadElementType, AddType
<1>5. l \in Reading
  BY <1>2, <1>4, FreedType
<1>6. /\ next.run = Add(acc.run, s) /\ (UseState(acc.run, s) => next.last = s)
      /\ next.last \in {s} \cup Freed(s)
  BY <1>2
<1>7. next \in Acc
  BY <1>2, <1>4, <1>5 DEF Acc
<1> QED
  BY <1>6, <1>7

IsReading(read, f) ==
  /\ read[0] = {[run |-> NewRun(f.duration, 0), last |-> NewState]}
  /\ \A n \in 1..Len(f.log) : read[n] = ReadStep(read[n - 1], f.log[n])

LEMMA ReadSteps ==
  ASSUME NEW f \in File, \A i \in 1..Len(f.log) : f.log[i] # Wrong
  PROVE  \E read \in [0..Len(f.log) -> SUBSET Acc] :
           /\ IsReading(read, f)
           /\ ReadFromFile(f) = {acc.run : acc \in read[Len(f.log)]}
<1> DEFINE N == Len(f.log)
           V == SUBSET Acc
           start == {[run |-> NewRun(f.duration, 0), last |-> NewState]}
           step == [n \in 1..N |-> [accs \in V |-> ReadStep(accs, f.log[n])]]
           read == CHOOSE g : g = [n \in 0..N |->
                                     IF n = 0 THEN start ELSE ReadStep(g[n - 1], f.log[n])]
<1>1. f.duration \in Durations /\ f.log \in Seq(Element \cup {Wrong}) /\ N \in Nat
  BY DEF File
<1>2. \A n \in 1..N : f.log[n] \in Element
  BY <1>1
<1>3. start \in V
  <2>1. NewRun(f.duration, 0) \in Run
    BY <1>1, NewRunType
  <2>2. NewState \in Reading
    BY DEF NewState, Reading
  <2> QED
    BY <2>1, <2>2 DEF Acc
<1>4. ASSUME NEW accs \in V, NEW n \in 1..N
      PROVE  ReadStep(accs, f.log[n]) \in V
  BY <1>2, ReadStepCases
<1> HIDE DEF V, start, N
<1>5. step \in [1..N -> [V -> V]]
  BY <1>4
<1> HIDE DEF step
<1>6. PICK g \in [0..N -> V] : IsRecursion(g, N, start, step)
  BY <1>1, <1>3, <1>5, RecursionExists
<1>7. ASSUME NEW n \in 0..N, n # 0
      PROVE  g[n] = ReadStep(g[n - 1], f.log[n])
  <2>1. n \in 1..N /\ n - 1 \in 0..N
    BY <1>1, <1>7
  <2>2. g[n - 1] \in V
    BY <2>1
  <2>3. step[n][g[n - 1]] = ReadStep(g[n - 1], f.log[n])
    BY <2>1, <2>2 DEF step
  <2> QED
    BY <1>6, <2>1, <2>3 DEF IsRecursion
<1>8. g = [n \in 0..N |-> IF n = 0 THEN start ELSE ReadStep(g[n - 1], f.log[n])]
  BY <1>1, <1>6, <1>7 DEF IsRecursion
<1>9. read = [n \in 0..N |-> IF n = 0 THEN start ELSE ReadStep(read[n - 1], f.log[n])]
  BY <1>8
<1>10. ReadFromFile(f) = {acc.run : acc \in read[N]}
  <2>1. DOMAIN f.log = 1..N
    BY <1>1 DEF N
  <2>2. ~\E i \in DOMAIN f.log : f.log[i] = Wrong
    BY <2>1 DEF N
  <2> QED
    BY <2>2 DEF ReadFromFile, N, start
<1> HIDE DEF read
<1>11. /\ read[0] = start
       /\ \A n \in 1..N : read[n] = ReadStep(read[n - 1], f.log[n])
  BY <1>1, <1>9
<1>12. \A n \in 0..N : read[n] \in V
  <2> DEFINE P == {n \in 0..N : read[n] \in V}
  <2>1. 0 \in P
    BY <1>1, <1>3, <1>11
  <2>2. ASSUME NEW n \in 1..N, n - 1 \in P
        PROVE  n \in P
    <3>1. read[n] \in V
      BY <1>4, <1>11, <2>2
    <3> QED
      BY <1>1, <3>1
  <2> HIDE DEF P
  <2>3. \A n \in 0..N : n \in P
    BY <1>1, <2>1, <2>2, Induction
  <2> QED
    BY <2>3 DEF P
<1>13. read \in [0..N -> V]
  BY <1>9, <1>12
<1> QED
  BY <1>10, <1>11, <1>13 DEF IsReading, V, N, start

(* Every run that is read keeps the extremes of its curves. *)
LEMMA ReadRuns ==
  ASSUME NEW f \in File, NEW r \in ReadFromFile(f)
  PROVE  r \in Run /\ Extremes(r) /\ r.duration = f.duration
<1> DEFINE N == Len(f.log)
<1>1. \A i \in 1..N : f.log[i] # Wrong
  <2>1. DOMAIN f.log = 1..N
    BY DEF File
  <2> QED
    BY <2>1 DEF ReadFromFile
<1>2. PICK read \in [0..N -> SUBSET Acc] :
        IsReading(read, f) /\ ReadFromFile(f) = {acc.run : acc \in read[N]}
  BY <1>1, ReadSteps
<1>3. N \in Nat /\ f.duration \in Durations
  BY DEF File
<1>4. \A n \in 1..N : f.log[n] \in Element
  BY <1>1 DEF File
<1> HIDE DEF N
<1> DEFINE P == {n \in 0..N : \A acc \in read[n] :
                                Extremes(acc.run) /\ acc.run.duration = f.duration}
<1>5. 0 \in P
  <2> DEFINE new == NewRun(f.duration, 0)
  <2>1. new.history = <<>> /\ new.duration = f.duration
    BY <1>3, NewRunType
  <2>2. Extremes(new)
    <3>1. 2..Len(<<>>) = {}
      OBVIOUS
    <3> QED
      BY <2>1, <3>1 DEF Extremes
  <2>3. read[0] = {[run |-> new, last |-> NewState]}
    BY <1>2 DEF IsReading
  <2> QED
    BY <1>3, <2>1, <2>2, <2>3
<1>6. ASSUME NEW n \in 1..N, n - 1 \in P
      PROVE  n \in P
  <2>1. n - 1 \in 0..N /\ n \in 0..N
    BY <1>3
  <2>2. read[n - 1] \in SUBSET Acc /\ read[n] = ReadStep(read[n - 1], f.log[n])
    BY <1>2, <2>1 DEF IsReading, N
  <2>3. ASSUME NEW next \in read[n]
        PROVE  Extremes(next.run) /\ next.run.duration = f.duration
    <3>1. f.log[n] \in Element
      BY <1>4
    <3>2. PICK acc \in read[n - 1] : next.run = Add(acc.run, ReadElement(acc.last, f.log[n]))
      BY <2>2, <2>3, <3>1, ReadStepCases
    <3>3. acc.run \in Run /\ acc.last \in Reading
      BY <2>2 DEF Acc
    <3>4. ReadElement(acc.last, f.log[n]) \in Reading
      BY <3>1, <3>3, ReadElementType
    <3>5. Extremes(acc.run) /\ acc.run.duration = f.duration
      BY <1>6
    <3>6. Add(acc.run, ReadElement(acc.last, f.log[n])).duration = acc.run.duration
      BY <3>3, <3>4, AddKeepsDuration
    <3> QED
      BY <3>2, <3>3, <3>4, <3>5, <3>6, AddKeepsExtremes
  <2> QED
    BY <2>1, <2>3
<1> HIDE DEF P
<1>7. \A n \in 0..N : n \in P
  BY <1>3, <1>5, <1>6, Induction
<1>8. N \in P
  BY <1>3, <1>7
<1>9. PICK acc \in read[N] : r = acc.run
  BY <1>2
<1>10. acc \in Acc
  BY <1>2, <1>3 DEF N
<1> QED
  BY <1>8, <1>9, <1>10 DEF P, Acc

-----------------------------------------------------------------------------
(* What one element of the file says *)
Amount == Nat \cup {NaN}
Capacity == Nat \cup {NaN, -1}

LEMMA MeasuredFields ==
  ASSUME NEW r \in Run, Measured(r), NEW i \in 1..Len(r.history)
  PROVE  LET s == r.history[i] IN
         /\ s \in Reading /\ s.time \in Nat /\ s.online \in BOOLEAN
         /\ s.energy_now \in Amount
         /\ s.energy_full \in Capacity /\ s.energy_full_design \in Capacity
         /\ s.energy_full = r.history[1].energy_full
         /\ s.energy_full_design = r.history[1].energy_full_design
         /\ 1 \in 1..Len(r.history) /\ r.history[1].time <= s.time
         /\ r.history[1].time \in Nat
<1> DEFINE h == r.history
           s == h[i]
<1>1. h \in Seq(Reading) /\ Len(h) \in Nat
  BY RunFields
<1>2. 1 \in 1..Len(h) /\ 1 \in 1..i
  BY <1>1
<1>3. s \in Reading /\ h[1] \in Reading
  BY <1>1, <1>2
<1>4. /\ s.energy_now \in Energies
      /\ [full |-> s.energy_full, design |-> s.energy_full_design] \in Capacities
      /\ s.energy_full = h[1].energy_full
      /\ s.energy_full_design = h[1].energy_full_design
      /\ h[1].time <= s.time
  BY <1>2 DEF Measured
<1>5. [full |-> s.energy_full, design |-> s.energy_full_design]
        \in [full : Nat \cup {NaN, -1}, design : Nat \cup {NaN, -1}]
  BY <1>4, CapacitiesAssumption
<1>6. s.energy_full \in Capacity /\ s.energy_full_design \in Capacity
  BY <1>5 DEF Capacity
<1>7. s.energy_now \in Amount
  BY <1>4, EnergiesAssumption DEF Amount
<1> HIDE DEF s
<1> QED
  BY <1>2, <1>3, <1>4, <1>6, <1>7 DEF Reading, s

LEMMA ToMicroType ==
  ASSUME NEW v \in Nat
  PROVE  /\ ToMicro(v) \in Int
         /\ Micro * ToMicro(v) \in Nat
         /\ v % Micro = 0 => Micro * ToMicro(v) = v
<1>1. Micro \in Nat \ {0} /\ Micro \div 2 \in Nat
  BY UnitsAssumption
<1>2. Micro \div 2 + v \in Nat
  BY <1>1
<1>3. (Micro \div 2 + v) \div Micro \in Nat
  BY <1>1, <1>2
<1> DEFINE q == (Micro \div 2 + v) \div Micro
<1>4. ToMicro(v) = q
  BY DEF ToMicro
<1>5. v % Micro = 0 => Micro * q = v
  BY <1>1, RoundedExactly
<1> HIDE DEF q
<1>6. Micro * q \in Nat
  BY <1>1, <1>3 DEF q
<1> QED
  BY <1>3, <1>4, <1>5, <1>6 DEF q

LEMMA StoredType ==
  ASSUME NEW v \in Int \cup {NaN}
  PROVE  /\ Stored(v) \in Int
         /\ Known(v) => v \in Nat /\ Stored(v) = Micro * ToMicro(v) /\ Stored(v) \in Nat
         /\ ~Known(v) => Stored(v) = -1
<1>1. Known(v) => v \in Nat
  BY DEF Known
<1> QED
  BY <1>1, ToMicroType DEF Stored

(* The i-th reading as the file rounds it *)
Milliseconds(h, i) == (Ms \div 2 + h[i].time - h[1].time) \div Ms

Rounded(h, i) ==
  [time |-> Ms * Milliseconds(h, i),
   online |-> h[i].online,
   energy_now |-> Stored(h[i].energy_now),
   energy_full |-> Stored(h[i].energy_full),
   energy_full_design |-> Stored(h[i].energy_full_design)]

LEMMA ExpectedIsRounded ==
  ASSUME NEW r, NEW n
  PROVE  Expected(r, n) = [i \in 1..n |-> Rounded(r.history, i)]
BY DEF Expected, Rounded, Milliseconds

LEMMA MillisecondsType ==
  ASSUME NEW r \in Run, Measured(r), NEW i \in 1..Len(r.history)
  PROVE  /\ Milliseconds(r.history, i) \in Nat
         /\ Ms * Milliseconds(r.history, i) \in Nat
<1> DEFINE a == Ms \div 2 + r.history[i].time - r.history[1].time
<1>1. Ms \in Nat \ {0} /\ Ms \div 2 \in Nat
  BY UnitsAssumption
<1>2. /\ r.history[i].time \in Nat /\ r.history[1].time \in Nat
      /\ r.history[1].time <= r.history[i].time
  BY MeasuredFields
<1>3. a \in Nat
  <2> DEFINE t == r.history[i].time
             u == r.history[1].time
             half == Ms \div 2
  <2>1. t \in Nat /\ u \in Nat /\ u <= t /\ half \in Nat
    BY <1>1, <1>2
  <2> HIDE DEF t, u, half
  <2>2. half + t - u \in Nat
    BY <2>1
  <2> QED
    BY <2>2 DEF t, u, half
<1> HIDE DEF a
<1> DEFINE q == a \div Ms
<1>4. q \in Nat
  BY <1>1, <1>3
<1> HIDE DEF q
<1>5. Ms * q \in Nat
  BY <1>1, <1>4
<1> QED
  BY <1>4, <1>5 DEF a, q, Milliseconds

LEMMA RoundedType ==
  ASSUME NEW r \in Run, Measured(r), NEW i \in 1..Len(r.history)
  PROVE  Rounded(r.history, i) \in Reading
<1>1. /\ r.history[i] \in Reading /\ r.history[i].online \in BOOLEAN
  BY MeasuredFields
<1>2. /\ Stored(r.history[i].energy_now) \in Int
      /\ Stored(r.history[i].energy_full) \in Int
      /\ Stored(r.history[i].energy_full_design) \in Int
  BY <1>1, StoredType DEF Reading
<1> QED
  BY <1>1, <1>2, MillisecondsType DEF Rounded, Reading

LEMMA LogElementFields ==
  ASSUME NEW r \in Run, Measured(r), NEW i \in 1..Len(r.history)
  PROVE  LET h == r.history
             s == h[i]
             e == LogElement(h, i)
         IN  /\ e \in Element
             /\ e.time_ms = Milliseconds(h, i)
             /\ e.online = IF i = 1 \/ s.online # h[i - 1].online THEN s.online ELSE Missing
             /\ e.energy = IF Known(s.energy_now) THEN ToMicro(s.energy_now) ELSE Missing
             /\ e.energy_full =
                  IF i = 1 /\ Known(s.energy_full) THEN ToMicro(s.energy_full) ELSE Missing
             /\ e.energy_full_design =
                  IF i = 1 /\ Known(s.energy_full_design)
                  THEN ToMicro(s.energy_full_design) ELSE Missing
<1> DEFINE h == r.history
           s == h[i]
           e == LogElement(h, i)
<1>1. /\ s \in Reading /\ s.online \in BOOLEAN
      /\ s.energy_now \in Amount /\ s.energy_full \in Capacity
      /\ s.energy_full_design \in Capacity
      /\ s.energy_full = h[1].energy_full
      /\ s.energy_full_design = h[1].energy_full_design
  BY MeasuredFields
<1>2. i # 1 => i - 1 \in 1..Len(h)
  BY RunFields
<1>3. i # 1 => /\ h[i - 1].energy_full = h[1].energy_full
               /\ h[i - 1].energy_full_design = h[1].energy_full_design
  BY <1>2, MeasuredFields
<1>4. /\ e.time_ms = Milliseconds(h, i)
      /\ e.online = IF i = 1 \/ s.online # h[i - 1].online THEN s.online ELSE Missing
      /\ e.energy = IF Known(s.energy_now) THEN ToMicro(s.energy_now) ELSE Missing
  BY DEF LogElement, Milliseconds
<1>5. /\ e.energy_full =
           IF Known(s.energy_full) /\ (i = 1 \/ s.energy_full # h[i - 1].energy_full)
           THEN ToMicro(s.energy_full) ELSE Missing
      /\ e.energy_full_design =
           IF Known(s.energy_full_design)
              /\ (i = 1 \/ s.energy_full_design # h[i - 1].energy_full_design)
           THEN ToMicro(s.energy_full_design) ELSE Missing
  BY DEF LogElement
<1>6. /\ e.energy_full =
           IF i = 1 /\ Known(s.energy_full) THEN ToMicro(s.energy_full) ELSE Missing
      /\ e.energy_full_design =
           IF i = 1 /\ Known(s.energy_full_design)
           THEN ToMicro(s.energy_full_design) ELSE Missing
  BY <1>1, <1>3, <1>5
<1>7. /\ Known(s.energy_now) => s.energy_now \in Nat
      /\ Known(s.energy_full) => s.energy_full \in Nat
      /\ Known(s.energy_full_design) => s.energy_full_design \in Nat
  BY <1>1 DEF Known, Amount, Capacity
<1>8. /\ e.energy \in Int \cup {Missing} /\ e.energy_full \in Int \cup {Missing}
      /\ e.energy_full_design \in Int \cup {Missing}
  BY <1>4, <1>6, <1>7, ToMicroType
<1>9. e.time_ms \in Nat /\ e.online \in BOOLEAN \cup {Missing}
  BY <1>1, <1>4, MillisecondsType
<1>10. e = [time_ms |-> e.time_ms, online |-> e.online, energy |-> e.energy,
            energy_full |-> e.energy_full, energy_full_design |-> e.energy_full_design]
  BY DEF LogElement
<1> HIDE DEF e
<1>11. e \in Element
  BY <1>8, <1>9, <1>10 DEF Element
<1> QED
  BY <1>4, <1>6, <1>11 DEF e

(* Whatever the reader starts an element from, its time and its energy, if   *)
(* that is known, are those of the element.                                 *)
LEMMA ElementRead ==
  ASSUME NEW r \in Run, Measured(r), NEW i \in 1..Len(r.history), NEW last \in Reading
  PROVE  LET s == ReadElement(last, LogElement(r.history, i)) IN
         /\ s \in Reading
         /\ s.time = Rounded(r.history, i).time
         /\ Known(r.history[i].energy_now) =>
              s.energy_now = Rounded(r.history, i).energy_now
<1> DEFINE h == r.history
           e == LogElement(h, i)
           s == ReadElement(last, e)
<1>1. /\ e \in Element /\ e.time_ms = Milliseconds(h, i)
      /\ e.energy = IF Known(h[i].energy_now) THEN ToMicro(h[i].energy_now) ELSE Missing
  BY LogElementFields
<1>2. s \in Reading /\ s.time = Ms * e.time_ms
  BY <1>1, ReadElementType
<1>3. s.time = Rounded(h, i).time
  BY <1>1, <1>2 DEF Rounded
<1>4. s.energy_now = Member(e.energy, last.energy_now, Micro)
  BY DEF ReadElement
<1>5. ASSUME Known(h[i].energy_now)
      PROVE  s.energy_now = Rounded(h, i).energy_now
  <2>1. h[i].energy_now \in Int \cup {NaN} /\ last.energy_now \in Int \cup {NaN}
    BY MeasuredFields DEF Reading
  <2>2. /\ e.energy = ToMicro(h[i].energy_now) /\ h[i].energy_now \in Nat
        /\ Stored(h[i].energy_now) = Micro * ToMicro(h[i].energy_now)
    BY <1>1, <1>5, <2>1, StoredType
  <2>3. e.energy \in Int /\ e.energy # Missing
    BY <2>2, ToMicroType, MissingAssumption
  <2>4. Member(e.energy, last.energy_now, Micro) = Micro * e.energy
    BY <2>1, <2>3, MemberType, UnitsAssumption
  <2> QED
    BY <1>4, <2>2, <2>4 DEF Rounded
<1> QED
  BY <1>2, <1>3, <1>5

(* What a member that is known, or starts as unknown, is read as *)
LEMMA MemberRead ==
  ASSUME NEW v \in Int \cup {NaN}
  PROVE  Member(IF Known(v) THEN ToMicro(v) ELSE Missing, -1, Micro) = Stored(v)
<1>1. -1 \in Int \cup {NaN} /\ Micro \in Nat \ {0}
  BY UnitsAssumption
<1>2. CASE Known(v)
  <2>1. v \in Nat /\ Stored(v) = Micro * ToMicro(v) /\ ToMicro(v) \in Int
    BY <1>2, StoredType, ToMicroType
  <2>2. ToMicro(v) \in Int \cup {Missing} /\ ToMicro(v) # Missing
    BY <2>1, MissingAssumption
  <2>3. Member(ToMicro(v), -1, Micro) = Micro * ToMicro(v)
    BY <1>1, <2>2, MemberType
  <2> QED
    BY <1>2, <2>1, <2>3
<1>3. CASE ~Known(v)
  <2>1. Stored(v) = -1
    BY <1>3, StoredType
  <2> QED
    BY <1>3, <2>1 DEF Member
<1> QED
  BY <1>2, <1>3

(* A reader that starts from the reading before gets the reading as rounded,*)
(* although what did not change has been left out.                          *)
LEMMA ElementReadExactly ==
  ASSUME NEW r \in Run, Measured(r), NEW i \in 1..Len(r.history),
         Known(r.history[i].energy_now)
  PROVE  ReadElement(IF i = 1 THEN NewState ELSE Rounded(r.history, i - 1),
                     LogElement(r.history, i)) = Rounded(r.history, i)
<1> DEFINE h == r.history
           e == LogElement(h, i)
           last == IF i = 1 THEN NewState ELSE Rounded(h, i - 1)
           s == ReadElement(last, e)
<1>1. i # 1 => i - 1 \in 1..Len(h)
  BY RunFields
<1>2. last \in Reading
  BY <1>1, RoundedType, FreedType DEF NewState, Reading
<1>3. /\ s.time = Rounded(h, i).time /\ s.energy_now = Rounded(h, i).energy_now
  BY <1>2, ElementRead
<1>4. /\ e \in Element
      /\ e.online = IF i = 1 \/ h[i].online # h[i - 1].online THEN h[i].online ELSE Missing
      /\ e.energy_full =
           IF i = 1 /\ Known(h[i].energy_full) THEN ToMicro(h[i].energy_full) ELSE Missing
      /\ e.energy_full_design =
           IF i = 1 /\ Known(h[i].energy_full_design)
           THEN ToMicro(h[i].energy_full_design) ELSE Missing
  BY LogElementFields
<1>5. /\ h[i].online \in BOOLEAN
      /\ h[i].energy_full \in Int \cup {NaN} /\ h[i].energy_full_design \in Int \cup {NaN}
  BY MeasuredFields DEF Reading
<1>6. s.online = h[i].online
  <2>1. s.online = IF e.online = Missing THEN last.online ELSE e.online
    BY <1>2, <1>4, ReadElementType
  <2>2. h[i].online # Missing
    BY <1>5, MissingAssumption
  <2>3. i # 1 => last.online = h[i - 1].online
    BY DEF Rounded
  <2> HIDE DEF s, e, last
  <2> QED
    BY <1>4, <2>1, <2>2, <2>3
<1>7. s.energy_full = Stored(h[i].energy_full)
      /\ s.energy_full_design = Stored(h[i].energy_full_design)
  <2>1. /\ s.energy_full = Member(e.energy_full, last.energy_full, Micro)
        /\ s.energy_full_design = Member(e.energy_full_design, last.energy_full_design, Micro)
    BY DEF ReadElement
  <2>2. CASE i = 1
    <3>1. last.energy_full = -1 /\ last.energy_full_design = -1
      BY <2>2 DEF NewState
    <3>2. /\ e.energy_full = IF Known(h[i].energy_full) THEN ToMicro(h[i].energy_full) ELSE Missing
          /\ e.energy_full_design = IF Known(h[i].energy_full_design)
                                    THEN ToMicro(h[i].energy_full_design) ELSE Missing
      BY <1>4, <2>2
    <3> HIDE DEF s, e, last
    <3> QED
      BY <1>5, <2>1, <3>1, <3>2, MemberRead
  <2>3. CASE i # 1
    <3>1. /\ h[i].energy_full = h[i - 1].energy_full
          /\ h[i].energy_full_design = h[i - 1].energy_full_design
      BY <1>1, <2>3, MeasuredFields
    <3>2. /\ last.energy_full = Stored(h[i - 1].energy_full)
          /\ last.energy_full_design = Stored(h[i - 1].energy_full_design)
      BY <2>3 DEF Rounded
    <3>3. e.energy_full = Missing /\ e.energy_full_design = Missing
      BY <1>4, <2>3
    <3> HIDE DEF s, e, last
    <3> QED
      BY <2>1, <3>1, <3>2, <3>3 DEF Member
  <2> QED
    BY <2>2, <2>3
<1>8. s = [time |-> s.time, online |-> s.online, energy_now |-> s.energy_now,
           energy_full |-> s.energy_full, energy_full_design |-> s.energy_full_design]
  BY DEF ReadElement
<1>9. s = Rounded(h, i)
  <2> HIDE DEF s
  <2> QED
    BY <1>3, <1>6, <1>7, <1>8 DEF Rounded
<1> QED
  BY <1>9

-----------------------------------------------------------------------------
(* What is read is what was written.  The readings g are those of h up to m, *)
(* in order, but for some that were not kept.                               *)
From(s, h, i) ==
  /\ s.time = Rounded(h, i).time
  /\ Known(h[i].energy_now) => s.energy_now = Rounded(h, i).energy_now

Traced(g, h, m) == Len(g) <= m /\ \A j \in 1..Len(g) : \E i \in j..m : From(g[j], h, i)

LEMMA AddTraced ==
  ASSUME NEW g \in Run, NEW h, NEW m \in Nat \ {0}, NEW s \in Reading,
         Traced(g.history, h, m - 1), From(s, h, m)
  PROVE  Traced(Add(g, s).history, h, m)
<1> DEFINE n == Len(g.history)
<1>1. n \in Nat /\ g.history \in Seq(Reading)
  BY RunFields
<1>2. n <= m - 1
  BY DEF Traced
<1>3. ASSUME NEW j \in 1..n
      PROVE  \E i \in j..m : From(g.history[j], h, i)
  <2>1. PICK i \in j..(m - 1) : From(g.history[j], h, i)
    BY DEF Traced
  <2>2. i \in j..m
    OBVIOUS
  <2> QED
    BY <2>1, <2>2
<1>4. CASE ~UseState(g, s)
  <2>1. Add(g, s) = g
    BY <1>4, AddCases
  <2> QED
    BY <1>1, <1>2, <1>3, <2>1 DEF Traced
<1>5. CASE g.history = <<>>
  <2>1. Add(g, s).history = <<s>>
    BY <1>5, AddCases DEF Run
  <2>2. Len(<<s>>) = 1 /\ <<s>>[1] = s
    OBVIOUS
  <2>3. \A j \in 1..1 : m \in j..m /\ j = 1
    OBVIOUS
  <2> QED
    BY <2>1, <2>2, <2>3 DEF Traced
<1>6. CASE UseState(g, s) /\ g.history # <<>>
  <2> DEFINE k == Add(g, s).history
  <2>1. /\ Len(k) = n + 1 /\ k[n + 1] = s
        /\ \A i \in 1..n : k[i] = g.history[i]
    BY <1>6, AddCases, ExtendedFields
  <2> HIDE DEF k
  <2>2. ASSUME NEW j \in 1..(n + 1)
        PROVE  \E i \in j..m : From(k[j], h, i)
    <3>1. CASE j = n + 1
      <4>1. m \in j..m
        BY <1>1, <1>2, <3>1
      <4> QED
        BY <2>1, <3>1, <4>1
    <3>2. CASE j \in 1..n
      BY <1>3, <2>1, <3>2
    <3> QED
      BY <1>1, <3>1, <3>2
  <2> QED
    BY <1>1, <1>2, <2>1, <2>2 DEF Traced, k
<1> QED
  BY <1>4, <1>5, <1>6

LEMMA HeldElements ==
  ASSUME NEW r \in Run, NEW n \in 1..Len(r.history), NEW f, Holds(f, r, n),
         NEW got \in ReadFromFile(f)
  PROVE  /\ f \in File /\ Len(f.log) = n /\ n \in Nat \ {0}
         /\ \A i \in 1..n : f.log[i] # Wrong /\ f.log[i] = LogElement(r.history, i)
<1>1. f \in File /\ Len(f.log) = n /\ n \in Nat \ {0}
  BY RunFields DEF Holds
<1>2. DOMAIN f.log = 1..n
  BY <1>1 DEF File
<1>3. \A i \in 1..n : f.log[i] # Wrong
  BY <1>2 DEF ReadFromFile
<1>4. \A i \in 1..n : f.log[i] = LogElement(r.history, i)
  BY <1>3 DEF Holds
<1> QED
  BY <1>1, <1>3, <1>4

LEMMA ReadContents ==
  ASSUME NEW r \in Run, Measured(r), NEW n \in 1..Len(r.history), NEW f, Holds(f, r, n),
         NEW got \in ReadFromFile(f)
  PROVE  Traced(got.history, r.history, n)
<1> DEFINE h == r.history
<1>1. /\ f \in File /\ Len(f.log) = n /\ n \in Nat \ {0}
      /\ \A i \in 1..n : f.log[i] # Wrong /\ f.log[i] = LogElement(h, i)
  BY HeldElements
<1>2. PICK read \in [0..n -> SUBSET Acc] :
        IsReading(read, f) /\ ReadFromFile(f) = {acc.run : acc \in read[n]}
  BY <1>1, ReadSteps
<1> DEFINE P == {m \in 0..n : \A acc \in read[m] : Traced(acc.run.history, h, m)}
<1>3. 0 \in P
  <2>1. f.duration \in Durations
    BY <1>1 DEF File
  <2>2. NewRun(f.duration, 0).history = <<>>
    BY <2>1, NewRunType
  <2>3. Traced(<<>>, h, 0)
    BY DEF Traced
  <2> QED
    BY <1>1, <1>2, <2>2, <2>3 DEF IsReading
<1>4. ASSUME NEW m \in 1..n, m - 1 \in P
      PROVE  m \in P
  <2>1. m - 1 \in 0..n /\ m \in 0..n /\ m \in Nat \ {0} /\ m \in 1..Len(h)
    BY <1>1, RunFields
  <2>2. read[m - 1] \in SUBSET Acc /\ read[m] = ReadStep(read[m - 1], f.log[m])
    BY <1>1, <1>2, <2>1 DEF IsReading
  <2>3. f.log[m] = LogElement(h, m) /\ f.log[m] \in Element
    BY <1>1, <2>1, LogElementFields
  <2>4. ASSUME NEW next \in read[m]
        PROVE  Traced(next.run.history, h, m)
    <3>1. PICK acc \in read[m - 1] : next.run = Add(acc.run, ReadElement(acc.last, f.log[m]))
      BY <2>2, <2>3, <2>4, ReadStepCases
    <3> DEFINE s == ReadElement(acc.last, f.log[m])
    <3>2. acc.run \in Run /\ acc.last \in Reading
      BY <2>2 DEF Acc
    <3>3. s \in Reading /\ From(s, h, m)
      BY <2>1, <2>3, <3>2, ElementRead DEF From
    <3>4. Traced(acc.run.history, h, m - 1)
      BY <1>4
    <3> HIDE DEF s
    <3>5. Traced(Add(acc.run, s).history, h, m)
      BY <2>1, <3>2, <3>3, <3>4, AddTraced
    <3> QED
      BY <3>1, <3>5 DEF s
  <2> QED
    BY <2>1, <2>4
<1> HIDE DEF P
<1>5. \A m \in 0..n : m \in P
  BY <1>1, <1>3, <1>4, Induction
<1>6. n \in P
  BY <1>1, <1>5
<1> QED
  BY <1>2, <1>6 DEF P

(* Rounding brings two times together by less than a millisecond. *)
LEMMA RoundedGap ==
  ASSUME NEW r \in Run, Measured(r), NEW i \in 2..Len(r.history)
  PROVE  LET h == r.history IN
         Rounded(h, i).time - Rounded(h, i - 1).time > h[i].time - h[i - 1].time - Ms
<1> DEFINE h == r.history
           half == Ms \div 2
           t == h[i].time
           u == h[i - 1].time
           first == h[1].time
           a == half + t - first
           b == half + u - first
<1>1. i \in 1..Len(h) /\ i - 1 \in 1..Len(h)
  BY RunFields
<1>2. Ms \in Nat \ {0} /\ half \in Int
  BY UnitsAssumption
<1>3. t \in Nat /\ u \in Nat /\ first \in Nat
  BY <1>1, MeasuredFields
<1>4. Rounded(h, i).time = Ms * (a \div Ms) /\ Rounded(h, i - 1).time = Ms * (b \div Ms)
  BY DEF Rounded, Milliseconds
<1> HIDE DEF t, u, first, half
<1>5. a \in Int /\ b \in Int /\ a - b = t - u
  BY <1>2, <1>3
<1> HIDE DEF a, b
<1> DEFINE x == Ms * (a \div Ms)
           y == Ms * (b \div Ms)
<1>6. x \in Int /\ y \in Int /\ a < x + Ms /\ y <= b
  BY <1>2, <1>5, RoundedDown
<1> HIDE DEF x, y
<1>7. x - y > t - u - Ms
  BY <1>2, <1>3, <1>5, <1>6
<1> QED
  BY <1>4, <1>7 DEF x, y, t, u

LEMMA FarEnoughInTime ==
  ASSUME NEW r \in Run, Measured(r), r.duration.type = "TIME",
         NEW n \in 1..Len(r.history), WellSpaced(r, n), NEW i \in 2..n
  PROVE  TimeSamples * (Rounded(r.history, i).time - Rounded(r.history, i - 1).time)
           > r.duration.limit
<1> DEFINE h == r.history
           gap == Rounded(h, i).time - Rounded(h, i - 1).time
           least == h[i].time - h[i - 1].time - Ms
<1>1. i \in 2..Len(h) /\ i \in 1..Len(h) /\ i - 1 \in 1..Len(h)
  BY RunFields
<1>2. gap > least
  BY <1>1, RoundedGap
<1>3. TimeSamples * least >= r.duration.limit
  BY DEF WellSpaced
<1>4. gap \in Int /\ least \in Int
  <2>1. Rounded(h, i) \in Reading /\ Rounded(h, i - 1) \in Reading
    BY <1>1, RoundedType
  <2>2. /\ Rounded(h, i).time \in Nat /\ Rounded(h, i - 1).time \in Nat
        /\ h[i].time \in Nat /\ h[i - 1].time \in Nat
    BY <1>1, <2>1, MeasuredFields DEF Reading
  <2>3. Ms \in Nat
    BY UnitsAssumption
  <2> DEFINE x == Rounded(h, i).time
             y == Rounded(h, i - 1).time
             t == h[i].time
             u == h[i - 1].time
  <2>4. x \in Nat /\ y \in Nat /\ t \in Nat /\ u \in Nat
    BY <2>2
  <2>5. gap = x - y /\ least = t - u - Ms
    OBVIOUS
  <2> HIDE DEF x, y, t, u, gap, least
  <2> QED
    BY <2>3, <2>4, <2>5
<1> DEFINE limit == r.duration.limit
<1>5. limit \in Nat
  BY RunFields
<1> HIDE DEF gap, least, limit
<1>6. TimeSamples \in Nat \ {0}
  BY SamplesAssumption
<1>7. TimeSamples * gap > limit
  <2>1. TimeSamples * gap \in Int /\ TimeSamples * least \in Int
    BY <1>4, <1>6
  <2>2. ~(gap * TimeSamples <= least * TimeSamples)
    BY <1>2, <1>4, <1>6, TimesStrict
  <2>3. gap * TimeSamples = TimeSamples * gap /\ least * TimeSamples = TimeSamples * least
    BY <1>4, <1>6
  <2>4. TimeSamples * least >= limit
    BY <1>3 DEF least, limit
  <2> QED
    BY <1>5, <2>1, <2>2, <2>3, <2>4
<1> QED
  BY <1>7 DEF gap, limit

(* Whole energies are not rounded at all. *)
LEMMA RoundedPercent ==
  ASSUME NEW r \in Run, Measured(r), r.duration.type = "PERCENT",
         NEW n \in 2..Len(r.history), WellSpaced(r, n), NEW i \in 1..n
  PROVE  /\ Rounded(r.history, i).energy_now = r.history[i].energy_now
         /\ Rounded(r.history, i).energy_full = r.history[i].energy_full
         /\ Percent(Rounded(r.history, i)) = Percent(r.history[i])
<1> DEFINE h == r.history
           s == h[i]
<1>1. /\ i \in 1..Len(h) /\ 1 \in 1..Len(h) /\ 2 \in 2..Len(h)
  BY RunFields
<1>2. s.energy_full # NaN
  <2>1. Spent(r.duration, h[1], h[2 - 1], h[2])
    BY <1>1 DEF Measured
  <2>2. Percent(h[1]) # NaN
    BY <2>1 DEF Spent
  <2>3. h[1].energy_full # NaN
    BY <2>2 DEF Percent
  <2> QED
    BY <1>1, <2>3, MeasuredFields
<1>3. s.energy_now \in Amount /\ s.energy_full \in Capacity
  BY <1>1, MeasuredFields
<1>4. Known(s.energy_now) /\ s.energy_now % Micro = 0
  <2>1. \A k \in 2..n : h[k].energy_now % Micro = 0 /\ h[1].energy_now % Micro = 0
    BY DEF WellSpaced
  <2>2. i # 1 => i \in 2..n
    OBVIOUS
  <2>3. 2 \in 2..n
    OBVIOUS
  <2>4. h[i].energy_now % Micro = 0
    BY <2>1, <2>2, <2>3
  <2>5. Known(h[i].energy_now)
    BY DEF WellSpaced
  <2> QED
    BY <2>4, <2>5
<1>5. Known(s.energy_full) => s.energy_full % Micro = 0
  BY DEF WellSpaced
<1>6. Stored(s.energy_now) = s.energy_now
  BY <1>3, <1>4, ToMicroType DEF Stored, Known, Amount
<1>7. Stored(s.energy_full) = s.energy_full
  <2>1. CASE Known(s.energy_full)
    <3>1. s.energy_full \in Nat
      BY <1>3, <2>1 DEF Known, Capacity
    <3> QED
      BY <1>5, <2>1, <3>1, ToMicroType DEF Stored
  <2>2. CASE ~Known(s.energy_full)
    <3>1. s.energy_full = -1
      BY <1>2, <1>3, <2>2 DEF Known, Capacity
    <3> QED
      BY <2>2, <3>1 DEF Stored
  <2> QED
    BY <2>1, <2>2
<1>8. /\ Rounded(h, i).energy_now = s.energy_now
      /\ Rounded(h, i).energy_full = s.energy_full
  BY <1>6, <1>7 DEF Rounded
<1>9. Percent(Rounded(h, i)) = Percent(s)
  BY <1>8 DEF Percent
<1> QED
  BY <1>8, <1>9

(* No rounded reading falls to the filter. *)
LEMMA UseRounded ==
  ASSUME NEW r \in Run, Measured(r), NEW n \in 1..Len(r.history), WellSpaced(r, n),
         NEW i \in 2..n, NEW g \in Run, g.duration = r.duration,
         g.history # <<>>, T!StartState(g) = Rounded(r.history, 1),
         T!LastState(g) = Rounded(r.history, i - 1)
  PROVE  UseState(g, Rounded(r.history, i))
<1> DEFINE h == r.history
           d == r.duration
<1>1. CASE d.type = "TIME"
  <2>1. TimeSamples * (Rounded(h, i).time - Rounded(h, i - 1).time) > d.limit
    BY <1>1, FarEnoughInTime
  <2> QED
    BY <1>1, <2>1 DEF UseState
<1>2. CASE d.type = "PERCENT"
  <2>1. n \in 2..Len(h) /\ i \in 2..Len(h) /\ i \in 1..n /\ i - 1 \in 1..n /\ 1 \in 1..n
    BY RunFields
  <2>2. Spent(d, h[1], h[i - 1], h[i])
    BY <1>2, <2>1 DEF Measured
  <2>3. /\ Percent(Rounded(h, 1)) = Percent(h[1])
        /\ Percent(Rounded(h, i - 1)) = Percent(h[i - 1])
        /\ Percent(Rounded(h, i)) = Percent(h[i])
    BY <1>2, <2>1, RoundedPercent
  <2>4. Spent(d, T!StartState(g), T!LastState(g), Rounded(h, i))
    BY <2>2, <2>3 DEF Spent
  <2> QED
    BY <1>2, <2>4 DEF UseState, Spent
<1> QED
  BY <1>1, <1>2, RunFields

LEMMA ExpectedSeq ==
  ASSUME NEW r \in Run, Measured(r), NEW m \in 0..Len(r.history)
  PROVE  /\ Expected(r, m) \in Seq(Reading)
         /\ Len(Expected(r, m)) = m
         /\ m = 0 => Expected(r, m) = <<>>
         /\ \A i \in 1..m : Expected(r, m)[i] = Rounded(r.history, i)
<1>1. m \in Nat /\ \A i \in 1..m : i \in 1..Len(r.history)
  BY RunFields
<1>2. \A i \in 1..m : Rounded(r.history, i) \in Reading
  BY <1>1, RoundedType
<1>3. Expected(r, m) = [i \in 1..m |-> Rounded(r.history, i)]
  BY ExpectedIsRounded
<1>4. Expected(r, m) \in Seq(Reading) /\ Len(Expected(r, m)) = m
  BY <1>1, <1>2, <1>3
<1> QED
  BY <1>3, <1>4

LEMMA ExpectedAppend ==
  ASSUME NEW r \in Run, Measured(r), NEW m \in 1..Len(r.history)
  PROVE  Append(Expected(r, m - 1), Rounded(r.history, m)) = Expected(r, m)
<1> DEFINE f == Expected(r, m - 1)
           g == Append(f, Rounded(r.history, m))
<1>1. m \in Nat \ {0} /\ m - 1 \in 0..Len(r.history) /\ m \in 0..Len(r.history)
  BY RunFields
<1>2. /\ f \in Seq(Reading) /\ Len(f) = m - 1
      /\ \A i \in 1..(m - 1) : f[i] = Rounded(r.history, i)
  BY <1>1, ExpectedSeq
<1>3. Rounded(r.history, m) \in Reading
  BY RoundedType
<1> HIDE DEF f
<1>4. /\ g \in Seq(Reading) /\ Len(g) = m
      /\ \A i \in 1..(m - 1) : g[i] = f[i]
      /\ g[m] = Rounded(r.history, m)
  <2>1. m - 1 + 1 = m
    BY <1>1
  <2> QED
    BY <1>1, <1>2, <1>3, <2>1
<1> HIDE DEF g
<1>5. \A i \in 1..m : g[i] = Rounded(r.history, i)
  BY <1>1, <1>2, <1>4
<1>6. g = [i \in 1..m |-> g[i]]
  BY <1>4
<1>7. g = [i \in 1..m |-> Rounded(r.history, i)]
  BY <1>5, <1>6
<1> QED
  BY <1>7, ExpectedIsRounded DEF g, f

LEMMA AddRounded ==
  ASSUME NEW r \in Run, Measured(r), NEW n \in 1..Len(r.history), WellSpaced(r, n),
         NEW m \in 1..n, NEW g \in Run, g.duration = r.duration,
         g.history = Expected(r, m - 1)
  PROVE  /\ UseState(g, Rounded(r.history, m))
         /\ Add(g, Rounded(r.history, m)).history = Expected(r, m)
<1> DEFINE h == r.history
           s == Rounded(h, m)
<1>1. /\ m \in 1..Len(h) /\ m - 1 \in 0..Len(h) /\ m \in Nat \ {0}
  BY RunFields
<1>2. /\ Len(g.history) = m - 1
      /\ m - 1 = 0 => g.history = <<>>
      /\ \A i \in 1..(m - 1) : g.history[i] = Rounded(h, i)
  BY <1>1, ExpectedSeq
<1>3. s \in Reading
  BY <1>1, RoundedType
<1>4. Append(g.history, s) = Expected(r, m)
  BY <1>1, ExpectedAppend
<1> HIDE DEF s
<1>5. CASE m = 1
  <2>1. g.history = <<>>
    BY <1>2, <1>5
  <2>2. Append(<<>>, s) = <<s>>
    OBVIOUS
  <2>3. UseState(g, s) /\ Add(g, s).history = <<s>>
    BY <2>1, AddCases DEF Run
  <2> QED
    BY <1>4, <2>1, <2>2, <2>3 DEF s
<1>6. CASE m # 1
  <2>1. m \in 2..n /\ m - 1 \in 1..(m - 1) /\ 1 \in 1..(m - 1)
    BY <1>1, <1>6
  <2>2. g.history # <<>>
    BY <1>2, <2>1
  <2>3. T!StartState(g) = Rounded(h, 1) /\ T!LastState(g) = Rounded(h, m - 1)
    BY <1>2, <2>1 DEF T!StartState, T!LastState
  <2>4. UseState(g, s)
    BY <2>1, <2>2, <2>3, UseRounded DEF s
  <2>5. Add(g, s).history = Append(g.history, s)
    BY <1>3, <2>2, <2>4, AddCases, ExtendedFields
  <2> QED
    BY <1>4, <2>4, <2>5 DEF s
<1> QED
  BY <1>5, <1>6

LEMMA ReadExactly ==
  ASSUME NEW r \in Run, Measured(r), NEW n \in 1..Len(r.history), NEW f, Holds(f, r, n),
         NEW got \in ReadFromFile(f), WellSpaced(r, n)
  PROVE  got.history = Expected(r, n)
<1> DEFINE h == r.history
           Exact(acc, m) ==
             /\ acc.run.duration = r.duration
             /\ acc.run.history = Expected(r, m)
             /\ acc.last = IF m = 0 THEN NewState ELSE Rounded(h, m)
<1>1. /\ f \in File /\ Len(f.log) = n /\ n \in Nat \ {0}
      /\ \A i \in 1..n : f.log[i] # Wrong /\ f.log[i] = LogElement(h, i)
  BY HeldElements
<1>2. PICK read \in [0..n -> SUBSET Acc] :
        IsReading(read, f) /\ ReadFromFile(f) = {acc.run : acc \in read[n]}
  BY <1>1, ReadSteps
<1> DEFINE P == {m \in 0..n : \A acc \in read[m] : Exact(acc, m)}
<1>3. 0 \in P
  <2>1. f.duration \in Durations /\ f.duration = r.duration
    BY <1>1 DEF File, Holds
  <2> DEFINE start == [run |-> NewRun(f.duration, 0), last |-> NewState]
  <2>2. start.run.history = <<>> /\ start.run.duration = r.duration /\ start.last = NewState
    BY <2>1, NewRunType
  <2>3. Expected(r, 0) = <<>>
    BY RunFields, ExpectedSeq
  <2>4. Exact(start, 0)
    BY <2>2, <2>3
  <2>5. read[0] = {start}
    BY <1>2 DEF IsReading
  <2> HIDE DEF Exact, start
  <2> QED
    BY <1>1, <2>4, <2>5
<1>4. ASSUME NEW m \in 1..n, m - 1 \in P
      PROVE  m \in P
  <2>1. m - 1 \in 0..n /\ m \in 0..n /\ m # 0 /\ m \in 1..Len(h) /\ (m - 1 = 0 <=> m = 1)
    BY <1>1, RunFields
  <2>2. read[m - 1] \in SUBSET Acc /\ read[m] = ReadStep(read[m - 1], f.log[m])
    BY <1>1, <1>2, <2>1 DEF IsReading
  <2>3. f.log[m] = LogElement(h, m) /\ f.log[m] \in Element
    BY <1>1, <2>1, LogElementFields
  <2>4. ASSUME NEW next \in read[m]
        PROVE  Exact(next, m)
    <3>1. PICK acc \in read[m - 1] :
            /\ next.run = Add(acc.run, ReadElement(acc.last, f.log[m]))
            /\ UseState(acc.run, ReadElement(acc.last, f.log[m])) =>
                 next.last = ReadElement(acc.last, f.log[m])
      BY <2>2, <2>3, <2>4, ReadStepCases
    <3>2. acc.run \in Run /\ acc.last \in Reading
      BY <2>2 DEF Acc
    <3>3. Exact(acc, m - 1)
      BY <1>4
    <3>4. Known(h[m].energy_now)
      BY DEF WellSpaced
    <3>5. ReadElement(acc.last, f.log[m]) = Rounded(h, m)
      <4>1. acc.last = IF m = 1 THEN NewState ELSE Rounded(h, m - 1)
        BY <2>1, <3>3
      <4> QED
        BY <2>1, <2>3, <3>4, <4>1, ElementReadExactly
    <3>6. /\ UseState(acc.run, Rounded(h, m))
          /\ Add(acc.run, Rounded(h, m)).history = Expected(r, m)
      BY <3>2, <3>3, AddRounded
    <3>7. Add(acc.run, Rounded(h, m)).duration = r.duration
      <4>1. Rounded(h, m) \in Reading
        BY <2>1, RoundedType
      <4> QED
        BY <3>2, <3>3, <4>1, AddKeepsDuration
    <3> QED
      BY <2>1, <3>1, <3>5, <3>6, <3>7
  <2> HIDE DEF Exact
  <2> QED
    BY <2>1, <2>4
<1> HIDE DEF P
<1>5. \A m \in 0..n : m \in P
  BY <1>1, <1>3, <1>4, Induction
<1>6. n \in P
  BY <1>1, <1>5
<1> QED
  BY <1>2, <1>6 DEF P

-----------------------------------------------------------------------------
(* A run that is limited by charge, while the battery holds no more than its *)
(* capacity: a reading that is kept has used energy up.                     *)
LEMMA PercentOf ==
  ASSUME NEW s \in Reading, s.energy_now \in Nat, s.energy_full \in Nat \ {0}
  PROVE  Percent(s) = Quotient(100 * s.energy_now, s.energy_full)
<1>1. s.energy_now # NaN /\ s.energy_full # NaN /\ s.energy_full > 0 /\ s.energy_full # 0
  BY NaNAssumption
<1> QED
  BY <1>1 DEF Percent

LEMMA PercentInside ==
  ASSUME NEW s \in Reading, s.energy_now \in Nat, s.energy_full \in Nat \ {0},
         s.energy_now <= s.energy_full
  PROVE  /\ Charged(s)
         /\ AtMost(Zero, Percent(s)) /\ AtMost(Percent(s), Quotient(100, 1))
<1> DEFINE now == s.energy_now
           full == s.energy_full
<1>1. Percent(s) = Quotient(100 * now, full)
  BY PercentOf
<1>2. now \in Nat /\ full \in Nat \ {0} /\ now <= full
  OBVIOUS
<1>3. Charged(s)
  BY NaNAssumption DEF Charged, Known
<1> HIDE DEF now, full
<1>4. AtMost(Zero, Quotient(100 * now, full))
  BY <1>2 DEF AtMost, Zero, Quotient
<1>5. AtMost(Quotient(100 * now, full), Quotient(100, 1))
  BY <1>2 DEF AtMost, Quotient
<1> QED
  BY <1>1, <1>3, <1>4, <1>5

LEMMA SpentIsLess ==
  ASSUME NEW d \in Durations, NEW start \in Reading, NEW last \in Reading, NEW s \in Reading,
         start.energy_now \in Nat, last.energy_now \in Nat, s.energy_now \in Nat,
         start.energy_full \in Nat \ {0}, last.energy_full = start.energy_full,
         s.energy_full = start.energy_full,
         ~AtMost(Percent(start), Quotient(d.limit, 1)), Spent(d, start, last, s)
  PROVE  s.energy_now < last.energy_now
<1> DEFINE F == start.energy_full
           a == start.energy_now
           b == last.energy_now
           c == s.energy_now
           l == d.limit
<1>1. d.limit \in Nat
  <2>1. d \in [type : {"TIME", "PERCENT"}, limit : Nat]
    BY DurationsAssumption
  <2> QED
    BY <2>1
<1>2. F \in Nat \ {0} /\ a \in Nat /\ b \in Nat /\ c \in Nat /\ l \in Nat
  BY <1>1
<1>3. /\ Percent(start) = Quotient(100 * a, F)
      /\ Percent(last) = Quotient(100 * b, F)
      /\ Percent(s) = Quotient(100 * c, F)
  BY PercentOf
<1> HIDE DEF F, a, b, c, l
<1>4. 100 * a > l * F
  <2>1. ~((100 * a) * 1 <= l * F)
    BY <1>3 DEF AtMost, Quotient, l
  <2>2. 100 * a \in Int /\ l * F \in Int
    BY <1>2, ProductType
  <2> QED
    BY <2>1, <2>2
<1> DEFINE un == (100 * b) * F - (100 * c) * F
           ud == F * F
           sn == (100 * a) * 1 - l * F
           sd == F * 1
<1>5. T!QuotientExceeds(un * sd, sn * ud, PercentSamples)
  <2>1. Minus(Percent(last), Percent(s)) = Quotient(un, ud)
    BY <1>3 DEF Minus, Quotient
  <2>2. Minus(Percent(start), Quotient(d.limit, 1)) = Quotient(sn, sd)
    BY <1>3 DEF Minus, Quotient, l
  <2> HIDE DEF un, ud, sn, sd
  <2> QED
    BY <2>1, <2>2 DEF Spent, Quotient
<1>6. un \in Int /\ ud \in Nat \ {0} /\ sn \in Nat \ {0} /\ sd \in Nat \ {0}
  <2>1. (100 * b) * F \in Int /\ (100 * c) * F \in Int
    BY <1>2, ProductType
  <2>2. ud \in Nat \ {0}
    BY <1>2, ProductPositive
  <2>3. 100 * a \in Int /\ l * F \in Int
    BY <1>2, ProductType
  <2> QED
    BY <1>2, <1>4, <2>1, <2>2, <2>3
<1>7. un > 0
  <2> HIDE DEF un, ud, sn, sd
  <2>1. sn * ud \in Nat \ {0} /\ un * sd \in Int
    BY <1>6, ProductType, ProductPositive
  <2>2. PercentSamples * (un * sd) > sn * ud
    BY <1>5, <2>1 DEF T!QuotientExceeds
  <2>3. PercentSamples \in Nat \ {0}
    BY SamplesAssumption
  <2> DEFINE m == un * sd
  <2>4. m \in Int /\ PercentSamples * m > 0
    <3>1. PercentSamples * m \in Int
      BY <2>1, <2>3, ProductType
    <3> QED
      BY <2>1, <2>2, <3>1
  <2> HIDE DEF m
  <2>5. m > 0
    BY <2>3, <2>4
  <2> QED
    BY <1>6, <2>5 DEF m
<1>8. (100 * c) * F < (100 * b) * F
  <2>1. (100 * b) * F \in Int /\ (100 * c) * F \in Int
    BY <1>2, ProductType
  <2> QED
    BY <1>7, <2>1
<1>9. ~((100 * b) <= (100 * c))
  <2>1. (100 * b) * F \in Int /\ (100 * c) * F \in Int /\ 100 * b \in Int /\ 100 * c \in Int
    BY <1>2, ProductType
  <2>2. ~((100 * b) * F <= (100 * c) * F)
    BY <1>8, <2>1
  <2> QED
    BY <1>2, <2>1, <2>2, TimesStrict
<1>10. c < b
  BY <1>2, <1>9
<1> QED
  BY <1>10 DEF b, c

(* The start of such a run *)
LEMMA DischargingStart ==
  ASSUME NEW r \in Run, Measured(r), r.history # <<>>, r.duration.type = "PERCENT",
         Discharging(r)
  PROVE  /\ r.history[1].energy_now \in Nat
         /\ r.history[1].energy_full \in Nat \ {0}
         /\ ~AtMost(Percent(r.history[1]), Quotient(r.duration.limit, 1))
<1> DEFINE s == r.history[1]
<1>1. T!StartState(r) = s /\ 1 \in 1..Len(r.history)
  BY RunFields DEF T!StartState
<1>2. /\ Percent(s) # NaN /\ s.energy_now <= s.energy_full
      /\ ~AtMost(Percent(s), Quotient(r.duration.limit, 1))
  BY <1>1 DEF Discharging
<1>3. s.energy_now \in Amount /\ s.energy_full \in Capacity
  BY <1>1, MeasuredFields
<1>4. s.energy_now # NaN /\ s.energy_full # NaN /\ s.energy_full # 0
  BY <1>2 DEF Percent
<1>5. s.energy_now \in Nat
  BY <1>3, <1>4 DEF Amount
<1>6. s.energy_full \in Nat \ {0}
  BY <1>2, <1>3, <1>4, <1>5 DEF Capacity
<1> QED
  BY <1>2, <1>5, <1>6

-----------------------------------------------------------------------------
(* A reading of the monitor after those of a run *)
Follows(r, s) ==
  /\ s \in Reading
  /\ s.energy_now \in Energies
  /\ [full |-> s.energy_full, design |-> s.energy_full_design] \in Capacities
  /\ r.history # <<>> =>
       LET last == r.history[Len(r.history)]
       IN  /\ s.energy_full = last.energy_full
           /\ s.energy_full_design = last.energy_full_design
           /\ last.time <= s.time

(* What is added is at the end, and the rest stays as it is. *)
LEMMA AddShape ==
  ASSUME NEW r \in Run, NEW s \in Reading, UseState(r, s)
  PROVE  LET n == Len(r.history)
             h == Add(r, s).history
         IN  /\ n \in Nat /\ Len(h) = n + 1 /\ h[n + 1] = s
             /\ \A i \in 1..n : h[i] = r.history[i]
<1>1. CASE r.history = <<>>
  <2>1. Add(r, s).history = <<s>>
    BY <1>1, AddCases DEF Run
  <2>2. Len(<<s>>) = 1 /\ <<s>>[1] = s /\ Len(<<>>) = 0
    OBVIOUS
  <2> QED
    BY <1>1, <2>1, <2>2
<1>2. CASE r.history # <<>>
  <2>1. Add(r, s) = Extended(r, s)
    BY <1>2, AddCases
  <2>2. Len(r.history) \in Nat
    BY RunFields
  <2> DEFINE k == Extended(r, s).history
  <2>3. /\ Len(k) = Len(r.history) + 1 /\ k[Len(r.history) + 1] = s
        /\ \A i \in 1..Len(r.history) : k[i] = r.history[i]
    BY <1>2, ExtendedFields
  <2> HIDE DEF k
  <2> QED
    BY <2>1, <2>2, <2>3 DEF k
<1> QED
  BY <1>1, <1>2

LEMMA AddKeepsMeasured ==
  ASSUME NEW r \in Run, Measured(r), NEW s, Follows(r, s)
  PROVE  Measured(Add(r, s))
<1> DEFINE h == r.history
           n == Len(h)
           a == Add(r, s)
           k == a.history
           d == r.duration
<1>1. s \in Reading
  BY DEF Follows
<1>2. CASE ~UseState(r, s)
  BY <1>2, AddCases
<1>3. CASE UseState(r, s)
  <2>1. /\ n \in Nat /\ Len(k) = n + 1 /\ k[n + 1] = s
        /\ \A i \in 1..n : k[i] = h[i]
    BY <1>1, <1>3, AddShape
  <2>2. a.duration = d
    BY <1>1, AddKeepsDuration
  <2>3. h # <<>> <=> n # 0
    BY RunFields
  <2>4. n # 0 => /\ n \in 1..n /\ 1 \in 1..n
                 /\ k[1] = h[1]
                 /\ s.energy_full = h[n].energy_full
                 /\ s.energy_full_design = h[n].energy_full_design
                 /\ h[n].time <= s.time
                 /\ h[n].energy_full = h[1].energy_full
                 /\ h[n].energy_full_design = h[1].energy_full_design
                 /\ h[n].time \in Nat
    <3>1. n # 0 => n \in 1..n /\ 1 \in 1..n
      BY <2>1
    <3> QED
      BY <2>1, <2>3, <3>1, MeasuredFields DEF Follows
  <2>5. s.energy_now \in Energies /\ s.time \in Nat
        /\ [full |-> s.energy_full, design |-> s.energy_full_design] \in Capacities
    BY DEF Follows, Reading
  <2> HIDE DEF a, k
  <2>6. ASSUME NEW i \in 1..(n + 1)
        PROVE  /\ k[i].energy_now \in Energies
               /\ [full |-> k[i].energy_full, design |-> k[i].energy_full_design] \in Capacities
               /\ k[i].energy_full = k[1].energy_full
               /\ k[i].energy_full_design = k[1].energy_full_design
               /\ \A j \in 1..i : k[j].time <= k[i].time
    <3>1. CASE i \in 1..n
      <4>1. n # 0 /\ k[i] = h[i] /\ k[1] = h[1]
        BY <2>1, <2>4, <3>1
      <4>2. \A j \in 1..i : j \in 1..n
        BY <3>1
      <4>3. \A j \in 1..i : k[j] = h[j]
        BY <2>1, <4>2
      <4> QED
        BY <3>1, <4>1, <4>3 DEF Measured
    <3>2. CASE i = n + 1
      <4>1. k[i] = s
        BY <2>1, <3>2
      <4>2. /\ k[i].energy_full = k[1].energy_full
            /\ k[i].energy_full_design = k[1].energy_full_design
        <5>1. CASE n = 0
          BY <2>1, <3>2, <5>1
        <5>2. CASE n # 0
          BY <2>4, <4>1, <5>2
        <5> QED
          BY <5>1, <5>2
      <4>3. ASSUME NEW j \in 1..i
            PROVE  k[j].time <= k[i].time
        <5>1. CASE j = n + 1
          BY <2>5, <3>2, <4>1, <5>1
        <5>2. CASE j \in 1..n
          <6>1. n # 0 /\ n \in 1..n
            BY <5>2
          <6>2. k[j] = h[j] /\ h[j].time <= h[n].time /\ h[j].time \in Nat
            BY <2>1, <5>2, <6>1, MeasuredFields DEF Measured
          <6> QED
            BY <2>4, <2>5, <4>1, <6>1, <6>2
        <5> QED
          BY <2>1, <3>2, <5>1, <5>2
      <4> QED
        BY <2>5, <4>1, <4>2, <4>3
    <3> QED
      BY <2>1, <3>1, <3>2
  <2>7. ASSUME d.type = "PERCENT", NEW i \in 2..(n + 1)
        PROVE  Spent(d, k[1], k[i - 1], k[i])
    <3>1. CASE i \in 2..n
      <4>1. i \in 1..n /\ i - 1 \in 1..n /\ 1 \in 1..n
        BY <3>1
      <4>2. Spent(d, h[1], h[i - 1], h[i])
        BY <2>7, <3>1 DEF Measured
      <4> QED
        BY <2>1, <4>1, <4>2
    <3>2. CASE i = n + 1
      <4>1. n # 0 /\ i - 1 = n /\ h # <<>>
        BY <2>1, <2>3, <3>2
      <4>2. k[i] = s /\ k[i - 1] = h[n] /\ k[1] = h[1]
        BY <2>1, <2>4, <3>2, <4>1
      <4>3. T!StartState(r) = h[1] /\ T!LastState(r) = h[n]
        BY DEF T!StartState, T!LastState
      <4>4. Spent(d, h[1], h[n], s)
        BY <1>3, <2>7, <4>1, <4>3 DEF UseState, Spent
      <4> QED
        BY <4>2, <4>4
    <3> QED
      BY <2>1, <3>1, <3>2
  <2> QED
    BY <2>1, <2>2, <2>6, <2>7 DEF Measured, a, k
<1> QED
  BY <1>2, <1>3

LEMMA AddKeepsUsesUp ==
  ASSUME NEW r \in Run, Measured(r), UsesUp(r), NEW s, Follows(r, s)
  PROVE  UsesUp(Add(r, s))
<1> DEFINE h == r.history
           n == Len(h)
           a == Add(r, s)
           k == a.history
           d == r.duration
<1>1. s \in Reading
  BY DEF Follows
<1>2. CASE ~UseState(r, s)
  BY <1>2, AddCases
<1>3. CASE UseState(r, s)
  <2>1. /\ n \in Nat /\ Len(k) = n + 1 /\ k[n + 1] = s
        /\ \A i \in 1..n : k[i] = h[i]
    BY <1>1, <1>3, AddShape
  <2>2. a.duration = d
    BY <1>1, AddKeepsDuration
  <2>3. a \in Run /\ Measured(a)
    BY <1>1, AddType, AddKeepsMeasured
  <2> SUFFICES ASSUME d.type = "PERCENT", Len(k) > 1, Discharging(a)
               PROVE  /\ k[1].energy_now \in Nat
                      /\ \A i \in 2..Len(k) : /\ k[i].energy_now \in Nat
                                              /\ k[i].energy_now < k[1].energy_now
                                              /\ k[i].energy_full = k[1].energy_full
                                              /\ k[i].time <= k[Len(k)].time
    BY <2>2 DEF UsesUp
  <2>4. n # 0 /\ n \in 1..n /\ 1 \in 1..n /\ h # <<>> /\ k # <<>>
    BY <2>1, RunFields
  <2>5. k[1] = h[1] /\ k[n] = h[n]
    BY <2>1, <2>4
  <2>6. Discharging(r)
    BY <2>2, <2>5 DEF Discharging, T!StartState
  <2>7. /\ h[1].energy_now \in Nat /\ h[1].energy_full \in Nat \ {0}
        /\ ~AtMost(Percent(h[1]), Quotient(d.limit, 1))
    BY <2>4, <2>6, DischargingStart
  <2>8. h[n].energy_now \in Nat /\ h[n].energy_now <= h[1].energy_now
    <3>1. CASE n = 1
      BY <2>7, <3>1
    <3>2. CASE n # 1
      <4>1. n > 1 /\ n \in 2..n
        <5>1. n \in Nat /\ n # 0
          BY <2>1, <2>4
        <5> HIDE DEF n
        <5> QED
          BY <3>2, <5>1
      <4> QED
        BY <2>6, <2>7, <4>1 DEF UsesUp
    <3> QED
      BY <3>1, <3>2
  <2>9. Spent(d, h[1], h[n], s)
    <3>1. T!StartState(r) = h[1] /\ T!LastState(r) = h[n]
      BY DEF T!StartState, T!LastState
    <3> QED
      BY <1>3, <2>4, <3>1 DEF UseState, Spent
  <2>10. s.energy_now \in Nat
    <3>1. s.energy_now # NaN
      BY <2>9 DEF Spent, Percent
    <3>2. s.energy_now \in Nat \cup {NaN}
      BY EnergiesAssumption DEF Follows
    <3> QED
      BY <3>1, <3>2
  <2>11. h[n].energy_full = h[1].energy_full /\ s.energy_full = h[1].energy_full
    BY <2>4, MeasuredFields DEF Follows
  <2>12. h[1] \in Reading /\ h[n] \in Reading /\ d \in Durations
    BY <2>4, MeasuredFields, RunFields
  <2>13. s.energy_now < h[n].energy_now
    BY <1>1, <2>7, <2>8, <2>9, <2>10, <2>11, <2>12, SpentIsLess
  <2> HIDE DEF a, k
  <2>14. ASSUME NEW i \in 2..(n + 1)
         PROVE  /\ k[i].energy_now \in Nat
                /\ k[i].energy_now < k[1].energy_now
                /\ k[i].energy_full = k[1].energy_full
                /\ k[i].time <= k[n + 1].time
    <3>1. k[i].energy_full = k[1].energy_full /\ k[i].time <= k[n + 1].time
      <4>1. n + 1 \in 1..(n + 1) /\ i \in 1..(n + 1)
        BY <2>1
      <4> QED
        BY <2>1, <2>3, <4>1 DEF Measured, k
    <3>2. CASE i = n + 1
      <4>1. k[i] = s /\ k[1] = h[1]
        BY <2>1, <2>5, <3>2
      <4>2. s.energy_now < h[1].energy_now
        BY <2>7, <2>8, <2>10, <2>13
      <4> QED
        BY <2>10, <3>1, <4>1, <4>2
    <3>3. CASE i \in 2..n
      <4>1. n > 1 /\ i \in 1..n
        BY <2>1, <3>3
      <4>2. h[i].energy_now \in Nat /\ h[i].energy_now < h[1].energy_now
        BY <2>6, <3>3, <4>1 DEF UsesUp
      <4> QED
        BY <2>1, <2>5, <3>1, <4>1, <4>2
    <3> QED
      BY <2>1, <3>2, <3>3
  <2> QED
    BY <2>1, <2>5, <2>7, <2>14
<1> QED
  BY <1>2, <1>3

-----------------------------------------------------------------------------
(* A run that was limited by charge and is read back uses energy up too, if *)
(* the file rounds no energy.                                               *)
LEMMA WholeIsSpaced ==
  ASSUME NEW r \in Run, Measured(r), r.duration.type = "PERCENT", WholeMicros,
         NEW n \in 2..Len(r.history)
  PROVE  WellSpaced(r, n)
<1> DEFINE h == r.history
           N == Len(h)
<1>1. N \in Nat
  BY RunFields
<1>2. ASSUME NEW i \in 1..n
      PROVE  /\ Known(h[i].energy_now) /\ h[i].energy_now % Micro = 0
             /\ Known(h[i].energy_full) => h[i].energy_full % Micro = 0
  <2>1. i \in 1..N /\ (i = 1 => 2 \in 2..N) /\ (i # 1 => i \in 2..N)
    BY <1>1
  <2>2. h[i].energy_now # NaN
    <3>1. CASE i = 1
      <4>1. Spent(r.duration, h[1], h[2 - 1], h[2])
        BY <2>1, <3>1 DEF Measured
      <4> QED
        BY <3>1, <4>1 DEF Spent, Percent
    <3>2. CASE i # 1
      <4>1. Spent(r.duration, h[1], h[i - 1], h[i])
        BY <2>1, <3>2 DEF Measured
      <4> QED
        BY <4>1 DEF Spent, Percent
    <3> QED
      BY <3>1, <3>2
  <2>3. h[i].energy_now \in Amount
    BY <2>1, MeasuredFields
  <2>4. h[i].energy_now \in Nat /\ Known(h[i].energy_now)
    BY <2>2, <2>3 DEF Amount, Known
  <2>5. /\ h[i].energy_now \in Energies
        /\ [full |-> h[i].energy_full, design |-> h[i].energy_full_design] \in Capacities
    BY <2>1 DEF Measured
  <2>6. h[i].energy_now % Micro = 0
    BY <2>4, <2>5 DEF WholeMicros
  <2>7. Known(h[i].energy_full) => h[i].energy_full % Micro = 0
    <3> DEFINE c == [full |-> h[i].energy_full, design |-> h[i].energy_full_design]
    <3>1. c \in Capacities /\ c.full = h[i].energy_full
      BY <2>5
    <3> HIDE DEF c
    <3>2. Known(c.full) => c.full % Micro = 0
      BY <3>1 DEF WholeMicros
    <3> QED
      BY <3>1, <3>2
  <2> QED
    BY <2>4, <2>6, <2>7
<1>3. 1 \in 1..n /\ \A i \in 2..n : i \in 1..n
  BY <1>1
<1> QED
  BY <1>2, <1>3 DEF WellSpaced

LEMMA MillisecondsOrder ==
  ASSUME NEW r \in Run, Measured(r), NEW n \in 1..Len(r.history), NEW i \in 1..n
  PROVE  Rounded(r.history, i).time <= Rounded(r.history, n).time
<1> DEFINE h == r.history
           a == Ms \div 2 + h[i].time - h[1].time
           b == Ms \div 2 + h[n].time - h[1].time
<1>1. i \in 1..Len(h) /\ Ms \in Nat \ {0} /\ Ms \div 2 \in Nat
  BY RunFields, UnitsAssumption
<1>2. /\ h[i].time \in Nat /\ h[n].time \in Nat /\ h[1].time \in Nat
      /\ h[i].time <= h[n].time
  BY <1>1, MeasuredFields DEF Measured
<1>3. a \in Int /\ b \in Int /\ a <= b
  <2> DEFINE t == h[i].time
             u == h[n].time
             v == h[1].time
             half == Ms \div 2
  <2>1. t \in Nat /\ u \in Nat /\ v \in Nat /\ t <= u /\ half \in Nat
    BY <1>1, <1>2
  <2> HIDE DEF t, u, v, half
  <2>2. half + t - v \in Int /\ half + u - v \in Int /\ half + t - v <= half + u - v
    BY <2>1
  <2> QED
    BY <2>2 DEF t, u, v, half
<1> HIDE DEF a, b
<1>4. a \div Ms <= b \div Ms /\ a \div Ms \in Int /\ b \div Ms \in Int
  BY <1>1, <1>3, RoundedOrder, RoundedDown
<1> DEFINE p == a \div Ms
           q == b \div Ms
<1>5. Ms * p <= Ms * q
  <2>1. p \in Int /\ q \in Int /\ p <= q
    BY <1>4
  <2> HIDE DEF p, q
  <2> QED
    BY <1>1, <2>1
<1>6. Rounded(h, i).time = Ms * p /\ Rounded(h, n).time = Ms * q
  BY DEF Rounded, Milliseconds, a, b
<1> HIDE DEF p, q
<1> QED
  BY <1>5, <1>6

LEMMA ReadUsesUp ==
  ASSUME NEW r \in Run, Measured(r), UsesUp(r), NEW n \in 1..Len(r.history), NEW f,
         Holds(f, r, n), NEW got \in ReadFromFile(f), WholeMicros
  PROVE  UsesUp(got)
<1> DEFINE h == r.history
           k == got.history
<1>1. /\ n \in Nat \ {0} /\ f \in File /\ f.duration = r.duration
  BY HeldElements DEF Holds
<1>2. got \in Run /\ got.duration = r.duration
  BY <1>1, ReadRuns
<1>3. Len(k) <= n /\ Len(k) \in Nat
  BY <1>2, ReadContents, RunFields DEF Traced
<1> SUFFICES ASSUME r.duration.type = "PERCENT", Len(k) > 1, Discharging(got)
             PROVE  /\ k[1].energy_now \in Nat
                    /\ \A i \in 2..Len(k) : /\ k[i].energy_now \in Nat
                                            /\ k[i].energy_now < k[1].energy_now
                                            /\ k[i].energy_full = k[1].energy_full
                                            /\ k[i].time <= k[Len(k)].time
  BY <1>2 DEF UsesUp
<1>4. Len(h) \in Nat /\ n \in 2..Len(h) /\ Len(h) > 1 /\ n \in 0..Len(h)
  BY <1>1, <1>3, RunFields
<1>5. WellSpaced(r, n)
  BY <1>4, WholeIsSpaced
<1>6. k = Expected(r, n)
  BY <1>5, ReadExactly
<1>7. Len(k) = n /\ \A i \in 1..n : k[i] = Rounded(h, i)
  BY <1>4, <1>6, ExpectedSeq
<1>8. 1 \in 1..n /\ n \in 1..n /\ k # <<>> /\ h # <<>>
  BY <1>4, <1>7, <1>2, RunFields
<1>9. \A i \in 1..n : /\ k[i].energy_now = h[i].energy_now
                      /\ k[i].energy_full = h[i].energy_full
                      /\ Percent(k[i]) = Percent(h[i])
  BY <1>4, <1>5, <1>7, RoundedPercent
<1>10. Discharging(r)
  <2>1. T!StartState(got) = k[1] /\ T!StartState(r) = h[1]
    BY DEF T!StartState
  <2> QED
    BY <1>2, <1>8, <1>9, <2>1 DEF Discharging
<1>11. h[1].energy_now \in Nat /\
       \A i \in 2..Len(h) : /\ h[i].energy_now \in Nat /\ h[i].energy_now < h[1].energy_now
                             /\ h[i].energy_full = h[1].energy_full
  BY <1>4, <1>10 DEF UsesUp
<1>12. ASSUME NEW i \in 2..n
       PROVE  /\ k[i].energy_now \in Nat
              /\ k[i].energy_now < k[1].energy_now
              /\ k[i].energy_full = k[1].energy_full
              /\ k[i].time <= k[n].time
  <2>1. i \in 1..n /\ i \in 2..Len(h)
    BY <1>4
  <2>2. k[i].time <= k[n].time
    BY <1>7, <1>8, <2>1, MillisecondsOrder
  <2> QED
    BY <1>8, <1>9, <1>11, <2>1, <2>2
<1> HIDE DEF k
<1> QED
  BY <1>7, <1>8, <1>9, <1>11, <1>12

-----------------------------------------------------------------------------
(* What a reader finds of the charge is what was stored of it, or nothing,  *)
(* also when it starts from memory that was freed.                          *)
LEMMA HeldFreed ==
  ASSUME NEW s \in Reading, Held(s), NEW l \in {s} \cup Freed(s)
  PROVE  Held(l)
<1>1. Held(NewState)
  BY DEF Held, NewState, Charges, Fulls
<1>2. \A b \in BOOLEAN : Held([s EXCEPT !.online = b])
  BY DEF Held, Reading
<1> QED
  BY <1>1, <1>2 DEF Freed

LEMMA MemberStored ==
  ASSUME NEW v \in Int \cup {NaN}, NEW old \in Int \cup {NaN}, NEW b \in BOOLEAN
  PROVE  Member(IF b /\ Known(v) THEN ToMicro(v) ELSE Missing, old, Micro) \in {Stored(v), old}
<1>1. CASE b /\ Known(v)
  <2>1. v \in Nat /\ Stored(v) = Micro * ToMicro(v) /\ ToMicro(v) \in Int
    BY <1>1, StoredType, ToMicroType
  <2>2. ToMicro(v) \in Int \cup {Missing} /\ ToMicro(v) # Missing
    BY <2>1, MissingAssumption
  <2>3. Member(ToMicro(v), old, Micro) = Micro * ToMicro(v)
    BY <2>2, MemberType, UnitsAssumption
  <2> QED
    BY <1>1, <2>1, <2>3
<1>2. CASE ~(b /\ Known(v))
  BY <1>2 DEF Member
<1> QED
  BY <1>1, <1>2

LEMMA ElementHeld ==
  ASSUME NEW r \in Run, Measured(r), NEW i \in 1..Len(r.history),
         NEW last \in Reading, Held(last)
  PROVE  Held(ReadElement(last, LogElement(r.history, i)))
<1> DEFINE h == r.history
           e == LogElement(h, i)
           s == ReadElement(last, e)
           now == h[i].energy_now
           full == h[i].energy_full
<1>1. /\ e.energy = IF Known(now) THEN ToMicro(now) ELSE Missing
      /\ e.energy_full = IF i = 1 /\ Known(full) THEN ToMicro(full) ELSE Missing
  BY LogElementFields
<1>2. now \in Int \cup {NaN} /\ full \in Int \cup {NaN}
      /\ last.energy_now \in Int \cup {NaN} /\ last.energy_full \in Int \cup {NaN}
  BY MeasuredFields DEF Reading
<1>3. s.energy_now = Member(e.energy, last.energy_now, Micro)
      /\ s.energy_full = Member(e.energy_full, last.energy_full, Micro)
  BY DEF ReadElement
<1>4. now \in Energies /\ [full |-> full, design |-> h[i].energy_full_design] \in Capacities
  BY DEF Measured
<1> HIDE DEF s, e, now, full
<1>5. s.energy_now \in {Stored(now), last.energy_now}
  <2>1. e.energy = IF TRUE /\ Known(now) THEN ToMicro(now) ELSE Missing
    BY <1>1
  <2> QED
    BY <1>2, <1>3, <2>1, MemberStored
<1>6. s.energy_full \in {Stored(full), last.energy_full}
  <2> DEFINE b == i = 1
  <2>1. b \in BOOLEAN /\ e.energy_full = IF b /\ Known(full) THEN ToMicro(full) ELSE Missing
    BY <1>1
  <2> HIDE DEF b
  <2> QED
    BY <1>2, <1>3, <2>1, MemberStored
<1>7. Stored(now) \in Charges
  BY <1>4 DEF Charges
<1>8. Stored(full) \in Fulls
  <2> DEFINE c == [full |-> full, design |-> h[i].energy_full_design]
  <2>1. c \in Capacities /\ c.full = full
    BY <1>4
  <2> HIDE DEF c
  <2> QED
    BY <2>1 DEF Fulls
<1> QED
  BY <1>5, <1>6, <1>7, <1>8 DEF Held, s, e

(* What has been read of a run after m elements: the first of them is kept, *)
(* and dated 0.                                                             *)
ReadSoFar(g, m) ==
  /\ HeldRun(g)
  /\ m # 0 => g.history # <<>>
  /\ g.history # <<>> => g.history[1].time = 0

LEMMA AddReadSoFar ==
  ASSUME NEW g \in Run, NEW m \in Nat \ {0}, NEW s \in Reading, ReadSoFar(g, m - 1),
         Held(s), m = 1 => s.time = 0
  PROVE  ReadSoFar(Add(g, s), m)
<1> DEFINE n == Len(g.history)
           k == Add(g, s).history
<1>1. CASE ~UseState(g, s)
  <2>1. Add(g, s) = g /\ g.history # <<>>
    BY <1>1, AddCases DEF UseState
  <2> QED
    BY <2>1 DEF ReadSoFar
<1>2. CASE UseState(g, s)
  <2>1. /\ n \in Nat /\ Len(k) = n + 1 /\ k[n + 1] = s
        /\ \A i \in 1..n : k[i] = g.history[i]
    BY <1>2, AddShape
  <2>2. n = 0 <=> g.history = <<>>
    BY RunFields
  <2>3. n = 0 => m = 1
    BY <2>2 DEF ReadSoFar
  <2>4. k # <<>>
    <3>1. Len(<<>>) = 0
      OBVIOUS
    <3> HIDE DEF k
    <3> QED
      BY <2>1, <3>1
  <2> HIDE DEF k
  <2>5. k[1].time = 0
    <3>1. CASE n = 0
      BY <2>1, <2>3, <3>1
    <3>2. CASE n # 0
      <4>1. 1 \in 1..n /\ g.history[1].time = 0
        BY <2>1, <2>2, <3>2 DEF ReadSoFar
      <4> QED
        BY <2>1, <4>1
    <3> QED
      BY <3>1, <3>2
  <2>6. ASSUME NEW i \in 1..(n + 1)
        PROVE  Held(k[i])
    <3>1. CASE i = n + 1
      BY <2>1, <3>1
    <3>2. CASE i \in 1..n
      BY <2>1, <3>2 DEF ReadSoFar, HeldRun
    <3> QED
      BY <2>1, <3>1, <3>2
  <2> QED
    BY <2>1, <2>4, <2>5, <2>6 DEF ReadSoFar, HeldRun, k
<1> QED
  BY <1>1, <1>2

LEMMA FirstIsZero ==
  ASSUME NEW r, r.history[1].time \in Nat
  PROVE  Rounded(r.history, 1).time = 0
<1> DEFINE t == r.history[1].time
           half == Ms \div 2
<1>1. Ms \in Nat \ {0} /\ half \in Nat
  BY UnitsAssumption
<1>2. Rounded(r.history, 1).time = Ms * ((half + t - t) \div Ms)
  BY DEF Rounded, Milliseconds
<1>3. half \div Ms = 0
  BY <1>1, RoundedZero
<1> HIDE DEF t, half
<1>4. half + t - t = half
  BY <1>1 DEF t
<1> QED
  BY <1>1, <1>2, <1>3, <1>4

LEMMA ReadHeld ==
  ASSUME NEW r \in Run, Measured(r), NEW n \in 1..Len(r.history), NEW f, Holds(f, r, n),
         NEW got \in ReadFromFile(f)
  PROVE  Dated(got) /\ HeldRun(got)
<1> DEFINE h == r.history
<1>1. /\ f \in File /\ Len(f.log) = n /\ n \in Nat \ {0}
      /\ \A i \in 1..n : f.log[i] # Wrong /\ f.log[i] = LogElement(h, i)
  BY HeldElements
<1>2. PICK read \in [0..n -> SUBSET Acc] :
        IsReading(read, f) /\ ReadFromFile(f) = {acc.run : acc \in read[n]}
  BY <1>1, ReadSteps
<1> DEFINE P == {m \in 0..n : \A acc \in read[m] : ReadSoFar(acc.run, m) /\ Held(acc.last)}
<1>3. 0 \in P
  <2>1. f.duration \in Durations
    BY <1>1 DEF File
  <2>2. NewRun(f.duration, 0).history = <<>> /\ Len(<<>>) = 0 /\ 1..0 = {}
    BY <2>1, NewRunType
  <2>3. ReadSoFar(NewRun(f.duration, 0), 0)
    BY <2>2 DEF ReadSoFar, HeldRun
  <2>4. Held(NewState)
    BY DEF Held, NewState, Charges, Fulls
  <2>5. read[0] = {[run |-> NewRun(f.duration, 0), last |-> NewState]}
    BY <1>2 DEF IsReading
  <2> QED
    BY <1>1, <2>3, <2>4, <2>5
<1>4. ASSUME NEW m \in 1..n, m - 1 \in P
      PROVE  m \in P
  <2>1. m - 1 \in 0..n /\ m \in 0..n /\ m \in Nat \ {0} /\ m \in 1..Len(h)
    BY <1>1, RunFields
  <2>2. read[m - 1] \in SUBSET Acc /\ read[m] = ReadStep(read[m - 1], f.log[m])
    BY <1>1, <1>2, <2>1 DEF IsReading
  <2>3. f.log[m] = LogElement(h, m) /\ f.log[m] \in Element
    BY <1>1, <2>1, LogElementFields
  <2>4. ASSUME NEW next \in read[m]
        PROVE  ReadSoFar(next.run, m) /\ Held(next.last)
    <3>1. PICK acc \in read[m - 1] :
            LET s == ReadElement(acc.last, f.log[m])
            IN  next.run = Add(acc.run, s) /\ next.last \in {s} \cup Freed(s)
      BY <2>2, <2>3, <2>4, ReadStepCases
    <3> DEFINE s == ReadElement(acc.last, f.log[m])
    <3>2. acc.run \in Run /\ acc.last \in Reading
      BY <2>2 DEF Acc
    <3>3. s \in Reading /\ s.time = Rounded(h, m).time
      BY <2>1, <2>3, <3>2, ElementRead
    <3>4. ReadSoFar(acc.run, m - 1) /\ Held(acc.last)
      BY <1>4
    <3>5. Held(s)
      BY <2>1, <2>3, <3>2, <3>4, ElementHeld
    <3>6. m = 1 => s.time = 0
      BY <2>1, <3>3, FirstIsZero, MeasuredFields
    <3> HIDE DEF s
    <3>7. ReadSoFar(Add(acc.run, s), m)
      BY <2>1, <3>2, <3>3, <3>4, <3>5, <3>6, AddReadSoFar
    <3>8. next.run = Add(acc.run, s) /\ next.last \in {s} \cup Freed(s)
      BY <3>1 DEF s
    <3>9. Held(next.last)
      BY <3>3, <3>5, <3>8, HeldFreed
    <3> QED
      BY <3>7, <3>8, <3>9
  <2> QED
    BY <2>1, <2>4
<1> HIDE DEF P
<1>5. \A m \in 0..n : m \in P
  BY <1>1, <1>3, <1>4, Induction
<1>6. n \in P
  BY <1>1, <1>5
<1>7. ReadSoFar(got, n)
  BY <1>2, <1>6 DEF P
<1>8. got \in Run
  BY <1>1, ReadRuns
<1>9. Dated(got)
  <2> SUFFICES ASSUME NEW i \in 1..Len(got.history)
               PROVE  got.history[1].time <= got.history[i].time
    BY DEF Dated
  <2>1. got.history # <<>> /\ got.history \in Seq(Reading)
    BY <1>8, RunFields
  <2>2. got.history[i] \in Reading
    BY <2>1
  <2>3. got.history[i].time \in Nat
    BY <2>2 DEF Reading
  <2> QED
    BY <1>7, <2>1, <2>3 DEF ReadSoFar
<1> QED
  BY <1>7, <1>9 DEF ReadSoFar

(* The file rounds no amount above one that it was not above. *)
LEMMA StoredOrder ==
  ASSUME NEW a \in Nat, NEW b \in Nat, a <= b
  PROVE  Stored(a) <= Stored(b)
<1> DEFINE half == Micro \div 2
           p == (half + a) \div Micro
           q == (half + b) \div Micro
<1>1. Micro \in Nat \ {0} /\ half \in Nat
  BY UnitsAssumption
<1>2. p \in Int /\ q \in Int /\ p <= q
  <2>1. half + a \in Int /\ half + b \in Int /\ half + a <= half + b
    <3> HIDE DEF half
    <3> QED
      BY <1>1
  <2> QED
    BY <1>1, <2>1, RoundedOrder, RoundedDown
<1>3. Stored(a) = Micro * p /\ Stored(b) = Micro * q
  BY NaNAssumption DEF Stored, ToMicro, Known
<1> HIDE DEF p, q
<1>4. p * Micro <= q * Micro
  BY <1>1, <1>2, TimesMonotonic
<1> QED
  BY <1>1, <1>2, <1>3, <1>4

(* What is read of a battery that is never overfull is not above what is    *)
(* read of its capacity.                                                    *)
LEMMA HeldFits ==
  ASSUME NeverOverfull, NEW s, Held(s), Charged(s)
  PROVE  /\ s.energy_now \in Nat /\ s.energy_full \in Nat \ {0}
         /\ s.energy_now <= s.energy_full
<1>1. Known(s.energy_now) /\ Known(s.energy_full) /\ s.energy_full # 0
  BY DEF Charged
<1>2. ~Known(-1)
  BY DEF Known
<1>3. PICK e \in Energies : s.energy_now = Stored(e)
  BY <1>1, <1>2 DEF Held, Charges
<1>4. PICK c \in Capacities : s.energy_full = Stored(c.full)
  BY <1>1, <1>2 DEF Held, Fulls
<1>5. e \in Int \cup {NaN} /\ c.full \in Int \cup {NaN}
  BY EnergiesAssumption, CapacitiesAssumption
<1>6. Known(e) /\ Known(c.full)
  BY <1>1, <1>2, <1>3, <1>4, <1>5, StoredType
<1>7. e \in Nat /\ c.full \in Nat /\ Stored(e) \in Nat /\ Stored(c.full) \in Nat
  BY <1>5, <1>6, StoredType
<1>8. e <= c.full
  BY <1>6 DEF NeverOverfull
<1>9. Stored(e) <= Stored(c.full)
  <2> DEFINE full == c.full
  <2>1. full \in Nat /\ e <= full
    BY <1>7, <1>8
  <2> HIDE DEF full
  <2>2. Stored(e) <= Stored(full)
    BY <1>7, <2>1, StoredOrder
  <2> QED
    BY <2>2 DEF full
<1> QED
  BY <1>1, <1>3, <1>4, <1>7, <1>9

-----------------------------------------------------------------------------
(* What happens to the file *)
LEMMA WriteHolds ==
  ASSUME NEW r \in Run, Measured(r), r.history # <<>>
  PROVE  Len(r.history) \in 1..Len(r.history) /\ Holds(WriteToFile(r), r, Len(r.history))
<1> DEFINE n == Len(r.history)
           f == WriteToFile(r)
           log == [i \in 1..n |-> LogElement(r.history, i)]
<1>1. n \in Nat /\ n >= 1 /\ n \in 1..n
  BY RunFields
<1>2. \A i \in 1..n : LogElement(r.history, i) \in Element
  BY LogElementFields
<1>3. log \in Seq(Element \cup {Wrong}) /\ Len(log) = n
  BY <1>1, <1>2
<1>4. f.power \in [num : Int, den : Int]
  <2>1. Statistics(T!StartState(r), T!LastState(r)).power \in Quotients
    BY RunFields, StatisticsType
  <2>2. f.power \in Quotients
    BY <2>1, ExtremeQuotient DEF WriteToFile
  <2> QED
    BY <2>2 DEF Quotients
<1>5. f.duration \in Durations /\ f.duration = r.duration
  BY RunFields DEF WriteToFile
<1>6. f = [duration |-> f.duration, power |-> f.power, log |-> log] /\ f.log = log
  BY DEF WriteToFile
<1>7. \A i \in 1..n : log[i] = LogElement(r.history, i)
  OBVIOUS
<1> HIDE DEF f, log
<1>8. f \in File
  BY <1>3, <1>4, <1>5, <1>6 DEF File
<1> QED
  BY <1>1, <1>3, <1>5, <1>6, <1>7, <1>8 DEF Holds, f

(* A reading that is added leaves the file a file of the run. *)
LEMMA AddKeepsHolds ==
  ASSUME NEW r \in Run, NEW s \in Reading, NEW n \in 1..Len(r.history), NEW f, Holds(f, r, n)
  PROVE  n \in 1..Len(Add(r, s).history) /\ Holds(f, Add(r, s), n)
<1> DEFINE h == r.history
           k == Add(r, s).history
<1>1. CASE ~UseState(r, s)
  BY <1>1, AddCases
<1>2. CASE UseState(r, s)
  <2>1. /\ Len(h) \in Nat /\ Len(k) = Len(h) + 1
        /\ \A i \in 1..Len(h) : k[i] = h[i]
    BY <1>2, AddShape
  <2>2. n \in 1..Len(k)
    BY <2>1
  <2>3. ASSUME NEW i \in 1..n
        PROVE  LogElement(k, i) = LogElement(h, i)
    <3>1. i \in 1..Len(h) /\ 1 \in 1..Len(h) /\ (i # 1 => i - 1 \in 1..Len(h))
      BY <2>1
    <3>2. k[i] = h[i] /\ k[1] = h[1] /\ (i # 1 => k[i - 1] = h[i - 1])
      BY <2>1, <3>1
    <3> HIDE DEF k
    <3> QED
      BY <3>2 DEF LogElement
  <2>4. Add(r, s).duration = r.duration
    BY AddKeepsDuration
  <2> QED
    BY <2>2, <2>3, <2>4 DEF Holds
<1> QED
  BY <1>1, <1>2

LEMMA SpoilKeepsHolds ==
  ASSUME NEW r, NEW n \in Nat, NEW f, Holds(f, r, n), NEW j \in DOMAIN f.log
  PROVE  Holds([f EXCEPT !.log[j] = Wrong], r, n)
<1> DEFINE log == [f.log EXCEPT ![j] = Wrong]
           g == [f EXCEPT !.log[j] = Wrong]
<1>1. f \in File /\ f.log \in Seq(Element \cup {Wrong}) /\ Len(f.log) = n
  BY DEF Holds, File
<1>2. log \in Seq(Element \cup {Wrong}) /\ Len(log) = n
  BY <1>1
<1>3. g.log = log /\ g.duration = f.duration /\ g \in File
  BY <1>1, <1>2 DEF File
<1>4. \A i \in 1..n : log[i] \in {Wrong, f.log[i]}
  BY <1>1
<1>5. \A i \in 1..n : log[i] \in {Wrong, LogElement(r.history, i)}
  BY <1>4 DEF Holds
<1> HIDE DEF g, log
<1> QED
  BY <1>2, <1>3, <1>5 DEF Holds, g

-----------------------------------------------------------------------------
(* The invariant is inductive. *)
LEMMA AddedReading ==
  ASSUME NEW r \in Run, NEW gap \in Gaps, NEW on \in BOOLEAN, NEW e \in Energies,
         NEW c \in Capacities, NEW s,
         s = [time |-> IF r.history = <<>> THEN 0 ELSE T!LastState(r).time + gap,
              online |-> on, energy_now |-> e,
              energy_full |-> c.full, energy_full_design |-> c.design],
         r.history # <<>> => c = [full |-> T!LastState(r).energy_full,
                                  design |-> T!LastState(r).energy_full_design]
  PROVE  Follows(r, s)
<1> DEFINE last == T!LastState(r)
<1>1. gap \in Nat \ {0} /\ e \in Nat \cup {NaN}
  BY GapsAssumption, EnergiesAssumption
<1>2. c \in [full : Nat \cup {NaN, -1}, design : Nat \cup {NaN, -1}]
  BY CapacitiesAssumption
<1>3. c.full \in Int \cup {NaN} /\ c.design \in Int \cup {NaN}
      /\ c = [full |-> c.full, design |-> c.design]
  BY <1>2
<1>4. r.history # <<>> => /\ last = r.history[Len(r.history)] /\ last.time \in Nat
                          /\ c.full = last.energy_full /\ c.design = last.energy_full_design
  <2>1. r.history # <<>> => last \in Reading /\ last = r.history[Len(r.history)]
    BY RunFields
  <2> HIDE DEF last
  <2>2. r.history # <<>> => last.time \in Nat
    BY <2>1 DEF Reading
  <2>3. r.history # <<>> => c = [full |-> last.energy_full, design |-> last.energy_full_design]
    BY DEF last
  <2> QED
    BY <2>1, <2>2, <2>3
<1> HIDE DEF last
<1>5. s.time \in Nat /\ (r.history # <<>> => last.time <= s.time)
  <2>1. CASE r.history = <<>>
    BY <2>1
  <2>2. CASE r.history # <<>>
    <3>1. s.time = last.time + gap
      BY <2>2 DEF last
    <3> QED
      BY <1>1, <1>4, <2>2, <3>1
  <2> QED
    BY <2>1, <2>2
<1>6. /\ s.online = on /\ s.energy_now = e
      /\ s.energy_full = c.full /\ s.energy_full_design = c.design
      /\ s = [time |-> s.time, online |-> s.online, energy_now |-> s.energy_now,
              energy_full |-> s.energy_full, energy_full_design |-> s.energy_full_design]
  OBVIOUS
<1>7. s \in Reading
  BY <1>1, <1>3, <1>5, <1>6 DEF Reading
<1> QED
  BY <1>3, <1>4, <1>5, <1>6, <1>7 DEF Follows

LEMMA InitInv ==
  Init => IInv
<1> SUFFICES ASSUME Init PROVE IInv
  OBVIOUS
<1>1. PICK d \in Durations, l \in LoopTimes : run = NewRun(d, l)
  BY DEF Init
<1>2. run \in Run /\ run.history = <<>>
  BY <1>1, NewRunType
<1>3. Len(<<>>) = 0 /\ 1..Len(<<>>) = {} /\ 2..Len(<<>>) = {}
  OBVIOUS
<1>4. TypeOK
  BY <1>2, BoundsAssumption DEF Init, TypeOK
<1>5. Measured(run) /\ Extremes(run) /\ UsesUp(run)
  BY <1>2, <1>3 DEF Measured, Extremes, UsesUp
<1>6. ranges = UpdateChartRanges(Shown(shown))
  BY DEF Init, Shown
<1> QED
  BY <1>4, <1>5, <1>6 DEF Init, IInv

LEMMA AddReadingInv ==
  IInv /\ AddReading => IInv'
<1> SUFFICES ASSUME IInv, AddReading PROVE IInv'
  OBVIOUS
<1>a. PICK gap \in Gaps, on \in BOOLEAN, e \in Energies, c \in Capacities :
        \E s :
          /\ s = [time |-> IF run.history = <<>> THEN 0 ELSE T!LastState(run).time + gap,
                  online |-> on, energy_now |-> e,
                  energy_full |-> c.full, energy_full_design |-> c.design]
          /\ run.history # <<>> => c = [full |-> T!LastState(run).energy_full,
                                        design |-> T!LastState(run).energy_full_design]
          /\ run' = Add(run, s)
          /\ OnRunUpdated(Add(run, s))
  BY DEF AddReading
<1>1. PICK s :
        /\ s = [time |-> IF run.history = <<>> THEN 0 ELSE T!LastState(run).time + gap,
                online |-> on, energy_now |-> e,
                energy_full |-> c.full, energy_full_design |-> c.design]
        /\ run.history # <<>> => c = [full |-> T!LastState(run).energy_full,
                                      design |-> T!LastState(run).energy_full_design]
        /\ run' = Add(run, s)
        /\ OnRunUpdated(Add(run, s))
  BY <1>a
<1>2. run \in Run /\ Measured(run) /\ Extremes(run) /\ UsesUp(run)
  BY DEF IInv, TypeOK
<1>3. Follows(run, s) /\ s \in Reading
  BY <1>1, <1>2, AddedReading DEF Follows
<1>4. run' \in Run
  BY <1>1, <1>2, <1>3, AddType
<1>5. Measured(run') /\ Extremes(run') /\ UsesUp(run')
  BY <1>1, <1>2, <1>3, AddKeepsMeasured, AddKeepsExtremes, AddKeepsUsesUp
<1>6. /\ file' = file /\ loaded' = loaded /\ shown' = shown
      /\ readings' = readings + 1 /\ readings < MaxReadings
  BY DEF AddReading
<1>7. TypeOK'
  BY <1>4, <1>6, BoundsAssumption DEF IInv, TypeOK
<1>8. file' \notin {NoFile, Scratch} => \E n \in 1..Len(run'.history) : Holds(file', run', n)
  BY <1>1, <1>2, <1>3, <1>6, AddKeepsHolds DEF IInv
<1>9. (ranges = UpdateChartRanges(Shown(shown)))'
  BY <1>1, <1>6 DEF IInv, OnRunUpdated, Shown
<1> QED
  BY <1>5, <1>6, <1>7, <1>8, <1>9 DEF IInv

LEMMA WriteInv ==
  IInv /\ Write => IInv'
<1> SUFFICES ASSUME IInv, Write PROVE IInv'
  OBVIOUS
<1>1. run \in Run /\ Measured(run) /\ run.history # <<>>
  BY DEF IInv, TypeOK, Write
<1>2. file' \notin {NoFile, Scratch} => \E n \in 1..Len(run.history) : Holds(file', run, n)
  BY <1>1, WriteHolds DEF Write
<1> QED
  BY <1>2 DEF IInv, TypeOK, Write, Shown

LEMMA SpoilInv ==
  IInv /\ Spoil => IInv'
<1> SUFFICES ASSUME IInv, Spoil PROVE IInv'
  OBVIOUS
<1>1. PICK n \in 1..Len(run.history) : Holds(file, run, n)
  BY DEF IInv, Spoil
<1>2. n \in Nat
  BY RunFields DEF IInv, TypeOK
<1>3. PICK j \in DOMAIN file.log : file' = [file EXCEPT !.log[j] = Wrong]
  BY DEF Spoil
<1>4. Holds(file', run, n)
  BY <1>1, <1>2, <1>3, SpoilKeepsHolds
<1> QED
  BY <1>1, <1>4 DEF IInv, TypeOK, Spoil, Shown

LEMMA ReadInv ==
  IInv /\ Read => IInv'
<1> SUFFICES ASSUME IInv, Read PROVE IInv'
  OBVIOUS
<1>1. run \in Run /\ Measured(run) /\ UsesUp(run)
  BY DEF IInv, TypeOK
<1>2. loaded' # NoRun => /\ loaded' \in Run /\ Extremes(loaded')
                         /\ Dated(loaded') /\ HeldRun(loaded')
                         /\ WholeMicros => UsesUp(loaded')
  <2> SUFFICES ASSUME loaded' # NoRun
               PROVE  /\ loaded' \in Run /\ Extremes(loaded')
                      /\ Dated(loaded') /\ HeldRun(loaded')
                      /\ WholeMicros => UsesUp(loaded')
    OBVIOUS
  <2>1. file \notin {NoFile, Scratch} /\ loaded' \in ReadFromFile(file)
    BY DEF Read
  <2>2. PICK n \in 1..Len(run.history) : Holds(file, run, n)
    BY <2>1 DEF IInv
  <2>3. file \in File
    BY <2>2 DEF Holds
  <2>4. loaded' \in Run /\ Extremes(loaded')
    BY <2>1, <2>3, ReadRuns
  <2>5. WholeMicros => UsesUp(loaded')
    BY <1>1, <2>1, <2>2, ReadUsesUp
  <2>6. Dated(loaded') /\ HeldRun(loaded')
    BY <1>1, <2>1, <2>2, ReadHeld
  <2> QED
    BY <2>4, <2>5, <2>6
<1>3. /\ run' = run /\ readings' = readings /\ file' = file /\ shown' = shown
      /\ ranges' = ranges /\ shown # "loaded"
  BY DEF Read
<1>4. TypeOK'
  BY <1>2, <1>3 DEF IInv, TypeOK
<1>5. WholeMicros' = WholeMicros
  BY DEF WholeMicros
<1> QED
  BY <1>2, <1>3, <1>4, <1>5 DEF IInv, Shown

LEMMA SetTestRunInv ==
  ASSUME NEW which \in {"none", "live", "loaded"}
  PROVE  IInv /\ SetTestRun(which) => IInv'
BY DEF IInv, TypeOK, SetTestRun, Shown

(* The invariant holds of every behaviour. *)
THEOREM Invariance == Spec => []IInv
<1>1. IInv /\ [Next]_vars => IInv'
  <2> SUFFICES ASSUME IInv, [Next]_vars PROVE IInv'
    OBVIOUS
  <2>1. CASE AddReading
    BY <2>1, AddReadingInv
  <2>2. CASE Write
    BY <2>2, WriteInv
  <2>3. CASE Spoil
    BY <2>3, SpoilInv
  <2>4. CASE Read
    BY <2>4, ReadInv
  <2>5. ASSUME NEW which \in {"none", "live", "loaded"}, SetTestRun(which)
        PROVE  IInv'
    BY <2>5, SetTestRunInv
  <2>6. CASE UNCHANGED vars
    BY <2>6 DEF vars, IInv, TypeOK, Shown
  <2> QED
    BY <2>1, <2>2, <2>3, <2>4, <2>5, <2>6 DEF Next
<1> QED
  BY <1>1, InitInv, PTL DEF Spec

-----------------------------------------------------------------------------
(* The theorems *)

(* What is kept of a run in memory, live or read back from a file that may  *)
(* have been spoilt, is a run: its times are never negative, and its        *)
(* extremes are never negative and over a positive denominator, for every   *)
(* limit, every battery and every precision of the file (test-run.c:167-231,*)
(* 628-720).                                                                *)
THEOREM TypeCorrect == Spec => []TypeOK
<1>1. IInv => TypeOK
  BY DEF IInv
<1> QED
  BY <1>1, Invariance, PTL

(* The readings a file gives are those that were written to it, in order    *)
(* and as rounded, and all of them if they are spaced widely enough         *)
(* (gbb_test_run_write_to_file, read_from_file; test-run.c:374-402,         *)
(* 628-720).                                                                *)
LEMMA FileFaithful ==
  ASSUME IInv, file \notin {NoFile, Scratch},
         \A i \in DOMAIN file.log : file.log[i] # Wrong,
         NEW got \in ReadFromFile(file)
  PROVE  LET n == Len(file.log) IN
         /\ got.duration = run.duration
         /\ WellSpaced(run, n) => got.history = Expected(run, n)
         /\ \A j \in DOMAIN got.history : \E i \in j..n :
              /\ got.history[j].time = Expected(run, n)[i].time
              /\ Known(run.history[i].energy_now) =>
                   got.history[j].energy_now = Expected(run, n)[i].energy_now
<1>1. PICK n \in 1..Len(run.history) : Holds(file, run, n)
  BY DEF IInv
<1>2. run \in Run /\ Measured(run)
  BY DEF IInv, TypeOK
<1>3. file \in File /\ Len(file.log) = n /\ file.duration = run.duration
  BY <1>1 DEF Holds
<1>4. got \in Run /\ got.duration = run.duration
  BY <1>3, ReadRuns
<1>5. WellSpaced(run, n) => got.history = Expected(run, n)
  BY <1>1, <1>2, ReadExactly
<1>6. ASSUME NEW j \in DOMAIN got.history
      PROVE  \E i \in j..n : /\ got.history[j].time = Expected(run, n)[i].time
                             /\ Known(run.history[i].energy_now) =>
                                  got.history[j].energy_now = Expected(run, n)[i].energy_now
  <2>1. got.history \in Seq(Reading) /\ j \in 1..Len(got.history) /\ j \in Nat \ {0}
    BY <1>4, RunFields
  <2>2. PICK i \in j..n : From(got.history[j], run.history, i)
    BY <1>1, <1>2, <2>1, ReadContents DEF Traced
  <2>3. n \in 0..Len(run.history) /\ i \in 1..n
    BY <1>2, <2>1, RunFields
  <2>4. Expected(run, n)[i] = Rounded(run.history, i)
    BY <1>2, <2>3, ExpectedSeq
  <2> QED
    BY <2>2, <2>4 DEF From
<1> QED
  BY <1>3, <1>4, <1>5, <1>6

(* A run that was written can be read back: for every spacing of the        *)
(* readings, every energy and every precision of the file.                  *)
THEOREM AlwaysReadBackFaithful == Spec => []ReadBackFaithful
<1>1. IInv => ReadBackFaithful
  BY FileFaithful DEF ReadBackFaithful
<1> QED
  BY <1>1, Invariance, PTL

(* The readings of a run can be drawn in the chart of the charge. *)
Fits(r) ==
  \A i \in 1..Len(r.history) : Charged(r.history[i]) =>
    /\ r.history[i].energy_now \in Nat /\ r.history[i].energy_full \in Nat \ {0}
    /\ r.history[i].energy_now <= r.history[i].energy_full

LEMMA LiveFits ==
  ASSUME NEW r \in Run, Measured(r)
  PROVE  Dated(r) /\ (NeverOverfull => Fits(r))
<1>1. Dated(r)
  BY MeasuredFields DEF Dated
<1>2. ASSUME NeverOverfull, NEW i \in 1..Len(r.history), Charged(r.history[i])
      PROVE  /\ r.history[i].energy_now \in Nat /\ r.history[i].energy_full \in Nat \ {0}
             /\ r.history[i].energy_now <= r.history[i].energy_full
  <2> DEFINE s == r.history[i]
             c == [full |-> s.energy_full, design |-> s.energy_full_design]
  <2>1. s.energy_now \in Amount /\ s.energy_full \in Capacity
    BY MeasuredFields
  <2>2. s.energy_now \in Energies /\ c \in Capacities /\ c.full = s.energy_full
    BY DEF Measured
  <2>3. Known(s.energy_now) /\ Known(s.energy_full) /\ s.energy_full # 0
    BY <1>2 DEF Charged
  <2> HIDE DEF s, c
  <2>4. s.energy_now \in Nat /\ s.energy_full \in Nat \ {0}
    BY <2>1, <2>3 DEF Amount, Capacity, Known
  <2>5. s.energy_now <= c.full
    BY <1>2, <2>2, <2>3 DEF NeverOverfull
  <2> QED
    BY <2>2, <2>4, <2>5 DEF s
<1> QED
  BY <1>1, <1>2 DEF Fits

(* The chart of the charge *)
LEMMA ChargeInside ==
  ASSUME NEW r \in Run, UsesUp(r), NeverOverfull => Fits(r), NEW p \in Curve(r),
         \/ p.charged /\ NeverOverfull
         \/ r.duration.type = "PERCENT" /\ Discharging(r)
  PROVE  /\ p.charged
         /\ AtMost(Zero, p.percent) /\ AtMost(p.percent, Quotient(100, 1))
<1> DEFINE h == r.history
<1>1. PICK i \in 2..Len(h) : p.percent = Percent(h[i]) /\ p.charged = Charged(h[i])
  BY DEF Curve
<1>2. /\ i \in 1..Len(h) /\ 1 \in 1..Len(h) /\ Len(h) > 1
      /\ h[i] \in Reading /\ h[1] \in Reading
  BY <1>1, RunFields
<1>3. /\ h[i].energy_now \in Nat /\ h[i].energy_full \in Nat \ {0}
      /\ h[i].energy_now <= h[i].energy_full
  <2>1. CASE p.charged /\ NeverOverfull
    BY <1>1, <1>2, <2>1 DEF Fits
  <2>2. CASE r.duration.type = "PERCENT" /\ Discharging(r)
    <3>1. /\ h[1].energy_now \in Nat /\ h[i].energy_now \in Nat
          /\ h[i].energy_now < h[1].energy_now
          /\ h[i].energy_full = h[1].energy_full
      BY <1>1, <1>2, <2>2 DEF UsesUp
    <3>2. Percent(h[1]) # NaN /\ h[1].energy_now <= h[1].energy_full
      BY <2>2 DEF Discharging, T!StartState
    <3>3. h[1].energy_full # NaN /\ h[1].energy_full # 0
      BY <3>2 DEF Percent
    <3>4. h[1].energy_full \in Int
      BY <1>2, <3>3 DEF Reading
    <3> QED
      BY <3>1, <3>2, <3>3, <3>4
  <2> QED
    BY <2>1, <2>2
<1> QED
  BY <1>1, <1>2, <1>3, PercentInside

(* The charts of one run *)
LEMMA RunInside ==
  ASSUME IInv, shown # "none", Shown(shown) \in Run, Extremes(Shown(shown)),
         UsesUp(Shown(shown)), Dated(Shown(shown)), NeverOverfull => Fits(Shown(shown))
  PROVE  CurveInsideChart
<1> DEFINE r == Shown(shown)
           Covered(p) ==
             \/ r.duration.type = "TIME" /\ p.x <= r.duration.limit + r.loop_time
             \/ r.duration.type = "PERCENT" /\ Discharging(r)
           Sound(p) ==
             \/ p.charged /\ NeverOverfull
             \/ r.duration.type = "PERCENT" /\ Discharging(r)
<1>1. ranges = UpdateChartRanges(r)
  BY DEF IInv
<1>2. ASSUME NEW p \in Curve(r)
      PROVE  /\ AtMost(p.power, Quotient(ranges.max_y_power, 1)) \/ ranges.max_y_power = 100
             /\ AtMost(p.life, Quotient(ranges.max_y_life, 1)) \/ ranges.max_y_life = 2880 * Minute
             /\ p.power # Unknown => AtMost(Zero, p.power)
             /\ p.life # Unknown => AtMost(Zero, p.life)
  BY <1>1, CurvesInside
<1>3. ASSUME NEW p \in Curve(r)
      PROVE  Covered(p) => p.x <= ranges.max_x \/ ranges.max_x = 2880 * Minute
  <2>1. CASE r.duration.type = "TIME"
    BY <1>1, <2>1, LoopInside
  <2>2. CASE r.duration.type = "PERCENT"
    BY <1>1, <2>2, BatteryInside
  <2> QED
    BY <2>1, <2>2, RunFields
<1>4. ASSUME NEW p \in Curve(r)
      PROVE  p.x >= 0
  <2>1. PICK i \in 2..Len(r.history) : p.x = r.history[i].time - r.history[1].time
    BY DEF Curve
  <2>2. /\ i \in 1..Len(r.history) /\ 1 \in 1..Len(r.history)
        /\ r.history[i] \in Reading /\ r.history[1] \in Reading
    BY RunFields
  <2>3. r.history[1].time <= r.history[i].time
    BY <2>2 DEF Dated
  <2>4. r.history[1].time \in Nat /\ r.history[i].time \in Nat
    BY <2>2 DEF Reading
  <2> QED
    BY <2>1, <2>3, <2>4
<1>5. ASSUME NEW p \in Curve(r)
      PROVE  Sound(p) => /\ p.charged
                         /\ AtMost(Zero, p.percent) /\ AtMost(p.percent, Quotient(100, 1))
  BY <1>5, ChargeInside
<1> QED
  BY <1>2, <1>3, <1>4, <1>5 DEF CurveInsideChart

(* What is known of the run that is going on is drawn inside the charts,    *)
(* for every limit, loop and battery: power and life at the bottom and at   *)
(* the top, the charge if the battery is not overfull or the charge is what *)
(* limits the run (on_run_updated and update_chart_ranges,                  *)
(* power-graphs.c:84-146; the extremes of test_run_add_internal).           *)
THEOREM LiveCurveAlwaysInside == Spec => [](shown # "loaded" => CurveInsideChart)
<1>1. ASSUME IInv, shown # "loaded"
      PROVE  CurveInsideChart
  <2>1. CASE shown = "none"
    BY <2>1 DEF CurveInsideChart
  <2>2. CASE shown = "live"
    <3>1. run \in Run /\ Measured(run) /\ Extremes(run) /\ UsesUp(run) /\ Shown(shown) = run
      BY <1>1, <2>2 DEF IInv, TypeOK, Shown
    <3> QED
      BY <1>1, <2>2, <3>1, LiveFits, RunInside
  <2> QED
    BY <1>1, <2>1, <2>2 DEF IInv, TypeOK
<1>2. IInv => (shown # "loaded" => CurveInsideChart)
  BY <1>1
<1> QED
  BY <1>2, Invariance, PTL

(* So is what is known of a run that was read back, if the battery reports  *)
(* whole millionths of a Wh.  What is rounded can fall to the filter, and   *)
(* what is read next then starts from freed memory (test-run.c:694), which  *)
(* does not bound the time axis of a run that is limited by charge.         *)
THEOREM CurveAlwaysInside ==
  ASSUME WholeMicros
  PROVE  Spec => []CurveInsideChart
<1>1. ASSUME IInv
      PROVE  CurveInsideChart
  <2>1. CASE shown = "none"
    BY <2>1 DEF CurveInsideChart
  <2>2. CASE shown = "live"
    <3>1. run \in Run /\ Measured(run) /\ Extremes(run) /\ UsesUp(run) /\ Shown(shown) = run
      BY <1>1, <2>2 DEF IInv, TypeOK, Shown
    <3> QED
      BY <1>1, <2>2, <3>1, LiveFits, RunInside
  <2>3. CASE shown = "loaded"
    <3>1. /\ loaded # NoRun /\ loaded \in Run /\ Extremes(loaded) /\ UsesUp(loaded)
          /\ Dated(loaded) /\ HeldRun(loaded) /\ Shown(shown) = loaded
      BY <1>1, <2>3 DEF IInv, TypeOK, Shown
    <3>2. NeverOverfull => Fits(loaded)
      BY <3>1, HeldFits DEF Fits, HeldRun
    <3> QED
      BY <1>1, <2>3, <3>1, <3>2, RunInside
  <2> QED
    BY <1>1, <2>1, <2>2, <2>3 DEF IInv, TypeOK
<1>2. IInv => CurveInsideChart
  BY <1>1
<1> QED
  BY <1>2, Invariance, PTL
==============================================================================
