---------------------------- MODULE TaxYearProofs ----------------------------
(***************************************************************************)
(* Theorems about Statutory and TaxYear, for any number of workers, runs,   *)
(* rate versions and requests, any bands and columns an administrator may   *)
(* enter, any sheets, edits and evidence.                                   *)
(*                                                                          *)
(* The sums (the tax below a threshold, what a worker's runs have used) are *)
(* recursive functions: Totals states once what they are, the lemmas after  *)
(* it how a total follows its terms.                                        *)
(***************************************************************************)
EXTENDS TaxYear, Least, FiniteSetTheorems, SequenceTheorems, TLAPS

-----------------------------------------------------------------------------
(* Totals *)

(* A total has its partial sums.                                             *)
LEMMA Totals ==
    ASSUME NEW n \in Nat, NEW f \in [1..n -> Int]
    PROVE  \E u \in [0..n -> Int] :
              u[0] = 0 /\ u[n] = Total(n, f) /\ \A k \in 1..n : u[k] = u[k - 1] + f[k]
<1> DEFINE Is(u, m) == u = [k \in 0..m |-> IF k = 0 THEN 0 ELSE u[k - 1] + f[k]]
           good == {m \in 0..n : \E u : Is(u, m)}
<1>1. Total(n, f) = (CHOOSE u : Is(u, n))[n]
  BY DEF Total
<1>2. 0 \in good
  <2> DEFINE u == [k \in 0..0 |-> 0]
  <2>1. Is(u, 0)
    OBVIOUS
  <2> HIDE DEF u, Is
  <2> QED BY <2>1
<1>3. ASSUME NEW m \in 1..n, m - 1 \in good PROVE m \in good
  <2>1. PICK u : Is(u, m - 1)
    BY <1>3
  <2> DEFINE g == [k \in 0..m |-> IF k = m THEN u[m - 1] + f[m] ELSE u[k]]
  <2>2. \A k \in 0..m - 1 : u[k] = IF k = 0 THEN 0 ELSE u[k - 1] + f[k]
    BY <2>1
  <2>3. \A k \in 0..m - 1 : g[k] = u[k]
    OBVIOUS
  <2>4. g[m] = g[m - 1] + f[m] /\ m # 0
    BY <2>3
  <2>5. \A k \in 0..m : g[k] = IF k = 0 THEN 0 ELSE g[k - 1] + f[k]
    <3> HIDE DEF g
    <3> QED BY <2>2, <2>3, <2>4
  <2>6. Is(g, m)
    <3>1. g = [k \in 0..m |-> g[k]]
      OBVIOUS
    <3> HIDE DEF g
    <3> QED BY <2>5, <3>1
  <2> HIDE DEF g, Is
  <2> QED BY <2>6
<1>4. n \in good
  <2> HIDE DEF good
  <2>1. \A i \in 0..n : i \in good
    BY <1>2, <1>3, HoldsUpTo
  <2> QED BY <2>1
<1> DEFINE u == CHOOSE u : Is(u, n)
<1>5. Is(u, n)
  BY <1>4
<1>6. u[n] = Total(n, f)
  BY <1>1
<1> HIDE DEF u
<1>7. u[0] = 0 /\ \A k \in 1..n : u[k] = u[k - 1] + f[k]
  BY <1>5
<1>8. \A k \in 0..n : u[k] \in Int
  <2> DEFINE ok == {k \in 0..n : u[k] \in Int}
  <2>1. 0 \in ok /\ \A k \in 1..n : k - 1 \in ok => k \in ok
    BY <1>7
  <2> HIDE DEF ok
  <2>2. \A k \in 0..n : k \in ok
    BY <2>1, HoldsUpTo
  <2> QED BY <2>2 DEF ok
<1>9. u = [k \in 0..n |-> u[k]]
  BY <1>5
<1>10. u \in [0..n -> Int]
  BY <1>8, <1>9
<1> QED BY <1>6, <1>7, <1>10

LEMMA TotalIsInt == ASSUME NEW n \in Nat, NEW f \in [1..n -> Int] PROVE Total(n, f) \in Int
BY Totals

(* A larger term makes a total no smaller.                                   *)
LEMMA TotalsGrow ==
    ASSUME NEW n \in Nat, NEW f \in [1..n -> Int], NEW g \in [1..n -> Int],
           \A k \in 1..n : f[k] <= g[k]
    PROVE  Total(n, f) <= Total(n, g)
<1>1. PICK u \in [0..n -> Int] : u[0] = 0 /\ u[n] = Total(n, f) /\ \A k \in 1..n : u[k] = u[k - 1] + f[k]
  BY Totals
<1>2. PICK t \in [0..n -> Int] : t[0] = 0 /\ t[n] = Total(n, g) /\ \A k \in 1..n : t[k] = t[k - 1] + g[k]
  BY Totals
<1> DEFINE ok == {k \in 0..n : u[k] <= t[k]}
<1>3. 0 \in ok
  BY <1>1, <1>2
<1>4. ASSUME NEW k \in 1..n, k - 1 \in ok PROVE k \in ok
  <2>1. u[k - 1] <= t[k - 1] /\ f[k] <= g[k] /\ u[k] = u[k - 1] + f[k] /\ t[k] = t[k - 1] + g[k]
    BY <1>1, <1>2, <1>4
  <2>2. u[k - 1] \in Int /\ t[k - 1] \in Int /\ f[k] \in Int /\ g[k] \in Int
    OBVIOUS
  <2> QED BY <2>1, <2>2
<1>5. \A k \in 0..n : k \in ok
  <2> HIDE DEF ok
  <2> QED BY <1>3, <1>4, HoldsUpTo
<1> QED BY <1>1, <1>2, <1>5

(* Where one term differs, the total differs by as much.                     *)
LEMMA TotalsDiffer ==
    ASSUME NEW n \in Nat, NEW f \in [1..n -> Int], NEW g \in [1..n -> Int], NEW j \in 1..n,
           \A k \in 1..n : k # j => f[k] = g[k]
    PROVE  Total(n, g) = Total(n, f) + g[j] - f[j]
<1>1. PICK u \in [0..n -> Int] : u[0] = 0 /\ u[n] = Total(n, f) /\ \A k \in 1..n : u[k] = u[k - 1] + f[k]
  BY Totals
<1>2. PICK t \in [0..n -> Int] : t[0] = 0 /\ t[n] = Total(n, g) /\ \A k \in 1..n : t[k] = t[k - 1] + g[k]
  BY Totals
<1> DEFINE ok == {k \in 0..n : t[k] = IF k < j THEN u[k] ELSE u[k] + g[j] - f[j]}
<1>3. 0 \in ok
  BY <1>1, <1>2
<1>4. ASSUME NEW k \in 1..n, k - 1 \in ok PROVE k \in ok
  <2>1. u[k] = u[k - 1] + f[k] /\ t[k] = t[k - 1] + g[k] /\ k - 1 \in 0..n
    BY <1>1, <1>2
  <2>2. u[k - 1] \in Int /\ t[k - 1] \in Int /\ f[k] \in Int /\ g[k] \in Int /\ g[j] \in Int /\ f[j] \in Int
    OBVIOUS
  <2>3. t[k - 1] = IF k - 1 < j THEN u[k - 1] ELSE u[k - 1] + g[j] - f[j]
    BY <1>4
  <2>4. CASE k < j
    BY <2>1, <2>2, <2>3, <2>4
  <2>5. CASE k = j
    BY <2>1, <2>2, <2>3, <2>5
  <2>6. CASE k > j
    BY <2>1, <2>2, <2>3, <2>6
  <2> QED BY <2>4, <2>5, <2>6
<1>5. \A k \in 0..n : k \in ok
  <2> HIDE DEF ok
  <2> QED BY <1>3, <1>4, HoldsUpTo
<1>6. t[n] = u[n] + g[j] - f[j]
  BY <1>5
<1> QED BY <1>1, <1>2, <1>6

LEMMA TotalOfNone ==
    ASSUME NEW n \in Nat, NEW f \in [1..n -> Int], \A k \in 1..n : f[k] = 0
    PROVE  Total(n, f) = 0
<1>1. PICK u \in [0..n -> Int] : u[0] = 0 /\ u[n] = Total(n, f) /\ \A k \in 1..n : u[k] = u[k - 1] + f[k]
  BY Totals
<1> DEFINE ok == {k \in 0..n : u[k] = 0}
<1>2. 0 \in ok /\ \A k \in 1..n : k - 1 \in ok => k \in ok
  BY <1>1
<1>3. \A k \in 0..n : k \in ok
  <2> HIDE DEF ok
  <2> QED BY <1>2, HoldsUpTo
<1> QED BY <1>1, <1>3

-----------------------------------------------------------------------------
(* Rounding *)

(* money() is within half a unit, and exact on whole units.                  *)
LEMMA MoneyIsNear ==
    ASSUME NEW n \in Int
    PROVE  /\ Money(n) \in Int
           /\ 2 * Money(n) * Thousand <= 2 * n + Thousand
           /\ 2 * n - Thousand <= 2 * Money(n) * Thousand
<1>1. CASE n >= 0
  <2> DEFINE q == (2 * n + 1000) \div 2000
  <2>1. q \in Int /\ 2000 * q <= 2 * n + 1000 /\ 2 * n + 1000 < 2000 * q + 2000
    BY <1>1
  <2>2. Money(n) = q
    BY <1>1 DEF Money, Thousand
  <2> HIDE DEF q
  <2> QED BY <2>1, <2>2 DEF Thousand
<1>2. CASE n < 0
  <2> DEFINE q == (2 * (-n) + 1000) \div 2000
  <2>1. q \in Int /\ 2000 * q <= 2 * (-n) + 1000 /\ 2 * (-n) + 1000 < 2000 * q + 2000
    BY <1>2
  <2>2. Money(n) = -q
    BY <1>2 DEF Money, Thousand
  <2> HIDE DEF q
  <2> QED BY <2>1, <2>2 DEF Thousand
<1> QED BY <1>1, <1>2

LEMMA MoneyOfWhole == ASSUME NEW n \in Int PROVE n * Thousand \in Int /\ Money(n * Thousand) = n
<1>1. n * Thousand \in Int
  BY DEF Thousand
<1>2. Money(n * Thousand) \in Int /\ 2 * Money(n * Thousand) * Thousand <= 2 * (n * Thousand) + Thousand
      /\ 2 * (n * Thousand) - Thousand <= 2 * Money(n * Thousand) * Thousand
  BY <1>1, MoneyIsNear
<1> DEFINE m == Money(n * Thousand)
<1>3. m \in Int /\ 2000 * m <= 2000 * n + 1000 /\ 2000 * n - 1000 <= 2000 * m
  BY <1>2 DEF Thousand
<1> HIDE DEF m
<1>4. m = n
  BY <1>3
<1> QED BY <1>1, <1>4 DEF m

(* round(x, 2) is too.                                                       *)
LEMMA RoundEvenIsNear ==
    ASSUME NEW n \in Int
    PROVE  /\ RoundEven(n) \in Int
           /\ 2 * RoundEven(n) * Thousand <= 2 * n + Thousand
           /\ 2 * n - Thousand <= 2 * RoundEven(n) * Thousand
<1> DEFINE down == n \div 1000
           rest == n % 1000
<1>1. down \in Int /\ rest \in 0..999 /\ n = 1000 * down + rest
  OBVIOUS
<1>2. RoundEven(n) = IF 2 * rest > 1000 \/ (2 * rest = 1000 /\ down % 2 = 1) THEN down + 1 ELSE down
  BY DEF RoundEven, Thousand
<1> HIDE DEF down, rest
<1>3. CASE 2 * rest > 1000 \/ (2 * rest = 1000 /\ down % 2 = 1)
  <2>1. RoundEven(n) = down + 1 /\ 2 * rest >= 1000
    BY <1>1, <1>2, <1>3
  <2> QED BY <1>1, <2>1 DEF Thousand
<1>4. CASE ~(2 * rest > 1000 \/ (2 * rest = 1000 /\ down % 2 = 1))
  <2>1. RoundEven(n) = down /\ 2 * rest <= 1000
    BY <1>1, <1>2, <1>4
  <2> QED BY <1>1, <2>1 DEF Thousand
<1> QED BY <1>3, <1>4

-----------------------------------------------------------------------------
(* PAYE bands *)

(* The thresholds of accepted rows, and where a band ends below an income.   *)
LEMMA RowsAre ==
    ASSUME NEW rows \in Seq(Int \X Int), RowsAccepted(rows)
    PROVE  /\ Len(rows) \in Nat /\ DOMAIN rows = 1..Len(rows)
           /\ \A i \in DOMAIN rows : rows[i][1] \in Nat /\ rows[i][2] \in Int
           /\ Overs(rows) \subseteq Nat
           /\ \A i \in DOMAIN rows : rows[i][1] \in Overs(rows)
<1>1. Len(rows) \in Nat /\ DOMAIN rows = 1..Len(rows) /\ \A i \in DOMAIN rows : rows[i] \in Int \X Int
  OBVIOUS
<1>2. \A i \in DOMAIN rows : rows[i][1] \in Int /\ rows[i][2] \in Int /\ rows[i][1] >= 0
  BY <1>1 DEF RowsAccepted
<1> QED BY <1>1, <1>2 DEF Overs

LEMMA MinIs ==
    ASSUME NEW T \in SUBSET Nat, NEW x \in T, \A y \in T : x <= y
    PROVE  Min(T) = x
<1>1. Min(T) \in T /\ \A y \in T : Min(T) <= y
  BY DEF Min
<1>2. Min(T) \in Nat /\ x \in Nat /\ Min(T) <= x /\ x <= Min(T)
  BY <1>1
<1> QED BY <1>2

LEMMA WidthIsInt ==
    ASSUME NEW rows \in Seq(Int \X Int), RowsAccepted(rows), NEW over \in Nat, NEW upto \in Nat
    PROVE  WidthBelow(rows, over, upto) \in Int
<1> DEFINE T == {o \in Overs(rows) : o > over} \cup {upto}
<1>1. T \in SUBSET Nat /\ T # {}
  BY RowsAre
<1>2. Min(T) \in T
  <2> HIDE DEF T
  <2> QED BY <1>1, MinIsMember
<1>3. Min(T) \in Nat
  BY <1>1, <1>2
<1> QED BY <1>3 DEF WidthBelow

Terms(rows, upto) ==
    [i \in DOMAIN rows |->
        IF rows[i][1] < upto THEN WidthBelow(rows, rows[i][1], upto) * rows[i][2] ELSE 0]

LEMMA TermsAre ==
    ASSUME NEW rows \in Seq(Int \X Int), RowsAccepted(rows), NEW upto \in Nat
    PROVE  /\ Terms(rows, upto) \in [1..Len(rows) -> Int]
           /\ TaxBelow(rows, upto) = Total(Len(rows), Terms(rows, upto))
           /\ TaxBelow(rows, upto) \in Int
<1>1. ASSUME NEW i \in DOMAIN rows PROVE Terms(rows, upto)[i] \in Int
  <2>1. WidthBelow(rows, rows[i][1], upto) \in Int /\ rows[i][2] \in Int
    BY RowsAre, WidthIsInt
  <2>2. WidthBelow(rows, rows[i][1], upto) * rows[i][2] \in Int
    BY <2>1
  <2> QED BY <2>2 DEF Terms
<1>2. Terms(rows, upto) \in [1..Len(rows) -> Int]
  BY <1>1, RowsAre DEF Terms
<1>3. TaxBelow(rows, upto) = Total(Len(rows), Terms(rows, upto))
  BY DEF TaxBelow, Terms
<1> QED BY <1>2, <1>3, TotalIsInt, RowsAre

(* Above the highest threshold that is reached, tax grows by its rate.       *)
LEMMA TaxGrows ==
    ASSUME NEW rows \in Seq(Int \X Int), RowsAccepted(rows), NEW t \in Nat, NEW j \in DOMAIN rows,
           rows[j][1] <= t, \A i \in DOMAIN rows : rows[i][1] <= t => rows[i][1] <= rows[j][1]
    PROVE  TaxBelow(rows, t) = TaxBelow(rows, rows[j][1]) + (t - rows[j][1]) * rows[j][2]
<1> DEFINE o == rows[j][1]
           n == Len(rows)
           f == Terms(rows, o)
           g == Terms(rows, t)
<1>1. n \in Nat /\ DOMAIN rows = 1..n /\ o \in Nat
  BY RowsAre
<1>2. f \in [1..n -> Int] /\ g \in [1..n -> Int]
  BY <1>1, TermsAre
<1>3. f[j] = 0
  BY <1>1 DEF Terms
<1>4. g[j] = (t - o) * rows[j][2]
  <2>1. CASE o < t
    <3> DEFINE T == {p \in Overs(rows) : p > o} \cup {t}
    <3>1. T \in SUBSET Nat /\ t \in T
      BY RowsAre
    <3>2. ASSUME NEW y \in Overs(rows), y > o PROVE t <= y
      <4>1. PICK i \in DOMAIN rows : rows[i][1] = y
        BY DEF Overs
      <4>2. y \in Nat
        BY RowsAre
      <4>3. ~(y <= o)
        BY <1>1, <3>2, <4>2
      <4>4. y <= t => y <= o
        BY <4>1
      <4> HIDE DEF o
      <4> QED BY <4>2, <4>3, <4>4
    <3>3. Min(T) = t
      <4>1. \A y \in T : t <= y
        BY <3>2
      <4> HIDE DEF T
      <4> QED BY <3>1, <4>1, MinIs
    <3>4. WidthBelow(rows, o, t) = t - o
      BY <3>3 DEF WidthBelow
    <3>5. g[j] = WidthBelow(rows, o, t) * rows[j][2]
      BY <2>1 DEF Terms
    <3> QED BY <3>4, <3>5
  <2>2. CASE o = t
    <3>1. g[j] = 0
      BY <2>2, <1>1 DEF Terms
    <3>2. rows[j][2] \in Int
      BY RowsAre
    <3>3. (t - o) * rows[j][2] = 0
      BY <2>2, <3>2
    <3> QED BY <3>1, <3>3
  <2> QED BY <1>1, <2>1, <2>2
<1>5. ASSUME NEW i \in 1..n, i # j PROVE f[i] = g[i]
  <2> DEFINE p == rows[i][1]
  <2>1. p \in Nat /\ p # o /\ p \in Overs(rows)
    BY <1>1, <1>5, RowsAre DEF RowsAccepted
  <2>2. f[i] = (IF p < o THEN WidthBelow(rows, p, o) * rows[i][2] ELSE 0)
        /\ g[i] = (IF p < t THEN WidthBelow(rows, p, t) * rows[i][2] ELSE 0)
    BY <1>1 DEF Terms
  <2>3. CASE p < o
    <3> DEFINE T == {q \in Overs(rows) : q > p}
    <3>1. T \in SUBSET Nat /\ o \in T
      BY <2>3, RowsAre
    <3>2. PICK x \in T : \A y \in T : x <= y
      <4> HIDE DEF T
      <4> QED BY <3>1, LeastExists
    <3>3. x <= o /\ x <= t /\ x \in Nat
      BY <1>1, <3>1, <3>2
    <3>4. Min(T \cup {o}) = x /\ Min(T \cup {t}) = x
      <4> HIDE DEF T, o
      <4>1. T \cup {o} \in SUBSET Nat /\ T \cup {t} \in SUBSET Nat
        BY <3>1, <1>1
      <4>2. \A y \in T \cup {o} : x <= y
        BY <3>2, <3>3
      <4>3. \A y \in T \cup {t} : x <= y
        BY <3>2, <3>3
      <4> QED BY <4>1, <4>2, <4>3, <3>2, MinIs
    <3>5. WidthBelow(rows, p, o) = WidthBelow(rows, p, t)
      BY <3>4 DEF WidthBelow
    <3> QED BY <1>1, <2>1, <2>2, <2>3, <3>5
  <2>4. CASE p > o
    <3>1. p > t
      BY <1>1, <2>1, <2>4
    <3> QED BY <1>1, <2>1, <2>2, <2>4, <3>1
  <2> QED BY <1>1, <2>1, <2>3, <2>4
<1>6. Total(n, g) = Total(n, f) + g[j] - f[j]
  <2> HIDE DEF n, f, g
  <2> QED BY <1>1, <1>2, <1>5, TotalsDiffer
<1>7. TaxBelow(rows, o) = Total(n, f) /\ TaxBelow(rows, t) = Total(n, g)
  BY <1>1, TermsAre
<1>8. Total(n, f) \in Int /\ g[j] \in Int
  BY <1>1, <1>2, TotalIsInt
<1> HIDE DEF n, f, g
<1> QED BY <1>3, <1>4, <1>6, <1>7, <1>8

(* Below every threshold there is no tax.                                    *)
LEMMA NoTax ==
    ASSUME NEW rows \in Seq(Int \X Int), RowsAccepted(rows), NEW t \in Nat,
           \A i \in DOMAIN rows : rows[i][1] > t
    PROVE  TaxBelow(rows, t) = 0
<1>1. \A i \in 1..Len(rows) : Terms(rows, t)[i] = 0
  BY RowsAre DEF Terms
<1> QED BY <1>1, TermsAre, TotalOfNone, RowsAre

(* compute_paye finds the highest band that is reached.                      *)
LEMMA HighestReached ==
    ASSUME NEW bands \in SUBSET Band, NEW t \in Int, NEW b0 \in bands, t >= b0.over
    PROVE  \E b \in bands :
              /\ t >= b.over
              /\ \A c \in bands : t >= c.over => b.over >= c.over
              /\ ComputePaye(bands, t) = Money((t - b.over) * b.rate + b.base * Thousand)
<1> DEFINE reached == {b \in bands : t >= b.over}
           T == {t - b.over : b \in reached}
<1>1. \A b \in bands : b.over \in Nat
  BY DEF Band
<1>2. T \in SUBSET Nat /\ T # {}
  <2>1. b0 \in reached
    OBVIOUS
  <2>2. ASSUME NEW b \in reached PROVE t - b.over \in Nat
    BY <1>1
  <2> QED BY <2>1, <2>2
<1>3. PICK x \in T : \A y \in T : x <= y
  <2> HIDE DEF T
  <2> QED BY <1>2, LeastExists
<1>4. PICK b \in reached : x = t - b.over
  BY <1>3
<1>5. ASSUME NEW c \in reached PROVE b.over >= c.over
  <2>1. t - c.over \in T
    OBVIOUS
  <2>2. t - b.over <= t - c.over
    BY <1>3, <1>4, <2>1
  <2> QED BY <1>1, <2>2
<1> DEFINE h == CHOOSE y \in reached : \A c \in reached : y.over >= c.over
<1>6. h \in reached /\ \A c \in reached : h.over >= c.over
  BY <1>5
<1>7. ComputePaye(bands, t) = Money((t - h.over) * h.rate + h.base * Thousand)
  BY DEF ComputePaye
<1> HIDE DEF h
<1> QED BY <1>6, <1>7

LEMMA PayeIsInt ==
    ASSUME NEW bands \in SUBSET Band, NEW t \in Int
    PROVE  ComputePaye(bands, t) \in Int
<1>1. CASE {b \in bands : t >= b.over} = {}
  BY <1>1 DEF ComputePaye
<1>2. ASSUME NEW b0 \in bands, t >= b0.over PROVE ComputePaye(bands, t) \in Int
  <2>1. PICK b \in bands : ComputePaye(bands, t) = Money((t - b.over) * b.rate + b.base * Thousand)
    BY <1>2, HighestReached
  <2>2. b.over \in Int /\ b.rate \in Int /\ b.base \in Int
    BY DEF Band
  <2>3. (t - b.over) * b.rate + b.base * Thousand \in Int
    BY <2>2 DEF Thousand
  <2> QED BY <2>1, <2>3, MoneyIsNear
<1> QED BY <1>1, <1>2

LEMMA BandsAre ==
    ASSUME NEW rows \in Seq(Int \X Int), RowsAccepted(rows)
    PROVE  BandsFromRows(rows) \in SUBSET Band
<1>1. ASSUME NEW i \in DOMAIN rows PROVE RoundEven(TaxBelow(rows, rows[i][1])) \in Int
  BY RowsAre, TermsAre, RoundEvenIsNear
<1> QED BY <1>1, RowsAre DEF BandsFromRows, Band

(* The bands tax any income as the rows say, within a pesewa.                *)
LEMMA BandsAreMarginal ==
    ASSUME NEW rows \in Seq(Int \X Int), RowsAccepted(rows), NEW t \in Nat
    PROVE  Distance(ComputePaye(BandsFromRows(rows), t) * Thousand, TaxBelow(rows, t)) <= Thousand
<1> DEFINE bands == BandsFromRows(rows)
<1>1. bands \in SUBSET Band
  BY BandsAre
<1>2. \A b \in bands : \E i \in DOMAIN rows : b.over = rows[i][1]
  BY DEF BandsFromRows
<1>3. CASE \E b0 \in bands : t >= b0.over
  <2>1. PICK b \in bands : /\ t >= b.over
                          /\ \A c \in bands : t >= c.over => b.over >= c.over
                          /\ ComputePaye(bands, t) = Money((t - b.over) * b.rate + b.base * Thousand)
    <3> HIDE DEF bands
    <3> QED BY <1>1, <1>3, HighestReached
  <2>2. PICK j \in DOMAIN rows : b = [over |-> rows[j][1], rate |-> rows[j][2],
                                     base |-> RoundEven(TaxBelow(rows, rows[j][1]))]
    BY <2>1 DEF BandsFromRows
  <2> DEFINE o == rows[j][1]
             m == TaxBelow(rows, o)
             grown == (t - o) * rows[j][2]
  <2>3. o \in Nat /\ rows[j][2] \in Int
    BY RowsAre
  <2>4. ASSUME NEW i \in DOMAIN rows, rows[i][1] <= t PROVE rows[i][1] <= o
    <3> DEFINE c == [over |-> rows[i][1], rate |-> rows[i][2],
                     base |-> RoundEven(TaxBelow(rows, rows[i][1]))]
    <3>1. c \in bands /\ c.over = rows[i][1]
      BY DEF BandsFromRows
    <3>2. rows[i][1] \in Nat
      BY RowsAre
    <3>3. t >= c.over
      BY <2>4, <3>1, <3>2
    <3>4. b.over >= c.over /\ b.over = o
      BY <2>1, <2>2, <3>1, <3>3
    <3> QED BY <2>3, <3>1, <3>2, <3>4
  <2>5. TaxBelow(rows, t) = m + grown
    BY <2>1, <2>2, <2>3, <2>4, TaxGrows
  <2>6. m \in Int /\ grown \in Int
    BY <2>3, TermsAre
  <2> DEFINE base == RoundEven(m)
             n == grown + base * Thousand
  <2>7. /\ base \in Int /\ 2 * base * Thousand <= 2 * m + Thousand
        /\ 2 * m - Thousand <= 2 * base * Thousand
    BY <2>6, RoundEvenIsNear
  <2>8. ComputePaye(bands, t) = Money(n)
    BY <2>1, <2>2
  <2> HIDE DEF bands, m, grown, base
  <2>9. n \in Int
    BY <2>6, <2>7 DEF Thousand
  <2>10. Money(n) \in Int /\ 2 * Money(n) * Thousand <= 2 * n + Thousand
         /\ 2 * n - Thousand <= 2 * Money(n) * Thousand
    BY <2>9, MoneyIsNear
  <2> DEFINE x == Money(n)
             y == TaxBelow(rows, t)
  <2>11. x \in Int /\ 2 * x * 1000 <= 2 * n + 1000 /\ 2 * n - 1000 <= 2 * x * 1000
    BY <2>10 DEF Thousand
  <2>12. y \in Int /\ 2 * n <= 2 * y + 1000 /\ 2 * y - 1000 <= 2 * n
    BY <2>5, <2>6, <2>7 DEF Thousand
  <2> HIDE DEF n, x, y
  <2>13. x * 1000 - y <= 1000 /\ y - x * 1000 <= 1000
    BY <2>9, <2>11, <2>12
  <2>14. Distance(x * Thousand, y) <= Thousand
    BY <2>13 DEF Distance, AtLeast, Thousand
  <2> QED BY <2>8, <2>14 DEF x, y, bands
<1>4. CASE ~\E b0 \in bands : t >= b0.over
  <2>1. ComputePaye(bands, t) = 0
    BY <1>4 DEF ComputePaye
  <2>2. ASSUME NEW i \in DOMAIN rows PROVE rows[i][1] > t
    <3> DEFINE c == [over |-> rows[i][1], rate |-> rows[i][2],
                     base |-> RoundEven(TaxBelow(rows, rows[i][1]))]
    <3>1. c \in bands /\ c.over = rows[i][1]
      BY DEF BandsFromRows
    <3>2. rows[i][1] \in Nat
      BY RowsAre
    <3> QED BY <1>4, <3>1, <3>2
  <2>3. TaxBelow(rows, t) = 0
    BY <2>2, NoTax
  <2> QED BY <2>1, <2>3 DEF Distance, AtLeast, Thousand
<1> QED BY <1>3, <1>4

-----------------------------------------------------------------------------
(* The engines *)

LEMMA AwardForIs ==
    ASSUME NEW ev \in Evidence, NEW month \in Int
    PROVE  AwardFor(ev, month) \in Award
<1> DEFINE valid == {i \in DOMAIN ev.awards : ev.awards[i].from <= month /\ month <= ev.awards[i].to}
<1>1. ev.awards \in Seq(Award) /\ ev.roster \in Award
  BY DEF Evidence
<1>2. [from |-> 0, to |-> 0, amount |-> 0, reference |-> FALSE] \in Award
  BY DEF Award
<1>3. ASSUME valid # {} PROVE ev.awards[Max(valid)] \in Award
  <2> DEFINE n == Len(ev.awards)
             T == {n - i : i \in valid}
  <2>1. n \in Nat /\ DOMAIN ev.awards = 1..n
    BY <1>1
  <2>2. T \in SUBSET Nat /\ T # {}
    <3>1. \A i \in valid : n - i \in Nat
      BY <2>1
    <3> QED BY <1>3, <3>1
  <2>3. PICK x \in T : \A y \in T : x <= y
    <3> HIDE DEF T
    <3> QED BY <2>2, LeastExists
  <2>4. PICK j \in valid : x = n - j
    BY <2>3
  <2>5. ASSUME NEW i \in valid PROVE j >= i
    <3>1. n - i \in T
      OBVIOUS
    <3>2. n - j <= n - i
      BY <2>3, <2>4, <3>1
    <3> QED BY <2>1, <3>2
  <2>6. Max(valid) \in valid
    <3> HIDE DEF valid
    <3> QED BY <2>5 DEF Max
  <2>7. Max(valid) \in DOMAIN ev.awards
    BY <2>6
  <2> HIDE DEF valid
  <2> QED BY <1>1, <2>7
<1> QED BY <1>1, <1>2, <1>3 DEF AwardFor

LEMMA OvertimeTaxIsInt ==
    ASSUME NEW rate \in Columns, NEW overtime \in Int, NEW basic \in Int
    PROVE  ComputeOvertimeTax(rate, overtime, basic) \in Int
<1>1. rate.overtimeThreshold \in Int /\ rate.overtimeLow \in Int /\ rate.overtimeHigh \in Int
  BY DEF Columns
<1> DEFINE cap == basic * rate.overtimeThreshold
           low == AtMost(overtime * Thousand, cap)
           high == AtLeast(overtime * Thousand - cap, 0)
<1>2. cap \in Int
  BY <1>1
<1>3. low \in Int /\ high \in Int
  <2> HIDE DEF cap
  <2> QED BY <1>2 DEF AtMost, AtLeast, Thousand
<1>4. (low * rate.overtimeLow + high * rate.overtimeHigh) \div Million \in Int
  <2> HIDE DEF low, high
  <2>1. low * rate.overtimeLow \in Int /\ high * rate.overtimeHigh \in Int
    BY <1>1, <1>3
  <2> QED BY <2>1 DEF Million
<1>5. Money((low * rate.overtimeLow + high * rate.overtimeHigh) \div Million) \in Int
  <2> HIDE DEF low, high
  <2> QED BY <1>4, MoneyIsNear
<1> QED BY <1>5 DEF ComputeOvertimeTax

LEMMA SplitIsInt ==
    ASSUME NEW rate \in Columns, NEW bonus \in Int, NEW basic \in Int, NEW used \in Int
    PROVE  /\ AnnualCap(rate, basic) \in Int
           /\ SplitBonus(rate, bonus, basic, used)[1] \in Int
           /\ SplitBonus(rate, bonus, basic, used)[2] \in Int
<1>1. rate.bonusThreshold \in Int /\ rate.bonusRate \in Int
  BY DEF Columns
<1> DEFINE cap == AnnualCap(rate, basic)
           left == AtLeast(cap - used * Million, 0)
           concession == AtMost(bonus * Thousand, left)
           over == AtLeast(bonus * Thousand - left, 0)
<1>2. cap \in Int
  BY <1>1 DEF AnnualCap
<1>3. left \in Int
  <2> HIDE DEF cap
  <2> QED BY <1>2 DEF AtLeast, Million
<1>4. concession \in Int /\ over \in Int
  <2> HIDE DEF left
  <2> QED BY <1>3 DEF AtLeast, AtMost, Thousand
<1>5. SplitBonus(rate, bonus, basic, used)
        = IF bonus <= 0 THEN <<0, 0>>
          ELSE <<Money((concession * rate.bonusRate) \div Million), Money(over \div Thousand)>>
  BY DEF SplitBonus
<1> HIDE DEF cap, left, concession, over
<1>6. (concession * rate.bonusRate) \div Million \in Int /\ over \div Thousand \in Int
  <2>1. concession * rate.bonusRate \in Int
    BY <1>1, <1>4
  <2> QED BY <1>4, <2>1 DEF Thousand, Million
<1>7. /\ Money((concession * rate.bonusRate) \div Million) \in Int
      /\ Money(over \div Thousand) \in Int
  BY <1>6, MoneyIsNear
<1> QED BY <1>2, <1>5, <1>7 DEF cap

(* What is left of the annual cap bounds what an item uses of it.            *)
LEMMA SplitIs ==
    ASSUME NEW rate \in Columns, NEW bonus \in Int, NEW basic \in Int, NEW used \in Int
    PROVE  2 * (bonus - SplitBonus(rate, bonus * Thousand, basic * Thousand, used)[2]) * Thousand
             <= 2 * AtLeast(AnnualCap(rate, basic) - used * Thousand, 0) + Thousand
<1>1. rate.bonusThreshold \in Int /\ rate.bonusRate \in Int
  BY DEF Columns
<1> DEFINE cap == AnnualCap(rate, basic)
           left == AtLeast(cap - used * Thousand, 0)
           over == AtLeast(bonus * Thousand - left, 0)
           fineCap == AnnualCap(rate, basic * Thousand)
           fineLeft == AtLeast(fineCap - used * Million, 0)
           fineOver == AtLeast((bonus * Thousand) * Thousand - fineLeft, 0)
<1>2. cap \in Int /\ fineCap = 1000 * cap
  <2> DEFINE y == 12 * rate.bonusThreshold
  <2>1. y \in Int
    BY <1>1
  <2>2. cap = basic * y /\ fineCap = (basic * 1000) * y
    BY <1>1 DEF AnnualCap, Thousand
  <2> HIDE DEF y
  <2>3. basic * y \in Int /\ (basic * 1000) * y = 1000 * (basic * y)
    BY <2>1
  <2> HIDE DEF cap, fineCap
  <2> QED BY <2>2, <2>3
<1>3. left \in Int /\ left >= 0 /\ fineLeft = 1000 * left
  <2> HIDE DEF cap, fineCap
  <2> QED BY <1>2 DEF AtLeast, Thousand, Million
<1>4. over \in Int /\ over >= bonus * Thousand - left /\ fineOver = 1000 * over
  <2> HIDE DEF left, fineLeft
  <2> QED BY <1>3 DEF AtLeast, Thousand
<1>5. CASE bonus <= 0
  <2>1. bonus * Thousand <= 0
    BY <1>5 DEF Thousand
  <2>2. SplitBonus(rate, bonus * Thousand, basic * Thousand, used) = <<0, 0>>
    BY <2>1 DEF SplitBonus
  <2> HIDE DEF cap, left
  <2>3. 2 * (bonus - 0) * Thousand <= 2 * left + Thousand
    BY <1>3, <1>5 DEF Thousand
  <2> QED BY <2>2, <2>3 DEF cap, left
<1>6. CASE ~(bonus <= 0)
  <2>1. ~(bonus * Thousand <= 0)
    BY <1>6 DEF Thousand
  <2>2. SplitBonus(rate, bonus * Thousand, basic * Thousand, used)[2] = Money(fineOver \div Thousand)
    BY <2>1 DEF SplitBonus
  <2> HIDE DEF cap, left, over, fineCap, fineLeft, fineOver
  <2>3. fineOver \div Thousand = over
    BY <1>4 DEF Thousand
  <2>4. Money(over) \in Int /\ 2 * over - Thousand <= 2 * Money(over) * Thousand
    BY <1>4, MoneyIsNear
  <2>5. 2 * (bonus - Money(over)) * Thousand <= 2 * left + Thousand
    BY <1>3, <1>4, <2>4 DEF Thousand
  <2> QED BY <2>2, <2>3, <2>5 DEF cap, left
<1> QED BY <1>5, <1>6

(* Rounding, column by column, and back.                                     *)
LEMMA RoundedIs ==
    ASSUME NEW t \in Items
    PROVE  /\ Rounded(t) \in Items
           /\ Rounded(t) = [basic |-> Money(t.basic), allowances |-> Money(t.allowances),
                            difference |-> Money(t.difference), bonus |-> Money(t.bonus),
                            overtime |-> Money(t.overtime), pf |-> Money(t.pf),
                            pfEmployer |-> Money(t.pfEmployer), relief |-> Money(t.relief),
                            loan |-> Money(t.loan), welfare |-> Money(t.welfare),
                            other |-> Money(t.other), advance |-> Money(t.advance),
                            member |-> t.member]
<1> DEFINE m == [basic |-> Money(t.basic), allowances |-> Money(t.allowances),
                 difference |-> Money(t.difference), bonus |-> Money(t.bonus),
                 overtime |-> Money(t.overtime), pf |-> Money(t.pf),
                 pfEmployer |-> Money(t.pfEmployer), relief |-> Money(t.relief),
                 loan |-> Money(t.loan), welfare |-> Money(t.welfare),
                 other |-> Money(t.other), advance |-> Money(t.advance),
                 member |-> t.member]
<1>1. \A n \in Int : Money(n) \in Int
  BY MoneyIsNear
<1>2. m \in Items
  BY <1>1 DEF Items
<1>3. DOMAIN t = DOMAIN m
  BY DEF Items
<1>4. \A c \in DOMAIN t : m[c] = IF c = "member" THEN t[c] ELSE Money(t[c])
  BY DEF Items
<1>5. m = [c \in DOMAIN m |-> m[c]]
  OBVIOUS
<1> HIDE DEF m
<1>6. Rounded(t) = m
  BY <1>3, <1>4, <1>5 DEF Rounded
<1> QED BY <1>2, <1>6 DEF m

LEMMA ExactIs ==
    ASSUME NEW i \in Items
    PROVE  /\ Exact(i) \in Items
           /\ Exact(i) = [basic |-> i.basic * Thousand, allowances |-> i.allowances * Thousand,
                          difference |-> i.difference * Thousand, bonus |-> i.bonus * Thousand,
                          overtime |-> i.overtime * Thousand, pf |-> i.pf * Thousand,
                          pfEmployer |-> i.pfEmployer * Thousand, relief |-> i.relief * Thousand,
                          loan |-> i.loan * Thousand, welfare |-> i.welfare * Thousand,
                          other |-> i.other * Thousand, advance |-> i.advance * Thousand,
                          member |-> i.member]
           /\ Rounded(Exact(i)) = i
<1> DEFINE m == [basic |-> i.basic * Thousand, allowances |-> i.allowances * Thousand,
                 difference |-> i.difference * Thousand, bonus |-> i.bonus * Thousand,
                 overtime |-> i.overtime * Thousand, pf |-> i.pf * Thousand,
                 pfEmployer |-> i.pfEmployer * Thousand, relief |-> i.relief * Thousand,
                 loan |-> i.loan * Thousand, welfare |-> i.welfare * Thousand,
                 other |-> i.other * Thousand, advance |-> i.advance * Thousand,
                 member |-> i.member]
<1>1. \A n \in Int : n * Thousand \in Int /\ Money(n * Thousand) = n
  BY MoneyOfWhole
<1>2. m \in Items
  BY <1>1 DEF Items
<1>3. DOMAIN i = DOMAIN m
  BY DEF Items
<1>4. \A c \in DOMAIN i : m[c] = IF c = "member" THEN i[c] ELSE i[c] * Thousand
  BY DEF Items
<1>5. m = [c \in DOMAIN m |-> m[c]]
  OBVIOUS
<1> HIDE DEF m
<1>6. Exact(i) = m
  BY <1>3, <1>4, <1>5 DEF Exact
<1>7. Rounded(m) = [basic |-> Money(m.basic), allowances |-> Money(m.allowances),
                    difference |-> Money(m.difference), bonus |-> Money(m.bonus),
                    overtime |-> Money(m.overtime), pf |-> Money(m.pf),
                    pfEmployer |-> Money(m.pfEmployer), relief |-> Money(m.relief),
                    loan |-> Money(m.loan), welfare |-> Money(m.welfare),
                    other |-> Money(m.other), advance |-> Money(m.advance),
                    member |-> m.member]
  BY <1>2, RoundedIs
<1>8. Rounded(m) = i
  BY <1>1, <1>7 DEF m, Items
<1> QED BY <1>2, <1>6, <1>8 DEF m

(* The policy reads five of the columns.                                     *)
LEMMA AdjustmentsAlike ==
    ASSUME NEW rate, NEW x, NEW y, NEW ev, NEW month, x.basic = y.basic, x.overtime = y.overtime,
           x.pf = y.pf, x.pfEmployer = y.pfEmployer, x.relief = y.relief
    PROVE  Adjustments(rate, x, ev, month) = Adjustments(rate, y, ev, month)
BY DEF Adjustments

LEMMA AdjustmentsAre ==
    ASSUME NEW rate \in Columns, NEW i \in Items, NEW ev \in Evidence, NEW month \in Int
    PROVE  Adjustments(rate, i, ev, month) \in
              [ssnit : Int, pf : Int, relief : Int, overtimeTax : Int, overtimeOrdinary : Int]
<1>1. /\ i.basic \in Int /\ i.pf \in Int /\ i.pfEmployer \in Int /\ i.relief \in Int /\ i.overtime \in Int
      /\ rate.ssfEmployee \in Int /\ rate.pfLimit \in Int
  BY DEF Items, Columns
<1>2. Money((i.basic * rate.ssfEmployee) \div Thousand) \in Int
  <2>1. i.basic * rate.ssfEmployee \in Int
    BY <1>1
  <2>2. (i.basic * rate.ssfEmployee) \div Thousand \in Int
    BY <2>1 DEF Thousand
  <2> QED BY <2>2, MoneyIsNear
<1> DEFINE cap == AtLeast(i.basic * rate.pfLimit - i.pfEmployer * Thousand, 0)
<1>3. cap \in Int
  <2>1. i.basic * rate.pfLimit \in Int
    BY <1>1
  <2> QED BY <1>1, <2>1 DEF AtLeast, Thousand
<1>4. Money(AtMost(i.pf * Thousand, cap) \div Thousand) \in Int
  <2> HIDE DEF cap
  <2>1. AtMost(i.pf * Thousand, cap) \div Thousand \in Int
    BY <1>1, <1>3 DEF AtMost, Thousand
  <2> QED BY <2>1, MoneyIsNear
<1>5. AwardFor(ev, month).amount \in Int
  BY AwardForIs DEF Award
<1>6. ComputeOvertimeTax(rate, i.overtime, i.basic) \in Int
  BY <1>1, OvertimeTaxIsInt
<1>7. Money(i.pf) \in Int /\ Money(i.relief) \in Int /\ Money(i.overtime) \in Int
  BY <1>1, MoneyIsNear
<1> QED BY <1>2, <1>4, <1>5, <1>6, <1>7 DEF Adjustments

(* The taxes an engine comes to are whole pesewas, whatever base it has.     *)
LEMMA PayeOfIs ==
    ASSUME NEW rate \in Columns, NEW before \in Int, NEW relief \in Int
    PROVE  /\ TaxableAfter(rate, before, relief) \in Int
           /\ ComputePaye(rate.bands, TaxableAfter(rate, before, relief)) \in Int
<1>1. TaxableAfter(rate, before, relief) \in Int
  BY DEF TaxableAfter, AtLeast, AtMost
<1> QED BY <1>1, PayeIsInt DEF Columns

(* The figures of a salaried item, and what they leave of the bonus.         *)
LEMMA SalariedIs ==
    ASSUME NEW v \in Nat, NEW rate \in Columns, NEW t \in Items, NEW used \in Int,
           NEW ev \in Evidence, NEW month \in Int
    PROVE  LET s == Salaried(v, rate, t, used, ev, month)
               i == Rounded(t)
           IN  /\ s \in Computed
               /\ s.by = v
               /\ s.excess = SplitBonus(rate, i.bonus * Thousand, i.basic * Thousand, used)[2]
               /\ s.gross = i.basic + i.allowances + i.bonus + i.overtime + i.difference
               /\ s.deductions = s.ssnit + s.paye + i.pf + i.loan + i.welfare + i.other
<1> DEFINE i == Rounded(t)
           a == Adjustments(rate, Exact(i), ev, month)
           split == SplitBonus(rate, i.bonus * Thousand, i.basic * Thousand, used)
           before == i.basic - a.ssnit + i.allowances + i.difference + split[2]
                       + a.overtimeOrdinary - a.pf
           taxable == TaxableAfter(rate, before, a.relief)
           paye == ComputePaye(rate.bands, taxable) + a.overtimeTax + split[1]
           gross == i.basic + i.allowances + i.bonus + i.overtime + i.difference
           deductions == a.ssnit + paye + i.pf + i.loan + i.welfare + i.other
<1>1. i \in Items
  BY RoundedIs
<1>2. Exact(i) \in Items
  <2> HIDE DEF i
  <2> QED BY <1>1, ExactIs
<1>3. Salaried(v, rate, t, used, ev, month)
        = Figures(v, gross, taxable, split[2], paye, a.ssnit, deductions,
                  gross - deductions + i.advance)
  BY DEF Salaried
<1> HIDE DEF i
<1>4. /\ i.basic \in Int /\ i.allowances \in Int /\ i.bonus \in Int /\ i.overtime \in Int
      /\ i.difference \in Int /\ i.pf \in Int /\ i.loan \in Int /\ i.welfare \in Int
      /\ i.other \in Int /\ i.advance \in Int
  BY <1>1 DEF Items
<1>5. /\ a.ssnit \in Int /\ a.pf \in Int /\ a.relief \in Int
      /\ a.overtimeTax \in Int /\ a.overtimeOrdinary \in Int
  <2> HIDE DEF a
  <2>1. a \in [ssnit : Int, pf : Int, relief : Int, overtimeTax : Int, overtimeOrdinary : Int]
    BY <1>2, AdjustmentsAre DEF a
  <2> QED BY <2>1
<1>6. split[1] \in Int /\ split[2] \in Int
  <2>1. i.bonus * Thousand \in Int /\ i.basic * Thousand \in Int
    BY <1>4 DEF Thousand
  <2> QED BY <2>1, SplitIsInt
<1> HIDE DEF a, split
<1>7. before \in Int
  BY <1>4, <1>5, <1>6
<1> HIDE DEF before
<1>8. taxable \in Int /\ ComputePaye(rate.bands, taxable) \in Int
  BY <1>5, <1>7, PayeOfIs
<1> HIDE DEF taxable
<1>9. paye \in Int
  BY <1>5, <1>6, <1>8
<1> HIDE DEF paye
<1>10. gross \in Int /\ deductions \in Int /\ gross - deductions + i.advance \in Int
  BY <1>4, <1>5, <1>9
<1>11. Salaried(v, rate, t, used, ev, month)
         = [by |-> v, gross |-> gross, taxable |-> taxable, excess |-> split[2], paye |-> paye,
            ssnit |-> a.ssnit, deductions |-> deductions, net |-> gross - deductions + i.advance]
  BY <1>3 DEF Figures
<1>12. Salaried(v, rate, t, used, ev, month) \in Computed
  <2> HIDE DEF gross, deductions
  <2> QED BY <1>4, <1>5, <1>6, <1>8, <1>9, <1>10, <1>11 DEF Computed
<1> QED BY <1>11, <1>12 DEF i, split
-----------------------------------------------------------------------------
(* What some runs have used *)

(* u summed over the runs of S.                                              *)
SumOver(S, u) == Total(MaxRuns, [r \in Runs |-> IF r \in S THEN u[r] ELSE 0])

(* Rounding a sum, or summing roundings: of four figures and some whole ones *)
(* the two lie two pesewas apart at most, of one figure one.                 *)
LEMMA SumsAreNear ==
    ASSUME NEW n \in Int, NEW a \in Int, NEW b \in Int, NEW c \in Int, NEW d \in Int
    PROVE  /\ Money(n * Thousand + a + b + c + d) \in Int
           /\ Distance(Money(n * Thousand + a + b + c + d),
                       n + Money(a) + Money(b) + Money(c) + Money(d)) <= 2
<1> DEFINE s == n * Thousand + a + b + c + d
           S == Money(s)
           A == Money(a)
           B == Money(b)
           C == Money(c)
           D == Money(d)
<1>1. s \in Int /\ s = 1000 * n + a + b + c + d
  BY DEF Thousand
<1>near. \A k \in Int : /\ Money(k) \in Int /\ 2000 * Money(k) <= 2 * k + 1000
                        /\ 2 * k - 1000 <= 2000 * Money(k)
  <2> TAKE k \in Int
  <2>1. /\ Money(k) \in Int /\ 2 * k - Thousand <= 2 * Money(k) * Thousand
        /\ 2 * Money(k) * Thousand <= 2 * k + Thousand
    BY MoneyIsNear
  <2> HIDE DEF Money
  <2> QED BY <2>1 DEF Thousand
<1>2. /\ A \in Int /\ 2000 * A <= 2 * a + 1000 /\ 2 * a - 1000 <= 2000 * A
      /\ B \in Int /\ 2000 * B <= 2 * b + 1000 /\ 2 * b - 1000 <= 2000 * B
  BY <1>near
<1>3. /\ C \in Int /\ 2000 * C <= 2 * c + 1000 /\ 2 * c - 1000 <= 2000 * C
      /\ D \in Int /\ 2000 * D <= 2 * d + 1000 /\ 2 * d - 1000 <= 2000 * D
  BY <1>near
<1> HIDE DEF s
<1>4. S \in Int /\ 2000 * S <= 2 * s + 1000 /\ 2 * s - 1000 <= 2000 * S
  BY <1>1, <1>near
<1> HIDE DEF S, A, B, C, D
<1>5. 2000 * (S - (n + A + B + C + D)) <= 5000 /\ 2000 * ((n + A + B + C + D) - S) <= 5000
  BY <1>1, <1>2, <1>3, <1>4
<1>6. Distance(S, n + A + B + C + D) <= 2
  BY <1>2, <1>3, <1>4, <1>5 DEF Distance, AtLeast
<1> QED BY <1>4, <1>6 DEF S, A, B, C, D, s

(* Of one figure and some whole ones, a pesewa at most.                      *)
LEMMA SumIsNear ==
    ASSUME NEW n \in Int, NEW a \in Int
    PROVE  /\ Money(n * Thousand + a) \in Int
           /\ Distance(Money(n * Thousand + a), n + Money(a)) <= 1
<1> DEFINE s == n * Thousand + a
           S == Money(s)
           A == Money(a)
<1>1. s \in Int /\ s = 1000 * n + a
  BY DEF Thousand
<1>2. A \in Int /\ 2000 * A <= 2 * a + 1000 /\ 2 * a - 1000 <= 2000 * A
  BY MoneyIsNear DEF Thousand
<1> HIDE DEF s
<1>3. S \in Int /\ 2000 * S <= 2 * s + 1000 /\ 2 * s - 1000 <= 2000 * S
  BY <1>1, MoneyIsNear DEF Thousand
<1> HIDE DEF S, A
<1>4. Distance(S, n + A) <= 1
  BY <1>1, <1>2, <1>3 DEF Distance, AtLeast
<1> QED BY <1>3, <1>4 DEF S, A, s

LEMMA DuesAreInt ==
    ASSUME NEW rate \in Columns, NEW basic \in Int, NEW member
    PROVE  IcuDues(rate, basic, member) \in Int
<1>1. rate.icuRate \in Int
  BY DEF Columns
<1>2. basic * rate.icuRate \in Int
  BY <1>1
<1>3. (basic * rate.icuRate) \div Thousand \in Int
  BY <1>2 DEF Thousand
<1> QED BY <1>3, MoneyIsNear DEF IcuDues

(* What the raw engine sums before it rounds.                                *)
LEMMA RawIs ==
    ASSUME NEW v \in Nat, NEW rate \in Columns, NEW t \in Items, NEW used \in Int,
           NEW ev \in Evidence, NEW month \in Int
    PROVE  LET raw == RawPayslip(v, rate, t, used, ev, month)
           IN  /\ raw.paye \in Int /\ raw.ssnit \in Int
               /\ raw.gross = Money(t.basic + Money(t.overtime) * Thousand + t.allowances
                                      + t.bonus + t.difference)
               /\ raw.deductions
                    = Money((raw.paye + raw.ssnit + IcuDues(rate, t.basic, t.member)) * Thousand
                              + t.pf + t.loan + t.welfare + t.other)
<1> DEFINE overtime == Money(t.overtime)
           costed == [t EXCEPT !.overtime = overtime * Thousand]
           a == Adjustments(rate, costed, ev, month)
           split == SplitBonus(rate, t.bonus, t.basic, used)
           netBasic == Money(t.basic - a.ssnit * Thousand)
           before == Money((netBasic - a.pf + split[2] + a.overtimeOrdinary) * Thousand
                             + t.allowances + t.difference)
           taxable == TaxableAfter(rate, before, a.relief)
           paye == ComputePaye(rate.bands, taxable) + a.overtimeTax + split[1]
           gross == Money(t.basic + overtime * Thousand + t.allowances + t.bonus + t.difference)
           deductions == Money((paye + a.ssnit + IcuDues(rate, t.basic, t.member)) * Thousand
                                 + t.pf + t.loan + t.welfare + t.other)
<1>1. /\ t.basic \in Int /\ t.allowances \in Int /\ t.bonus \in Int /\ t.overtime \in Int
      /\ t.difference \in Int
  BY DEF Items
<1>2. overtime * Thousand \in Int
  BY <1>1, MoneyIsNear DEF Thousand
<1>3. RawPayslip(v, rate, t, used, ev, month)
        = Figures(v, gross, taxable, split[2], paye, a.ssnit, deductions, gross - deductions)
  BY DEF RawPayslip
<1>4. costed \in Items
  <2> HIDE DEF overtime
  <2> QED BY <1>2 DEF Items
<1> HIDE DEF costed
<1>5. a \in [ssnit : Int, pf : Int, relief : Int, overtimeTax : Int, overtimeOrdinary : Int]
  BY <1>4, AdjustmentsAre
<1> HIDE DEF a
<1>6. split[1] \in Int /\ split[2] \in Int
  BY <1>1, SplitIsInt
<1> HIDE DEF split
<1>7. netBasic \in Int
  <2>1. t.basic - a.ssnit * Thousand \in Int
    BY <1>1, <1>5 DEF Thousand
  <2> QED BY <2>1, MoneyIsNear
<1> HIDE DEF netBasic
<1>8. before \in Int
  <2>1. (netBasic - a.pf + split[2] + a.overtimeOrdinary) * Thousand + t.allowances + t.difference \in Int
    BY <1>1, <1>5, <1>6, <1>7 DEF Thousand
  <2> QED BY <2>1, MoneyIsNear
<1> HIDE DEF before
<1>9. ComputePaye(rate.bands, taxable) \in Int
  BY <1>5, <1>8, PayeOfIs
<1> HIDE DEF taxable
<1>10. paye \in Int /\ a.ssnit \in Int
  BY <1>5, <1>6, <1>9
<1>11. RawPayslip(v, rate, t, used, ev, month)
         = [by |-> v, gross |-> gross, taxable |-> taxable, excess |-> split[2], paye |-> paye,
            ssnit |-> a.ssnit, deductions |-> deductions, net |-> gross - deductions]
  BY <1>3 DEF Figures
<1> HIDE DEF paye
<1> QED BY <1>10, <1>11

LEMMA HourlyIs ==
    ASSUME NEW v \in Nat, NEW rate \in Columns, NEW t \in Items, NEW used \in Int,
           NEW ev \in Evidence, NEW month \in Int
    PROVE  LET hourly == Hourly(v, rate, t, used, ev, month)
               i == Rounded(t)
           IN  /\ hourly.paye \in Int /\ hourly.ssnit \in Int
               /\ hourly.gross = i.basic + i.overtime + i.bonus + i.allowances + i.difference
               /\ hourly.deductions = Money((hourly.ssnit + hourly.paye) * Thousand + t.pf)
<1> DEFINE i == Rounded(t)
           lines == [t EXCEPT !.basic = i.basic * Thousand, !.overtime = i.overtime * Thousand]
           a == Adjustments(rate, lines, ev, month)
           split == SplitBonus(rate, i.bonus * Thousand, i.basic * Thousand, used)
           before == i.basic - a.ssnit + i.allowances + i.difference + split[2]
                       + a.overtimeOrdinary - a.pf
           taxable == TaxableAfter(rate, before, a.relief)
           paye == ComputePaye(rate.bands, taxable) + a.overtimeTax + split[1]
           gross == i.basic + i.overtime + i.bonus + i.allowances + i.difference
           deductions == Money((a.ssnit + paye) * Thousand + t.pf)
<1>1. i \in Items
  BY RoundedIs
<1>2. Hourly(v, rate, t, used, ev, month)
        = Figures(v, gross, taxable, split[2], paye, a.ssnit, deductions, gross - deductions)
  BY DEF Hourly
<1> HIDE DEF i
<1>3. /\ i.basic \in Int /\ i.allowances \in Int /\ i.bonus \in Int /\ i.overtime \in Int
      /\ i.difference \in Int
  BY <1>1 DEF Items
<1>4. i.basic * Thousand \in Int /\ i.overtime * Thousand \in Int /\ i.bonus * Thousand \in Int
  BY <1>3 DEF Thousand
<1>5. lines \in Items
  <2> DEFINE x == [t EXCEPT !.basic = i.basic * Thousand]
  <2>1. x \in Items
    BY <1>4 DEF Items
  <2> HIDE DEF x
  <2>2. [x EXCEPT !.overtime = i.overtime * Thousand] \in Items
    BY <1>4, <2>1 DEF Items
  <2> QED BY <2>2 DEF x
<1> HIDE DEF lines
<1>6. a \in [ssnit : Int, pf : Int, relief : Int, overtimeTax : Int, overtimeOrdinary : Int]
  BY <1>5, AdjustmentsAre
<1> HIDE DEF a
<1>7. split[1] \in Int /\ split[2] \in Int
  BY <1>4, SplitIsInt
<1> HIDE DEF split
<1>8. before \in Int
  BY <1>3, <1>6, <1>7
<1> HIDE DEF before
<1>9. ComputePaye(rate.bands, taxable) \in Int
  BY <1>6, <1>8, PayeOfIs
<1> HIDE DEF taxable
<1>10. paye \in Int /\ a.ssnit \in Int
  BY <1>6, <1>7, <1>9
<1>11. Hourly(v, rate, t, used, ev, month)
         = [by |-> v, gross |-> gross, taxable |-> taxable, excess |-> split[2], paye |-> paye,
            ssnit |-> a.ssnit, deductions |-> deductions, net |-> gross - deductions]
  BY <1>2 DEF Figures
<1> HIDE DEF paye
<1> QED BY <1>10, <1>11 DEF i

(* The items the engines are compared on.                                    *)
LEMMA SheetOnlyIs ==
    ASSUME NEW t \in Items
    PROVE  LET x == Rounded(SheetOnly(t))
               i == Rounded(t)
           IN  /\ SheetOnly(t) \in Items /\ x \in Items /\ i \in Items
               /\ x.basic = i.basic /\ x.allowances = i.allowances /\ x.difference = i.difference
               /\ x.bonus = i.bonus /\ x.overtime = i.overtime /\ x.pf = i.pf
               /\ x.pfEmployer = i.pfEmployer /\ x.relief = i.relief
               /\ x.loan = i.loan /\ x.welfare = i.welfare /\ x.other = i.other
               /\ x.advance = 0
<1> DEFINE u == SheetOnly(t)
<1>1. u \in Items /\ u.advance = 0
  BY DEF SheetOnly, Items
<1>2. /\ u.basic = t.basic /\ u.allowances = t.allowances /\ u.difference = t.difference
      /\ u.bonus = t.bonus /\ u.overtime = t.overtime /\ u.pf = t.pf
      /\ u.pfEmployer = t.pfEmployer /\ u.relief = t.relief
      /\ u.loan = t.loan /\ u.welfare = t.welfare /\ u.other = t.other
  BY DEF SheetOnly, Items
<1>3. Money(0) = 0
  BY DEF Money, Thousand
<1> HIDE DEF u
<1> QED BY <1>1, <1>2, <1>3, RoundedIs DEF u

LEMMA HoursOnlyIs ==
    ASSUME NEW t \in Items
    PROVE  LET x == Rounded(HoursOnly(t))
               i == Rounded(t)
           IN  /\ HoursOnly(t) \in Items /\ x \in Items /\ i \in Items
               /\ x.basic = i.basic /\ x.allowances = i.allowances /\ x.difference = i.difference
               /\ x.bonus = i.bonus /\ x.overtime = i.overtime /\ x.pf = i.pf
               /\ x.pfEmployer = i.pfEmployer /\ x.relief = i.relief
               /\ x.loan = 0 /\ x.welfare = 0 /\ x.other = 0 /\ x.advance = 0
<1> DEFINE a == [t EXCEPT !.advance = 0]
           b == [a EXCEPT !.loan = 0]
           c == [b EXCEPT !.welfare = 0]
           u == [c EXCEPT !.other = 0]
           Same(x, y) == /\ x.basic = y.basic /\ x.allowances = y.allowances
                         /\ x.difference = y.difference /\ x.bonus = y.bonus
                         /\ x.overtime = y.overtime /\ x.pf = y.pf
                         /\ x.pfEmployer = y.pfEmployer /\ x.relief = y.relief
<1>1. a \in Items /\ a.advance = 0 /\ Same(a, t)
  BY DEF Items
<1> HIDE DEF a
<1>2. b \in Items /\ b.loan = 0 /\ b.advance = 0 /\ Same(b, t)
  BY <1>1 DEF Items
<1> HIDE DEF b
<1>3. c \in Items /\ c.welfare = 0 /\ c.loan = 0 /\ c.advance = 0 /\ Same(c, t)
  BY <1>2 DEF Items
<1> HIDE DEF c
<1>4. u \in Items /\ u.other = 0 /\ u.welfare = 0 /\ u.loan = 0 /\ u.advance = 0 /\ Same(u, t)
  BY <1>3 DEF Items
<1>5. HoursOnly(t) = u
  BY DEF HoursOnly, a, b, c
<1> HIDE DEF u
<1>6. Money(0) = 0
  BY DEF Money, Thousand
<1> QED BY <1>4, <1>5, <1>6, RoundedIs

(* Inputs in whole pesewas: what the engines round is whole already.         *)
LEMMA RawIsSheet ==
    ASSUME NEW v \in Nat, NEW rate \in Columns, NEW t \in Items, NEW used \in Int,
           NEW ev \in Evidence, NEW month \in Int, t = Exact(Rounded(t))
    PROVE  LET dues == IcuDues(rate, t.basic, t.member)
           IN  RawPayslip(v, rate, t, used, ev, month)
                 = WithDues(Salaried(v, rate, SheetOnly(t), used, ev, month), dues)
<1> DEFINE i == Rounded(SheetOnly(t))
           dues == IcuDues(rate, t.basic, t.member)
           a == Adjustments(rate, Exact(i), ev, month)
           split == SplitBonus(rate, i.bonus * Thousand, i.basic * Thousand, used)
           before == i.basic - a.ssnit + i.allowances + i.difference + split[2]
                       + a.overtimeOrdinary - a.pf
           taxable == TaxableAfter(rate, before, a.relief)
           paye == ComputePaye(rate.bands, taxable) + a.overtimeTax + split[1]
           gross == i.basic + i.allowances + i.bonus + i.overtime + i.difference
           deductions == a.ssnit + paye + i.pf + i.loan + i.welfare + i.other
           overtime == Money(t.overtime)
           costed == [t EXCEPT !.overtime = overtime * Thousand]
           rawA == Adjustments(rate, costed, ev, month)
           rawSplit == SplitBonus(rate, t.bonus, t.basic, used)
           rawNetBasic == Money(t.basic - rawA.ssnit * Thousand)
           rawBefore == Money((rawNetBasic - rawA.pf + rawSplit[2] + rawA.overtimeOrdinary) * Thousand
                                + t.allowances + t.difference)
           rawTaxable == TaxableAfter(rate, rawBefore, rawA.relief)
           rawPaye == ComputePaye(rate.bands, rawTaxable) + rawA.overtimeTax + rawSplit[1]
           rawGross == Money(t.basic + overtime * Thousand + t.allowances + t.bonus + t.difference)
           rawDeductions == Money((rawPaye + rawA.ssnit + dues) * Thousand
                                    + t.pf + t.loan + t.welfare + t.other)
<1>1. /\ i \in Items /\ i.advance = 0
      /\ t.basic = i.basic * Thousand /\ t.allowances = i.allowances * Thousand
      /\ t.difference = i.difference * Thousand /\ t.bonus = i.bonus * Thousand
      /\ t.overtime = i.overtime * Thousand /\ t.pf = i.pf * Thousand
      /\ t.pfEmployer = i.pfEmployer * Thousand /\ t.relief = i.relief * Thousand
      /\ t.loan = i.loan * Thousand /\ t.welfare = i.welfare * Thousand
      /\ t.other = i.other * Thousand
  <2> DEFINE j == Rounded(t)
  <2>1. /\ i \in Items /\ j \in Items /\ i.advance = 0
        /\ i.basic = j.basic /\ i.allowances = j.allowances /\ i.difference = j.difference
        /\ i.bonus = j.bonus /\ i.overtime = j.overtime /\ i.pf = j.pf
        /\ i.pfEmployer = j.pfEmployer /\ i.relief = j.relief
        /\ i.loan = j.loan /\ i.welfare = j.welfare /\ i.other = j.other
    BY SheetOnlyIs
  <2>2. t = Exact(j)
    OBVIOUS
  <2> HIDE DEF i, j
  <2>3. t = [basic |-> j.basic * Thousand, allowances |-> j.allowances * Thousand,
             difference |-> j.difference * Thousand, bonus |-> j.bonus * Thousand,
             overtime |-> j.overtime * Thousand, pf |-> j.pf * Thousand,
             pfEmployer |-> j.pfEmployer * Thousand, relief |-> j.relief * Thousand,
             loan |-> j.loan * Thousand, welfare |-> j.welfare * Thousand,
             other |-> j.other * Thousand, advance |-> j.advance * Thousand,
             member |-> j.member]
    BY <2>1, <2>2, ExactIs
  <2> QED BY <2>1, <2>3
<1>2. Salaried(v, rate, SheetOnly(t), used, ev, month)
        = Figures(v, gross, taxable, split[2], paye, a.ssnit, deductions,
                  gross - deductions + i.advance)
  BY DEF Salaried
<1>3. RawPayslip(v, rate, t, used, ev, month)
        = Figures(v, rawGross, rawTaxable, rawSplit[2], rawPaye, rawA.ssnit, rawDeductions,
                  rawGross - rawDeductions)
  BY DEF RawPayslip
<1> HIDE DEF i
<1>4. /\ i.basic \in Int /\ i.allowances \in Int /\ i.bonus \in Int /\ i.overtime \in Int
      /\ i.difference \in Int /\ i.pf \in Int /\ i.loan \in Int /\ i.welfare \in Int
      /\ i.other \in Int /\ i.pfEmployer \in Int /\ i.relief \in Int
  BY <1>1 DEF Items
<1>5. overtime = i.overtime
  BY <1>1, <1>4, MoneyOfWhole
<1>6. rawSplit = split
  BY <1>1
<1>7. /\ costed.basic = t.basic /\ costed.overtime = t.overtime /\ costed.pf = t.pf
      /\ costed.pfEmployer = t.pfEmployer /\ costed.relief = t.relief
  <2>1. overtime * Thousand = t.overtime
    BY <1>1, <1>5
  <2> HIDE DEF overtime
  <2> QED BY <2>1 DEF Items
<1> HIDE DEF overtime
<1>8. Exact(i) \in Items
  BY <1>1, ExactIs
<1>9. /\ Exact(i).basic = i.basic * Thousand /\ Exact(i).overtime = i.overtime * Thousand
      /\ Exact(i).pf = i.pf * Thousand /\ Exact(i).pfEmployer = i.pfEmployer * Thousand
      /\ Exact(i).relief = i.relief * Thousand
  BY <1>1, ExactIs
<1>10. rawA = a
  <2> DEFINE x == Exact(i)
  <2>1. /\ costed.basic = x.basic /\ costed.overtime = x.overtime /\ costed.pf = x.pf
        /\ costed.pfEmployer = x.pfEmployer /\ costed.relief = x.relief
    BY <1>1, <1>7, <1>9
  <2> HIDE DEF costed, x
  <2>2. Adjustments(rate, costed, ev, month) = Adjustments(rate, x, ev, month)
    BY <2>1, AdjustmentsAlike
  <2> QED BY <2>2 DEF x
<1>11. /\ a.ssnit \in Int /\ a.pf \in Int /\ a.relief \in Int
       /\ a.overtimeTax \in Int /\ a.overtimeOrdinary \in Int
  <2> HIDE DEF a
  <2>1. a \in [ssnit : Int, pf : Int, relief : Int, overtimeTax : Int, overtimeOrdinary : Int]
    BY <1>8, AdjustmentsAre DEF a
  <2> QED BY <2>1
<1>12. split[1] \in Int /\ split[2] \in Int
  <2>1. i.bonus * Thousand \in Int /\ i.basic * Thousand \in Int
    BY <1>4 DEF Thousand
  <2> QED BY <2>1, SplitIsInt
<1>13. dues \in Int
  <2>1. t.basic \in Int
    BY DEF Items
  <2> QED BY <2>1, DuesAreInt
<1> HIDE DEF rawA, a, rawSplit, split, dues
<1>14. rawNetBasic = i.basic - a.ssnit
  <2>1. t.basic - rawA.ssnit * Thousand = (i.basic - a.ssnit) * Thousand
    BY <1>1, <1>4, <1>10, <1>11 DEF Thousand
  <2> QED BY <1>4, <1>11, <2>1, MoneyOfWhole
<1>15. before \in Int
  BY <1>4, <1>11, <1>12
<1>16. rawBefore = before
  <2> HIDE DEF rawNetBasic
  <2>1. (rawNetBasic - rawA.pf + rawSplit[2] + rawA.overtimeOrdinary) * Thousand
          + t.allowances + t.difference = before * Thousand
    BY <1>1, <1>4, <1>6, <1>10, <1>11, <1>12, <1>14 DEF Thousand
  <2> HIDE DEF before
  <2> QED BY <1>15, <2>1, MoneyOfWhole
<1> HIDE DEF rawNetBasic, rawBefore, before
<1>17. rawTaxable = taxable /\ rawPaye = paye
  BY <1>6, <1>10, <1>16
<1>18. taxable \in Int /\ ComputePaye(rate.bands, taxable) \in Int
  BY <1>11, <1>15, PayeOfIs
<1> HIDE DEF taxable, rawTaxable
<1>19. paye \in Int
  BY <1>11, <1>12, <1>18
<1> HIDE DEF paye, rawPaye
<1>20. gross \in Int /\ deductions \in Int
  BY <1>4, <1>11, <1>19
<1>21. rawGross = gross
  <2>1. t.basic + overtime * Thousand + t.allowances + t.bonus + t.difference = gross * Thousand
    BY <1>1, <1>4, <1>5 DEF Thousand
  <2> HIDE DEF gross
  <2> QED BY <1>20, <2>1, MoneyOfWhole
<1>22. rawDeductions = deductions + dues
  <2>1. (rawPaye + rawA.ssnit + dues) * Thousand + t.pf + t.loan + t.welfare + t.other
          = (deductions + dues) * Thousand
    BY <1>1, <1>4, <1>10, <1>11, <1>13, <1>17, <1>19 DEF Thousand
  <2> HIDE DEF deductions
  <2>2. deductions + dues \in Int
    BY <1>13, <1>20
  <2> QED BY <2>1, <2>2, MoneyOfWhole
<1> HIDE DEF gross, rawGross, deductions, rawDeductions
<1>23. rawGross - rawDeductions = (gross - deductions + i.advance) - dues
  BY <1>1, <1>13, <1>20, <1>21, <1>22
<1> DEFINE sheet == Salaried(v, rate, SheetOnly(t), used, ev, month)
           net == gross - deductions + i.advance
<1>24. sheet = [by |-> v, gross |-> gross, taxable |-> taxable, excess |-> split[2], paye |-> paye,
                ssnit |-> a.ssnit, deductions |-> deductions, net |-> net]
  BY <1>2 DEF Figures
<1>25. RawPayslip(v, rate, t, used, ev, month)
         = [by |-> v, gross |-> gross, taxable |-> taxable, excess |-> split[2], paye |-> paye,
            ssnit |-> a.ssnit, deductions |-> deductions + dues, net |-> net - dues]
  BY <1>3, <1>6, <1>10, <1>17, <1>21, <1>22, <1>23 DEF Figures
<1> HIDE DEF sheet, net
<1>26. WithDues(sheet, dues)
         = [by |-> v, gross |-> gross, taxable |-> taxable, excess |-> split[2], paye |-> paye,
            ssnit |-> a.ssnit, deductions |-> deductions + dues, net |-> net - dues]
  BY <1>24 DEF WithDues, Figures
<1> QED BY <1>25, <1>26 DEF sheet, dues

LEMMA HourlyIsHours ==
    ASSUME NEW v \in Nat, NEW rate \in Columns, NEW t \in Items, NEW used \in Int,
           NEW ev \in Evidence, NEW month \in Int, t = Exact(Rounded(t))
    PROVE  Hourly(v, rate, t, used, ev, month) = Salaried(v, rate, HoursOnly(t), used, ev, month)
<1> DEFINE i == Rounded(HoursOnly(t))
           a == Adjustments(rate, Exact(i), ev, month)
           split == SplitBonus(rate, i.bonus * Thousand, i.basic * Thousand, used)
           before == i.basic - a.ssnit + i.allowances + i.difference + split[2]
                       + a.overtimeOrdinary - a.pf
           taxable == TaxableAfter(rate, before, a.relief)
           paye == ComputePaye(rate.bands, taxable) + a.overtimeTax + split[1]
           gross == i.basic + i.allowances + i.bonus + i.overtime + i.difference
           deductions == a.ssnit + paye + i.pf + i.loan + i.welfare + i.other
           j == Rounded(t)
           lines == [t EXCEPT !.basic = j.basic * Thousand, !.overtime = j.overtime * Thousand]
           ownA == Adjustments(rate, lines, ev, month)
           ownSplit == SplitBonus(rate, j.bonus * Thousand, j.basic * Thousand, used)
           ownBefore == j.basic - ownA.ssnit + j.allowances + j.difference + ownSplit[2]
                          + ownA.overtimeOrdinary - ownA.pf
           ownTaxable == TaxableAfter(rate, ownBefore, ownA.relief)
           ownPaye == ComputePaye(rate.bands, ownTaxable) + ownA.overtimeTax + ownSplit[1]
           ownGross == j.basic + j.overtime + j.bonus + j.allowances + j.difference
           ownDeductions == Money((ownA.ssnit + ownPaye) * Thousand + t.pf)
<1>1. /\ i \in Items /\ j \in Items
      /\ i.loan = 0 /\ i.welfare = 0 /\ i.other = 0 /\ i.advance = 0
      /\ i.basic = j.basic /\ i.allowances = j.allowances /\ i.difference = j.difference
      /\ i.bonus = j.bonus /\ i.overtime = j.overtime /\ i.pf = j.pf
      /\ i.pfEmployer = j.pfEmployer /\ i.relief = j.relief
  BY HoursOnlyIs
<1>2. Salaried(v, rate, HoursOnly(t), used, ev, month)
        = Figures(v, gross, taxable, split[2], paye, a.ssnit, deductions,
                  gross - deductions + i.advance)
  BY DEF Salaried
<1>3. Hourly(v, rate, t, used, ev, month)
        = Figures(v, ownGross, ownTaxable, ownSplit[2], ownPaye, ownA.ssnit, ownDeductions,
                  ownGross - ownDeductions)
  BY DEF Hourly
<1>4. t = Exact(j)
  OBVIOUS
<1> HIDE DEF i, j
<1>5. /\ t.basic = j.basic * Thousand /\ t.overtime = j.overtime * Thousand
      /\ t.pf = j.pf * Thousand /\ t.pfEmployer = j.pfEmployer * Thousand
      /\ t.relief = j.relief * Thousand
  BY <1>1, <1>4, ExactIs
<1>6. /\ j.basic \in Int /\ j.allowances \in Int /\ j.bonus \in Int /\ j.overtime \in Int
      /\ j.difference \in Int /\ j.pf \in Int
  BY <1>1 DEF Items
<1>7. /\ lines.basic = j.basic * Thousand /\ lines.overtime = j.overtime * Thousand
      /\ lines.pf = j.pf * Thousand /\ lines.pfEmployer = j.pfEmployer * Thousand
      /\ lines.relief = j.relief * Thousand
  <2>1. lines = t
    BY <1>5 DEF Items
  <2> HIDE DEF lines
  <2> QED BY <1>5, <2>1
<1>8. Exact(i) \in Items
  BY <1>1, ExactIs
<1>9. /\ Exact(i).basic = i.basic * Thousand /\ Exact(i).overtime = i.overtime * Thousand
      /\ Exact(i).pf = i.pf * Thousand /\ Exact(i).pfEmployer = i.pfEmployer * Thousand
      /\ Exact(i).relief = i.relief * Thousand
  BY <1>1, ExactIs
<1>10. ownA = a
  <2> DEFINE x == Exact(i)
  <2>1. /\ lines.basic = x.basic /\ lines.overtime = x.overtime /\ lines.pf = x.pf
        /\ lines.pfEmployer = x.pfEmployer /\ lines.relief = x.relief
    BY <1>1, <1>7, <1>9
  <2> HIDE DEF lines, x
  <2>2. Adjustments(rate, lines, ev, month) = Adjustments(rate, x, ev, month)
    BY <2>1, AdjustmentsAlike
  <2> QED BY <2>2 DEF x
<1>11. /\ a.ssnit \in Int /\ a.pf \in Int /\ a.relief \in Int
       /\ a.overtimeTax \in Int /\ a.overtimeOrdinary \in Int
  <2> HIDE DEF a
  <2>1. a \in [ssnit : Int, pf : Int, relief : Int, overtimeTax : Int, overtimeOrdinary : Int]
    BY <1>8, AdjustmentsAre DEF a
  <2> QED BY <2>1
<1>12. split[1] \in Int /\ split[2] \in Int
  <2>1. i.bonus * Thousand \in Int /\ i.basic * Thousand \in Int
    BY <1>1, <1>6 DEF Thousand
  <2> QED BY <2>1, SplitIsInt
<1>13. ownSplit = split
  BY <1>1
<1> HIDE DEF ownA, a, ownSplit, split, lines
<1>14. before \in Int /\ ownBefore = before
  BY <1>1, <1>6, <1>10, <1>11, <1>12, <1>13
<1> HIDE DEF ownBefore, before
<1>15. ownTaxable = taxable /\ ownPaye = paye
  BY <1>10, <1>13, <1>14
<1>16. taxable \in Int /\ ComputePaye(rate.bands, taxable) \in Int
  BY <1>11, <1>14, PayeOfIs
<1> HIDE DEF taxable, ownTaxable
<1>17. paye \in Int
  BY <1>11, <1>12, <1>16
<1> HIDE DEF paye, ownPaye
<1>18. gross \in Int /\ ownGross = gross
  BY <1>1, <1>6
<1>19. deductions \in Int /\ ownDeductions = deductions
  <2>1. deductions = a.ssnit + paye + j.pf /\ deductions \in Int
    BY <1>1, <1>6, <1>11, <1>17
  <2> HIDE DEF deductions
  <2>2. (ownA.ssnit + ownPaye) * Thousand + t.pf = deductions * Thousand
    BY <1>5, <1>6, <1>10, <1>11, <1>15, <1>17, <2>1 DEF Thousand
  <2> QED BY <2>1, <2>2, MoneyOfWhole
<1> HIDE DEF gross, ownGross, deductions, ownDeductions
<1>20. ownGross - ownDeductions = gross - deductions + i.advance
  BY <1>1, <1>18, <1>19
<1> QED BY <1>2, <1>3, <1>10, <1>13, <1>15, <1>18, <1>19, <1>20


LEMMA SumIsInt == ASSUME NEW S, NEW u \in [Runs -> Int] PROVE SumOver(S, u) \in Int
<1>1. [r \in Runs |-> IF r \in S THEN u[r] ELSE 0] \in [1..MaxRuns -> Int]
  BY DEF Runs
<1> QED BY <1>1, TotalIsInt, BoundsAssumption DEF SumOver

LEMMA SumsAlike ==
    ASSUME NEW S, NEW u, NEW t, \A r \in Runs : r \in S => u[r] = t[r]
    PROVE  SumOver(S, u) = SumOver(S, t)
<1>1. [r \in Runs |-> IF r \in S THEN u[r] ELSE 0] = [r \in Runs |-> IF r \in S THEN t[r] ELSE 0]
  OBVIOUS
<1> QED BY <1>1 DEF SumOver

(* Runs that have used nothing, or less, add nothing.                        *)
LEMMA SumsGrow ==
    ASSUME NEW A, NEW B, NEW u \in [Runs -> Int],
           \A r \in Runs : r \in A \ B => u[r] <= 0,
           \A r \in Runs : r \in B \ A => u[r] >= 0
    PROVE  SumOver(A, u) <= SumOver(B, u)
<1> DEFINE f == [r \in Runs |-> IF r \in A THEN u[r] ELSE 0]
           g == [r \in Runs |-> IF r \in B THEN u[r] ELSE 0]
<1>1. f \in [1..MaxRuns -> Int] /\ g \in [1..MaxRuns -> Int]
  BY DEF Runs
<1>2. \A r \in 1..MaxRuns : f[r] <= g[r]
  BY DEF Runs
<1>3. Total(MaxRuns, f) <= Total(MaxRuns, g)
  <2> HIDE DEF f, g
  <2> QED BY <1>1, <1>2, TotalsGrow, BoundsAssumption
<1> QED BY <1>3 DEF SumOver

LEMMA SumWith ==
    ASSUME NEW S, NEW u \in [Runs -> Int], NEW p \in Runs, p \in S
    PROVE  SumOver(S, u) = SumOver(S \ {p}, u) + u[p]
<1> DEFINE f == [r \in Runs |-> IF r \in S \ {p} THEN u[r] ELSE 0]
           g == [r \in Runs |-> IF r \in S THEN u[r] ELSE 0]
<1>1. f \in [1..MaxRuns -> Int] /\ g \in [1..MaxRuns -> Int]
  BY DEF Runs
<1>2. \A r \in 1..MaxRuns : r # p => f[r] = g[r]
  BY DEF Runs
<1>3. f[p] = 0 /\ g[p] = u[p] /\ p \in 1..MaxRuns
  BY DEF Runs
<1>4. Total(MaxRuns, g) = Total(MaxRuns, f) + g[p] - f[p]
  <2> HIDE DEF f, g
  <2> QED BY <1>1, <1>2, <1>3, TotalsDiffer, BoundsAssumption
<1>5. Total(MaxRuns, f) \in Int
  <2> HIDE DEF f
  <2> QED BY <1>1, TotalIsInt, BoundsAssumption
<1>6. u[p] \in Int
  OBVIOUS
<1>7. Total(MaxRuns, g) = Total(MaxRuns, f) + u[p]
  <2> HIDE DEF f, g
  <2> QED BY <1>3, <1>4, <1>5, <1>6
<1> QED BY <1>7 DEF SumOver

UsedBy(w) == [r \in Runs |-> Used(r, w)]

LEMMA UsedInIs == ASSUME NEW S, NEW w PROVE UsedIn(S, w) = SumOver(S, UsedBy(w))
<1>1. [r \in Runs |-> IF r \in S THEN Used(r, w) ELSE 0]
        = [r \in Runs |-> IF r \in S THEN UsedBy(w)[r] ELSE 0]
  BY DEF UsedBy
<1> QED BY <1>1 DEF UsedIn, SumOver

LEMMA UsedIsInt ==
    ASSUME TypeOK, NEW w \in Workers
    PROVE  /\ UsedBy(w) \in [Runs -> Int] /\ \A r \in Runs : Used(r, w) \in Int
           /\ \A S : UsedIn(S, w) \in Int
<1>1. ASSUME NEW r \in Runs PROVE Used(r, w) \in Int
  <2>1. items[r][w] \in Items /\ figures[r][w] \in Computed
    BY DEF TypeOK
  <2>2. items[r][w].bonus \in Int /\ figures[r][w].excess \in Int
    BY <2>1 DEF Items, Computed
  <2> QED BY <2>2 DEF Used
<1>2. UsedBy(w) \in [Runs -> Int]
  BY <1>1 DEF UsedBy
<1> QED BY <1>1, <1>2, UsedInIs, SumIsInt

-----------------------------------------------------------------------------
(* A calculation *)

LEMMA ActiveForIs ==
    ASSUME TypeOK, NEW month \in Int, ActiveFor(effective, month) # 0
    PROVE  ActiveFor(effective, month) \in Versions /\ effective[ActiveFor(effective, month)] # 0
<1> DEFINE current == {v \in DOMAIN effective : effective[v] # 0 /\ effective[v] <= month}
           T == {12 - effective[v] : v \in current}
<1>1. DOMAIN effective = Versions /\ \A v \in Versions : effective[v] \in 0..12
  BY DEF TypeOK
<1>2. current # {}
  BY DEF ActiveFor
<1>3. T \in SUBSET Nat /\ T # {}
  <2>1. \A v \in current : 12 - effective[v] \in Nat
    BY <1>1
  <2> QED BY <1>2, <2>1
<1>4. PICK x \in T : \A y \in T : x <= y
  <2> HIDE DEF T
  <2> QED BY <1>3, LeastExists
<1>5. PICK v \in current : x = 12 - effective[v]
  BY <1>4
<1>6. ASSUME NEW w \in current PROVE effective[v] >= effective[w]
  <2>1. 12 - effective[w] \in T
    OBVIOUS
  <2>2. 12 - effective[v] <= 12 - effective[w]
    BY <1>4, <1>5, <2>1
  <2> QED BY <1>1, <2>2
<1> DEFINE a == CHOOSE y \in current : \A w \in current : effective[y] >= effective[w]
<1>7. a \in current
  BY <1>6
<1>8. ActiveFor(effective, month) = a
  BY <1>2 DEF ActiveFor
<1> HIDE DEF a
<1> QED BY <1>1, <1>7, <1>8

(* Figures that are there, and what makes them.                              *)
Priced(f) ==
    /\ f \in [Workers -> Computed]
    /\ \A w \in Workers : f[w].by # 0 => f[w].by \in Versions /\ effective[f[w].by] # 0

(* ... within what the worker's year has left.                               *)
WithinLeft(r, its, f) ==
    \A w \in Workers : f[w].by # 0 =>
        2 * (its[w].bonus - f[w].excess) * Thousand
          <= 2 * AtLeast(AnnualCap(rates[f[w].by], its[w].basic) - UsedYtd(w, r) * Thousand, 0) + Thousand

LEMMA ItemIs ==
    ASSUME TypeOK, NEW r \in Runs, NEW v \in Versions, effective[v] # 0, NEW w \in Workers,
           NEW i \in Items
    PROVE  /\ CalculateItem(r, v, w, i) \in Computed
           /\ CalculateItem(r, v, w, i).by = v
           /\ 2 * (i.bonus - CalculateItem(r, v, w, i).excess) * Thousand
                <= 2 * AtLeast(AnnualCap(rates[v], i.basic) - UsedYtd(w, r) * Thousand, 0) + Thousand
<1>1. v \in Nat /\ rates[v] \in Columns /\ evidence[w] \in Evidence /\ MonthOf[r] \in Int
  <2>1. v \in Nat
    BY BoundsAssumption DEF Versions
  <2>2. rates[v] \in Columns /\ evidence[w] \in Evidence
    BY DEF TypeOK
  <2>3. MonthOf[r] \in Int
    BY MonthsAssumption
  <2> QED BY <2>1, <2>2, <2>3
<1>2. UsedYtd(w, r) \in Int
  BY UsedIsInt DEF UsedYtd
<1>3. i.bonus \in Int /\ i.basic \in Int
  BY DEF Items
<1> DEFINE f == Salaried(v, rates[v], Exact(i), UsedYtd(w, r), evidence[w], MonthOf[r])
           split == SplitBonus(rates[v], i.bonus * Thousand, i.basic * Thousand, UsedYtd(w, r))
<1>4. Exact(i) \in Items /\ Rounded(Exact(i)) = i
  BY ExactIs
<1>5. f \in Computed /\ f.by = v /\ f.excess = split[2]
  BY <1>1, <1>2, <1>4, SalariedIs
<1>6. 2 * (i.bonus - split[2]) * Thousand
        <= 2 * AtLeast(AnnualCap(rates[v], i.basic) - UsedYtd(w, r) * Thousand, 0) + Thousand
  BY <1>1, <1>2, <1>3, SplitIs
<1>7. CalculateItem(r, v, w, i) = f
  BY DEF CalculateItem
<1> HIDE DEF f, split
<1> QED BY <1>5, <1>6, <1>7

LEMMA UploadedIs ==
    ASSUME NEW its \in [Workers -> Items]
    PROVE  Priced(Uploaded(its)) /\ \A w \in Workers : Uploaded(its)[w].by = 0
<1>1. ASSUME NEW w \in Workers PROVE Uploaded(its)[w] \in Computed /\ Uploaded(its)[w].by = 0
  <2>1. /\ its[w].basic \in Int /\ its[w].allowances \in Int
        /\ its[w].loan \in Int /\ its[w].welfare \in Int /\ its[w].other \in Int
    BY DEF Items
  <2>2. /\ its[w].basic + its[w].allowances \in Int
        /\ its[w].basic + its[w].allowances - its[w].loan - its[w].welfare - its[w].other \in Int
    BY <2>1
  <2>3. Uploaded(its)[w] = [by |-> 0, gross |-> its[w].basic + its[w].allowances, taxable |-> 0,
                            excess |-> 0, paye |-> 0, ssnit |-> 0, deductions |-> 0,
                            net |-> its[w].basic + its[w].allowances
                                      - its[w].loan - its[w].welfare - its[w].other]
    BY DEF Uploaded, Blank, Figures
  <2> QED BY <2>2, <2>3 DEF Computed
<1>2. Uploaded(its) \in [Workers -> Computed]
  BY <1>1 DEF Uploaded
<1> QED BY <1>1, <1>2 DEF Priced

LEMMA RecalculatedIs ==
    ASSUME TypeOK, NEW r \in Runs, NEW v \in Versions, effective[v] # 0,
           NEW its \in [Workers -> Items], NEW old, Priced(old),
           Refused(v, its) => \A w \in Workers : old[w].by = 0
    PROVE  Priced(Recalculated(r, v, its, old)) /\ WithinLeft(r, its, Recalculated(r, v, its, old))
<1>1. CASE Refused(v, its)
  <2>1. Recalculated(r, v, its, old) = old
    BY <1>1 DEF Recalculated
  <2> QED BY <1>1, <2>1 DEF WithinLeft
<1>2. CASE ~Refused(v, its)
  <2> DEFINE f == [w \in Workers |-> CalculateItem(r, v, w, its[w])]
  <2>1. Recalculated(r, v, its, old) = f
    BY <1>2 DEF Recalculated
  <2>2. ASSUME NEW w \in Workers
        PROVE  /\ f[w] \in Computed /\ f[w].by = v
               /\ 2 * (its[w].bonus - f[w].excess) * Thousand
                    <= 2 * AtLeast(AnnualCap(rates[v], its[w].basic) - UsedYtd(w, r) * Thousand, 0) + Thousand
    BY ItemIs
  <2>3. f \in [Workers -> Computed]
    BY <2>2
  <2> HIDE DEF f
  <2> QED BY <2>1, <2>2, <2>3 DEF Priced, WithinLeft
<1> QED BY <1>1, <1>2

LEMMA SumNetIsInt == ASSUME NEW f \in [Workers -> Computed] PROVE SumNet(f) \in Int
<1>1. [w \in Workers |-> f[w].net] \in [1..MaxWorkers -> Int]
  BY DEF Workers, Computed
<1> QED BY <1>1, TotalIsInt, BoundsAssumption DEF SumNet

-----------------------------------------------------------------------------
(* The inductive invariant *)

(* Versions are numbered as they are entered: a new one replaces none.       *)
VersionsInOrder ==
    \E k \in 0..MaxVersions : \A v \in Versions : effective[v] # 0 <=> v <= k

(* A version's bands are those of the rows that were typed for it.           *)
VersionsFromOffers ==
    \A v \in Versions : effective[v] # 0 =>
        \E o \in Offers : /\ o.month = effective[v] /\ RowsAccepted(o.rows)
                          /\ rates[v].bands = BandsFromRows(o.rows)

(* Of any runs one was calculated last, so that none of them knew it.        *)
SeenIsOrdered == \A T \in SUBSET Runs : T # {} => \E s \in T : \A t \in T : s \notin seen[t]

(* A run that another was calculated from can no longer be edited.           *)
SeenStands == \A s, r \in Runs : r \in seen[s] => status[r] \notin {"none", "Draft"}

(* A sound run has used no more than what the runs that it was calculated    *)
(* from, and that stand as they were, had left.                              *)
Cap(r, w) == AnnualCap(rates[figures[r][w].by], items[r][w].basic)
SoundRun(s, w) ==
    /\ figures[s][w].by # 0
    /\ \A r \in seen[s] : Used(r, w) >= 0
    /\ 2 * Used(s, w) * Thousand <= 2 * AtLeast(Cap(s, w) - UsedIn(seen[s], w) * Thousand, 0) + Thousand
SoundRuns == \A s \in sound, w \in Workers : SoundRun(s, w)

YearInv ==
    /\ TypeOK
    /\ VersionsInOrder
    /\ VersionsFromOffers
    /\ SeenIsOrdered
    /\ SeenStands
    /\ SoundRuns

(* A calculation of run r from the inputs its.                               *)
Calculated(r, its, f) ==
    /\ items' = [items EXCEPT ![r] = its]
    /\ figures' = [figures EXCEPT ![r] = f]
    /\ Remember(r, f)
    /\ UNCHANGED rateVars

LEMMA NoItemIs == NoItem \in Items /\ Blank \in Computed /\ Blank.by = 0
BY DEF NoItem, Items, Blank, Figures, Computed

LEMMA InitHolds == Init => YearInv
<1> SUFFICES ASSUME Init PROVE YearInv
  OBVIOUS
<1>1. TypeOK
  BY NoItemIs, EvidenceAssumption, BoundsAssumption DEF Init, TypeOK, Statuses
<1>2. VersionsInOrder
  <2>1. \A v \in Versions : effective[v] # 0 <=> v <= 0
    BY BoundsAssumption DEF Init, Versions
  <2>2. 0 \in 0..MaxVersions
    BY BoundsAssumption
  <2> QED BY <2>1, <2>2 DEF VersionsInOrder
<1> QED BY <1>1, <1>2 DEF Init, YearInv, VersionsFromOffers, SeenIsOrdered, SeenStands, SoundRuns

(* A confirmed sheet's figures.                                              *)
LEMMA ImportIs ==
    ASSUME TypeOK, NEW r \in Runs, NEW its \in Sheets, NEW p, Import(r, its, p)
    PROVE  \E f : /\ Calculated(r, its, f) /\ Priced(f) /\ WithinLeft(r, its, f)
                  /\ stamp' = [stamp EXCEPT ![r] = ActiveFor(effective, MonthOf[r])]
                  /\ \E net \in Int : totalNet' = [totalNet EXCEPT ![r] = net]
<1> DEFINE v == ActiveFor(effective, MonthOf[r])
           f == IF v = 0 THEN Uploaded(its) ELSE Recalculated(r, v, its, Uploaded(its))
           failed == v = 0 \/ Refused(v, its) \/ ~Verified(v, its, f)
<1>1. its \in [Workers -> Items]
  BY InputsAssumption
<1>2. Priced(Uploaded(its)) /\ \A w \in Workers : Uploaded(its)[w].by = 0
  BY <1>1, UploadedIs
<1>3. Priced(f) /\ WithinLeft(r, its, f)
  <2>1. CASE v = 0
    BY <1>2, <2>1 DEF WithinLeft
  <2>2. CASE v # 0
    <3>1. MonthOf[r] \in Int
      BY MonthsAssumption
    <3>2. v \in Versions /\ effective[v] # 0
      BY <2>2, <3>1, ActiveForIs
    <3> HIDE DEF v
    <3> QED BY <1>1, <1>2, <2>2, <3>2, RecalculatedIs
  <2> QED BY <2>1, <2>2
<1>4. Calculated(r, its, f) /\ stamp' = [stamp EXCEPT ![r] = v]
  BY DEF Import, Calculated
<1>5. totalNet' = [totalNet EXCEPT ![r] = SumNet(IF failed THEN Uploaded(its) ELSE f)]
  BY DEF Import
<1> HIDE DEF f, failed, v
<1>6. SumNet(IF failed THEN Uploaded(its) ELSE f) \in Int
  BY <1>2, <1>3, SumNetIsInt DEF Priced
<1> QED BY <1>3, <1>4, <1>5, <1>6 DEF v

LEMMA CalculateIs ==
    ASSUME TypeOK, NEW r \in Runs, Calculate(r)
    PROVE  \E f : /\ Calculated(r, items[r], f) /\ Priced(f) /\ WithinLeft(r, items[r], f)
                  /\ stamp' = [stamp EXCEPT ![r] = ActiveFor(effective, MonthOf[r])]
                  /\ \E net \in Int : totalNet' = [totalNet EXCEPT ![r] = net]
<1> DEFINE v == ActiveFor(effective, MonthOf[r])
           f == Recalculated(r, v, items[r], figures[r])
<1>1. items[r] \in [Workers -> Items] /\ Priced(figures[r])
  BY DEF TypeOK, Priced
<1>2. v \in Versions /\ effective[v] # 0
  <2>1. MonthOf[r] \in Int /\ v # 0
    BY MonthsAssumption DEF Calculate
  <2> QED BY <2>1, ActiveForIs
<1>3. ~Refused(v, items[r])
  BY DEF Calculate
<1>4. Priced(f) /\ WithinLeft(r, items[r], f)
  <2> HIDE DEF v
  <2> QED BY <1>1, <1>2, <1>3, RecalculatedIs
<1>5. items' = [items EXCEPT ![r] = items[r]]
  BY DEF Calculate, TypeOK
<1>6. Calculated(r, items[r], f) /\ stamp' = [stamp EXCEPT ![r] = v]
  BY <1>5 DEF Calculate, Calculated
<1>7. totalNet' = [totalNet EXCEPT ![r] = SumNet(f)]
  BY DEF Calculate
<1> HIDE DEF f, v
<1>8. SumNet(f) \in Int
  BY <1>4, SumNetIsInt DEF Priced
<1> QED BY <1>4, <1>6, <1>7, <1>8 DEF v

(* A new version is entered where there was none.                            *)
LEMMA NewVersionIsNew ==
    ASSUME TypeOK, VersionsInOrder, NEW v \in Versions, NEW o, NewVersion(v, o)
    PROVE  effective[v] = 0 /\ VersionsInOrder'
<1>1. PICK k \in 0..MaxVersions : \A w \in Versions : effective[w] # 0 <=> w <= k
  BY DEF VersionsInOrder
<1>2. {w \in Versions : effective[w] # 0} = 1..k
  BY <1>1, BoundsAssumption DEF Versions
<1>3. Cardinality(1..k) = k
  BY <1>1, FS_Interval, BoundsAssumption
<1>4. v = k + 1
  <2>1. v = 1 + Cardinality({w \in Versions : effective[w] # 0})
    BY DEF NewVersion
  <2>2. v = 1 + k
    BY <1>2, <1>3, <2>1
  <2> QED BY <1>1, <2>2, BoundsAssumption
<1>5. effective[v] = 0
  BY <1>1, <1>4, BoundsAssumption
<1>6. effective' = [effective EXCEPT ![v] = o.month] /\ o.month # 0
  <2>1. \A w \in Versions : effective[w] # o.month
    BY DEF NewVersion
  <2> QED BY <1>5, <2>1 DEF NewVersion
<1>7. \A w \in Versions : effective'[w] # 0 <=> w <= v
  BY <1>1, <1>4, <1>6, BoundsAssumption DEF TypeOK, Versions
<1>8. v \in 0..MaxVersions
  BY BoundsAssumption DEF Versions
<1> QED BY <1>5, <1>7, <1>8 DEF VersionsInOrder

LEMMA ColumnsExcept ==
    ASSUME NEW c \in Columns, NEW bands \in SUBSET Band, NEW policy \in 0..1
    PROVE  [c EXCEPT !.bands = bands, !.policy = policy] \in Columns
BY DEF Columns

LEMMA RequestIs == ASSUME TypeOK, Request PROVE requests' \in 0..MaxRequests
<1>1. requests \in 0..MaxRequests
  BY DEF TypeOK
<1> QED BY <1>1, BoundsAssumption DEF Request

(* Types are kept by every request.                                          *)
LEMMA TypesKept ==
    ASSUME TypeOK, [Next]_vars
    PROVE  TypeOK'
<1> USE DEF TypeOK
<1>1. ASSUME NEW v \in Versions, NEW o \in Offers, NewVersion(v, o) PROVE TypeOK'
  <2>1. o.month \in 1..12 /\ o.rows \in Seq(Int \X Int) /\ o.columns \in Columns
    BY OffersAssumption
  <2>2. BandsFromRows(o.rows) \in SUBSET Band
    BY <1>1, <2>1, BandsAre DEF NewVersion
  <2>3. [o.columns EXCEPT !.bands = BandsFromRows(o.rows),
                          !.policy = IF o.month >= PolicyMonth THEN 1 ELSE 0] \in Columns
    <3>1. (IF o.month >= PolicyMonth THEN 1 ELSE 0) \in 0..1
      OBVIOUS
    <3> QED BY <2>1, <2>2, <3>1, ColumnsExcept
  <2>4. effective' \in [Versions -> 0..12] /\ \A w \in Versions : w # v => effective'[w] = effective[w]
    BY <1>1, <2>1 DEF NewVersion
  <2>5. effective'[v] # 0
    BY <1>1, <2>1 DEF NewVersion
  <2>6. ASSUME NEW w \in Versions, effective'[w] # 0 PROVE rates'[w] \in Columns
    <3>1. CASE w = v
      <4>1. rates'[v] \in Columns
        BY <1>1, <2>3 DEF NewVersion
      <4> QED BY <3>1, <4>1
    <3>2. CASE w # v
      BY <1>1, <2>4, <2>6, <3>2 DEF NewVersion
    <3> QED BY <3>1, <3>2
  <2>7. UNCHANGED <<runVars, evidence, history>> /\ requests' \in 0..MaxRequests
              /\ DOMAIN rates' = Versions
    BY <1>1, RequestIs DEF NewVersion
  <2> QED BY <2>4, <2>5, <2>6, <2>7 DEF runVars, history
<1>2. ASSUME NEW r \in Runs, NEW its, NEW f, its \in [Workers -> Items], Calculated(r, its, f), Priced(f),
             NEW net \in Int, totalNet' = [totalNet EXCEPT ![r] = net],
             stamp' = [stamp EXCEPT ![r] = ActiveFor(effective, MonthOf[r])],
             status' \in [Runs -> Statuses], requests' \in 0..MaxRequests, evidence' = evidence
      PROVE TypeOK'
  <2>1. items' \in [Runs -> [Workers -> Items]] /\ figures' \in [Runs -> [Workers -> Computed]]
    BY <1>2 DEF Calculated, Priced
  <2>2. effective' = effective /\ rates' = rates
    BY <1>2 DEF Calculated, rateVars
  <2>3. ASSUME NEW s \in Runs, NEW w \in Workers, figures'[s][w].by # 0
        PROVE  figures'[s][w].by \in Versions /\ effective'[figures'[s][w].by] # 0
    BY <1>2, <2>2, <2>3 DEF Calculated, Priced
  <2>4. seen' \in [Runs -> SUBSET Runs] /\ sound' \subseteq Runs
    BY <1>2 DEF Calculated, Remember, Closed
  <2>5. stamp' \in [Runs -> Versions \cup {0}]
    <3>1. MonthOf[r] \in 1..12
      BY MonthsAssumption
    <3>2. ActiveFor(effective, MonthOf[r]) \in Versions \cup {0}
      <4> HIDE DEF TypeOK
      <4> QED BY <3>1, ActiveForIs
    <3> QED BY <1>2, <3>2
  <2>6. totalNet' \in [Runs -> Int]
    BY <1>2
  <2> QED BY <1>2, <2>1, <2>2, <2>3, <2>4, <2>5, <2>6
<1>3. ASSUME NEW r \in Runs, NEW its \in Sheets, NEW p, Import(r, its, p) PROVE TypeOK'
  <2>1. PICK f : /\ Calculated(r, its, f) /\ Priced(f)
                 /\ stamp' = [stamp EXCEPT ![r] = ActiveFor(effective, MonthOf[r])]
                 /\ \E net \in Int : totalNet' = [totalNet EXCEPT ![r] = net]
    BY <1>3, ImportIs
  <2>2. its \in [Workers -> Items]
    BY InputsAssumption
  <2>3. status' \in [Runs -> Statuses] /\ requests' \in 0..MaxRequests /\ evidence' = evidence
    <3>1. status' \in [Runs -> Statuses]
      BY <1>3 DEF Import, Statuses
    <3>2. Request /\ evidence' = evidence
      BY <1>3 DEF Import
    <3> HIDE DEF TypeOK
    <3> QED BY <3>1, <3>2, RequestIs
  <2> HIDE DEF TypeOK
  <2> QED BY <1>2, <2>1, <2>2, <2>3
<1>4. ASSUME NEW r \in Runs, Calculate(r) PROVE TypeOK'
  <2>1. PICK f : /\ Calculated(r, items[r], f) /\ Priced(f)
                 /\ stamp' = [stamp EXCEPT ![r] = ActiveFor(effective, MonthOf[r])]
                 /\ \E net \in Int : totalNet' = [totalNet EXCEPT ![r] = net]
    BY <1>4, CalculateIs
  <2>2. items[r] \in [Workers -> Items]
    OBVIOUS
  <2>3. status' \in [Runs -> Statuses] /\ requests' \in 0..MaxRequests /\ evidence' = evidence
    <3>1. status' = status /\ Request /\ evidence' = evidence
      BY <1>4 DEF Calculate
    <3> QED BY <3>1, RequestIs
  <2> HIDE DEF TypeOK
  <2> QED BY <1>2, <2>1, <2>2, <2>3
<1>5. ASSUME NEW r \in Runs, NEW w \in Workers, NEW i \in Edits, EditItem(r, w, i) PROVE TypeOK'
  <2>1. i \in Items
    BY InputsAssumption
  <2>2. requests' \in 0..MaxRequests
    BY <1>5, RequestIs DEF EditItem
  <2> QED BY <1>5, <2>1, <2>2 DEF EditItem, rateVars
<1>6. ASSUME NEW r \in Runs, NEW to \in {"Pending Approval", "Approved", "Rejected", "Processed"}, Move(r, to)
      PROVE TypeOK'
  <2>1. requests' \in 0..MaxRequests
    BY <1>6, RequestIs DEF Move
  <2>2. status' \in [Runs -> Statuses]
    BY <1>6 DEF Move, Statuses
  <2> QED BY <1>6, <2>1, <2>2 DEF Move, rateVars, history
<1>7. ASSUME NEW w \in Workers, NEW e \in Evidences, RecordEvidence(w, e) PROVE TypeOK'
  <2>1. e \in Evidence
    BY EvidenceAssumption
  <2>2. requests' \in 0..MaxRequests
    BY <1>7, RequestIs DEF RecordEvidence
  <2> QED BY <1>7, <2>1, <2>2 DEF RecordEvidence, rateVars, runVars, history
<1>8. CASE UNCHANGED vars
  BY <1>8 DEF vars, rateVars, runVars, history
<1> QED BY <1>1, <1>3, <1>4, <1>5, <1>6, <1>7, <1>8 DEF Next

-----------------------------------------------------------------------------
(* The history *)

LEMMA SeenKept ==
    ASSUME TypeOK, SeenIsOrdered, SeenStands, NEW r \in Runs, NEW its, NEW f, Calculated(r, its, f),
           \A q \in Runs \ {r} : status'[q] = status[q]
    PROVE  SeenIsOrdered' /\ SeenStands'
<1>1. /\ seen'[r] = Closed \ {r}
      /\ \A s \in Runs : s # r => seen'[s] = seen[s] \ {r}
  BY DEF Calculated, Remember
<1>2. ASSUME NEW T \in SUBSET Runs, T # {} PROVE \E s \in T : \A t \in T : s \notin seen'[t]
  <2>1. CASE r \in T
    <3>1. \A t \in T : r \notin seen'[t]
      BY <1>1
    <3> QED BY <2>1, <3>1
  <2>2. CASE r \notin T
    <3>1. PICK s \in T : \A t \in T : s \notin seen[t]
      BY <1>2 DEF SeenIsOrdered
    <3>2. \A t \in T : s \notin seen'[t]
      BY <1>1, <2>2, <3>1
    <3> QED BY <3>2
  <2> QED BY <2>1, <2>2
<1>3. ASSUME NEW s \in Runs, NEW q \in Runs, q \in seen'[s] PROVE status'[q] \notin {"none", "Draft"}
  <2>1. q # r
    BY <1>1, <1>3
  <2>2. status[q] \notin {"none", "Draft"}
    <3>1. CASE s = r
      BY <1>1, <1>3, <3>1 DEF Closed, CLOSED_STATUSES
    <3>2. CASE s # r
      BY <1>1, <1>3, <3>2 DEF SeenStands
    <3> QED BY <3>1, <3>2
  <2> QED BY <2>1, <2>2
<1> QED BY <1>2, <1>3 DEF SeenIsOrdered, SeenStands

LEMMA LeftGrows ==
    ASSUME NEW u \in Int, NEW cap \in Int, NEW x \in Int, NEW y \in Int, y <= x,
           2 * u * Thousand <= 2 * AtLeast(cap - x * Thousand, 0) + Thousand
    PROVE  2 * u * Thousand <= 2 * AtLeast(cap - y * Thousand, 0) + Thousand
BY DEF AtLeast, Thousand

LEMMA CapIsInt ==
    ASSUME TypeOK, NEW s \in Runs, NEW w \in Workers, figures[s][w].by # 0
    PROVE  Cap(s, w) \in Int
<1>1. rates[figures[s][w].by] \in Columns /\ items[s][w] \in Items
  BY DEF TypeOK
<1>2. items[s][w].basic \in Int
  BY <1>1 DEF Items
<1>3. AnnualCap(rates[figures[s][w].by], items[s][w].basic) \in Int
  BY <1>1, <1>2, SplitIsInt
<1> QED BY <1>3 DEF Cap

(* A sound run stays within its part when what it was calculated from, and   *)
(* its own columns, stay.                                                    *)
LEMMA SoundSame ==
    ASSUME TypeOK, NEW s \in Runs, NEW w \in Workers, SoundRun(s, w), NEW r, r # s,
           \A q \in Runs : q # r \/ q \in seen'[s] => items'[q][w] = items[q][w] /\ figures'[q][w] = figures[q][w],
           seen'[s] = seen[s] \/ seen'[s] = seen[s] \ {r},
           rates'[figures[s][w].by] = rates[figures[s][w].by]
    PROVE  SoundRun(s, w)'
<1> DEFINE u == UsedBy(w)
           t == UsedBy(w)'
           A == seen[s]
           B == seen'[s]
<1>1. u \in [Runs -> Int] /\ Used(s, w) \in Int /\ A \subseteq Runs /\ B \subseteq A
  BY UsedIsInt DEF TypeOK
<1>2. \A q \in Runs : q # r \/ q \in B => Used(q, w)' = Used(q, w)
  BY DEF Used
<1>3. \A q \in Runs : q \in B => t[q] = u[q]
  BY <1>2 DEF UsedBy
<1>4. UsedIn(A, w) = SumOver(A, u)
  BY UsedInIs
<1>5. UsedIn(seen[s], w)' = SumOver(B, t)
  <2>1. [q \in Runs |-> IF q \in B THEN Used(q, w)' ELSE 0] = [q \in Runs |-> IF q \in B THEN t[q] ELSE 0]
    BY DEF UsedBy
  <2> QED BY <2>1 DEF UsedIn, SumOver
<1>6. SumOver(B, t) = SumOver(B, u)
  <2> HIDE DEF t, u, B
  <2> QED BY <1>3, SumsAlike
<1>7. \A q \in A : Used(q, w) >= 0 /\ u[q] >= 0
  BY <1>1 DEF SoundRun, UsedBy
<1>8. SumOver(B, u) <= SumOver(A, u)
  <2> HIDE DEF A, B, u
  <2> QED BY <1>1, <1>7, SumsGrow
<1>9. SumOver(A, u) \in Int /\ SumOver(B, u) \in Int
  <2> HIDE DEF A, B, u
  <2> QED BY <1>1, SumIsInt
<1>10. Cap(s, w) \in Int /\ Cap(s, w)' = Cap(s, w)
  <2>1. Cap(s, w) \in Int
    BY CapIsInt DEF SoundRun
  <2> QED BY <2>1 DEF Cap
<1>11. Used(s, w)' = Used(s, w)
  BY <1>2
<1>12. 2 * Used(s, w) * Thousand <= 2 * AtLeast(Cap(s, w) - SumOver(A, u) * Thousand, 0) + Thousand
  BY <1>4 DEF SoundRun
<1>13. 2 * Used(s, w) * Thousand <= 2 * AtLeast(Cap(s, w) - SumOver(B, u) * Thousand, 0) + Thousand
  <2> HIDE DEF A, B, u
  <2> QED BY <1>1, <1>8, <1>9, <1>10, <1>12, LeftGrows
<1>14. (figures[s][w].by # 0)' /\ \A q \in B : Used(q, w)' >= 0
  BY <1>1, <1>2, <1>7 DEF SoundRun
<1> QED BY <1>5, <1>6, <1>10, <1>11, <1>13, <1>14 DEF SoundRun

LEMMA SoundKept ==
    ASSUME TypeOK, SoundRuns, SeenIsOrdered, NEW r \in Runs, NEW its, NEW f, Calculated(r, its, f),
           Priced(f), WithinLeft(r, its, f)
    PROVE  SoundRuns'
<1>1. /\ seen'[r] = Closed \ {r}
      /\ \A s \in Runs : s # r => seen'[s] = seen[s] \ {r}
  BY DEF Calculated, Remember
<1>2. sound \subseteq Runs /\ sound' \subseteq sound \cup {r}
  BY DEF Calculated, Remember, TypeOK
<1>3. /\ items'[r] = its /\ figures'[r] = f /\ rates' = rates
      /\ \A q \in Runs : q # r => items'[q] = items[q] /\ figures'[q] = figures[q]
  BY DEF Calculated, rateVars, TypeOK
<1>4. ASSUME NEW w \in Workers, r \in sound' PROVE SoundRun(r, w)'
  <2>1. f[w].by # 0 /\ \A q \in Closed \ {r} : Used(q, w) >= 0
    BY <1>4 DEF Calculated, Remember
  <2> DEFINE u == UsedBy(w)
             t == UsedBy(w)'
             A == Closed \ {r}
  <2>2. \A q \in Runs : q # r => Used(q, w)' = Used(q, w)
    BY <1>3 DEF Used
  <2>3. \A q \in Runs : q \in A => t[q] = u[q]
    BY <2>2 DEF UsedBy
  <2>4. UsedYtd(w, r) = SumOver(A, u)
    BY UsedInIs DEF UsedYtd
  <2>5. UsedIn(seen[r], w)' = SumOver(A, t)
    <3>1. [q \in Runs |-> IF q \in A THEN Used(q, w)' ELSE 0] = [q \in Runs |-> IF q \in A THEN t[q] ELSE 0]
      BY DEF UsedBy
    <3> QED BY <1>1, <3>1 DEF UsedIn, SumOver
  <2>6. SumOver(A, t) = SumOver(A, u)
    <3> HIDE DEF t, u, A
    <3> QED BY <2>3, SumsAlike
  <2>7. Used(r, w)' = its[w].bonus - f[w].excess
    BY <1>3 DEF Used
  <2>8. Cap(r, w)' = AnnualCap(rates[f[w].by], its[w].basic)
    BY <1>3 DEF Cap
  <2>9. 2 * (its[w].bonus - f[w].excess) * Thousand
          <= 2 * AtLeast(AnnualCap(rates[f[w].by], its[w].basic) - UsedYtd(w, r) * Thousand, 0) + Thousand
    BY <2>1 DEF WithinLeft
  <2>10. \A q \in seen'[r] : Used(q, w)' >= 0
    BY <1>1, <2>1, <2>2 DEF Closed
  <2> QED BY <1>3, <2>1, <2>4, <2>5, <2>6, <2>7, <2>8, <2>9, <2>10 DEF SoundRun
<1>5. ASSUME NEW s \in sound', NEW w \in Workers, s # r PROVE SoundRun(s, w)'
  <2>1. s \in Runs /\ SoundRun(s, w)
    BY <1>2, <1>5 DEF SoundRuns
  <2>2. seen'[s] = seen[s] \ {r}
    BY <1>1, <1>5, <2>1
  <2> QED BY <1>3, <1>5, <2>1, <2>2, SoundSame
<1> QED BY <1>4, <1>5 DEF SoundRuns

(* Every request keeps the invariant.                                        *)
LEMMA YearInvKept ==
    ASSUME YearInv, [Next]_vars
    PROVE  YearInv'
<1>1. TypeOK' /\ TypeOK
  BY TypesKept DEF YearInv
<1> USE DEF YearInv
<1>2. ASSUME NEW v \in Versions, NEW o \in Offers, NewVersion(v, o) PROVE YearInv'
  <2>1. effective[v] = 0 /\ VersionsInOrder'
    BY <1>1, <1>2, NewVersionIsNew
  <2>2. /\ effective'[v] = o.month /\ rates'[v].bands = BandsFromRows(o.rows)
        /\ \A w \in Versions : w # v => effective'[w] = effective[w] /\ rates'[w] = rates[w]
    <3>1. o.columns \in Columns
      BY OffersAssumption
    <3>2. DOMAIN rates = Versions /\ DOMAIN effective = Versions
      BY <1>1 DEF TypeOK
    <3> QED BY <1>2, <3>1, <3>2 DEF NewVersion, Columns
  <2>3. VersionsFromOffers'
    BY <1>2, <2>2 DEF VersionsFromOffers, NewVersion
  <2>4. UNCHANGED <<runVars, evidence, history>>
    BY <1>2 DEF NewVersion
  <2>5. SeenIsOrdered' /\ SeenStands'
    BY <2>4 DEF SeenIsOrdered, SeenStands, runVars, history
  <2>6. ASSUME NEW s \in sound', NEW w \in Workers PROVE SoundRun(s, w)'
    <3>1. s \in Runs /\ SoundRun(s, w)
      BY <1>1, <2>4, <2>6 DEF SoundRuns, TypeOK, history
    <3>2. figures[s][w].by \in Versions /\ figures[s][w].by # v
      BY <1>1, <2>1, <3>1 DEF SoundRun, TypeOK
    <3>3. rates'[figures[s][w].by] = rates[figures[s][w].by]
      BY <2>2, <3>2
    <3>4. 0 # s
      BY <3>1 DEF Runs
    <3> QED BY <1>1, <2>4, <3>1, <3>3, <3>4, SoundSame DEF runVars, history
  <2> QED BY <1>1, <2>1, <2>3, <2>5, <2>6 DEF SoundRuns
<1>3. ASSUME NEW r \in Runs, NEW its, NEW f, Calculated(r, its, f), Priced(f), WithinLeft(r, its, f),
             \A q \in Runs \ {r} : status'[q] = status[q]
      PROVE YearInv'
  <2>1. SeenIsOrdered' /\ SeenStands'
    BY <1>1, <1>3, SeenKept
  <2>2. SoundRuns'
    BY <1>1, <1>3, SoundKept
  <2>3. VersionsInOrder' /\ VersionsFromOffers'
    BY <1>3 DEF Calculated, rateVars, VersionsInOrder, VersionsFromOffers
  <2> QED BY <1>1, <2>1, <2>2, <2>3
<1>4. ASSUME NEW r \in Runs, NEW its \in Sheets, NEW p, Import(r, its, p) PROVE YearInv'
  <2>1. PICK f : Calculated(r, its, f) /\ Priced(f) /\ WithinLeft(r, its, f)
    BY <1>1, <1>4, ImportIs
  <2>2. \A q \in Runs \ {r} : status'[q] = status[q]
    BY <1>1, <1>4 DEF Import, TypeOK
  <2> HIDE DEF YearInv
  <2> QED BY <1>3, <2>1, <2>2
<1>5. ASSUME NEW r \in Runs, Calculate(r) PROVE YearInv'
  <2>1. PICK f : Calculated(r, items[r], f) /\ Priced(f) /\ WithinLeft(r, items[r], f)
    BY <1>1, <1>5, CalculateIs
  <2>2. \A q \in Runs \ {r} : status'[q] = status[q]
    BY <1>5 DEF Calculate
  <2> HIDE DEF YearInv
  <2> QED BY <1>3, <2>1, <2>2
<1>6. ASSUME NEW r \in Runs, NEW w \in Workers, NEW i \in Edits, EditItem(r, w, i) PROVE YearInv'
  <2>1. /\ UNCHANGED <<rateVars, status, figures, seen>> /\ status[r] = "Draft"
        /\ sound' = sound \ {r} /\ \A q \in Runs : q # r => items'[q] = items[q]
    BY <1>1, <1>6 DEF EditItem, TypeOK
  <2>2. VersionsInOrder' /\ VersionsFromOffers' /\ SeenIsOrdered' /\ SeenStands'
    BY <2>1 DEF VersionsInOrder, VersionsFromOffers, SeenIsOrdered, SeenStands, rateVars
  <2>3. ASSUME NEW s \in sound', NEW x \in Workers PROVE SoundRun(s, x)'
    <3>1. s \in Runs /\ SoundRun(s, x) /\ s # r
      BY <1>1, <2>1, <2>3 DEF SoundRuns, TypeOK
    <3>2. r \notin seen'[s]
      BY <2>1, <3>1 DEF SeenStands
    <3> QED BY <1>1, <2>1, <3>1, <3>2, SoundSame DEF rateVars
  <2> QED BY <1>1, <2>2, <2>3 DEF SoundRuns
<1>7. ASSUME UNCHANGED <<rateVars, items, figures, history>>,
             \A s, r \in Runs : status[r] \notin {"none", "Draft"} => status'[r] \notin {"none", "Draft"}
      PROVE YearInv'
  <2>1. VersionsInOrder' /\ VersionsFromOffers' /\ SeenIsOrdered' /\ SeenStands'
    BY <1>7 DEF VersionsInOrder, VersionsFromOffers, SeenIsOrdered, SeenStands, rateVars, history
  <2>2. ASSUME NEW s \in sound', NEW x \in Workers PROVE SoundRun(s, x)'
    <3>1. s \in Runs /\ SoundRun(s, x)
      BY <1>1, <1>7, <2>2 DEF SoundRuns, TypeOK, history
    <3>2. 0 # s
      BY <3>1 DEF Runs
    <3> QED BY <1>1, <1>7, <3>1, <3>2, SoundSame DEF rateVars, history
  <2> QED BY <1>1, <2>1, <2>2 DEF SoundRuns
<1>8. ASSUME NEW r \in Runs, NEW to \in {"Pending Approval", "Approved", "Rejected", "Processed"}, Move(r, to)
      PROVE YearInv'
  <2>1. \A q \in Runs : status'[q] = IF q = r THEN to ELSE status[q]
    BY <1>1, <1>8 DEF Move, TypeOK
  <2>2. UNCHANGED <<rateVars, items, figures, history>>
    BY <1>8 DEF Move
  <2> HIDE DEF YearInv
  <2> QED BY <1>7, <2>1, <2>2
<1>9. ASSUME NEW w \in Workers, NEW e \in Evidences, RecordEvidence(w, e) PROVE YearInv'
  <2> HIDE DEF YearInv
  <2> QED BY <1>7, <1>9 DEF RecordEvidence, runVars
<1>10. CASE UNCHANGED vars
  <2> HIDE DEF YearInv
  <2> QED BY <1>7, <1>10 DEF vars, runVars
<1> HIDE DEF YearInv
<1> QED BY <1>2, <1>4, <1>5, <1>6, <1>8, <1>9, <1>10 DEF Next

LEMMA YearInvAlways == Spec => []YearInv
BY InitHolds, YearInvKept, PTL DEF Spec

-----------------------------------------------------------------------------
(* The theorems *)

(* Types are kept by every upload, calculation, edit and version: in          *)
(* particular every calculated figure is of a version that is in force.       *)
THEOREM YearTypesAlways == Spec => []TypeOK
<1>1. YearInv => TypeOK
  BY DEF YearInv
<1> QED BY <1>1, YearInvAlways, PTL

(* The bands that bands_from_rows stores tax any income as the rows that were *)
(* typed say, within the pesewa of the two roundings, for any rows in any     *)
(* order.                                                                     *)
THEOREM PayeIsMarginalAlways == Spec => []PayeIsMarginal
<1>1. YearInv => PayeIsMarginal
  <2> SUFFICES ASSUME YearInv, NEW v \in Versions, effective[v] # 0
               PROVE  \E o \in Offers :
                         /\ o.month = effective[v]
                         /\ \A t \in 0..o.incomes :
                              Distance(ComputePaye(rates[v].bands, t) * Thousand, TaxBelow(o.rows, t)) <= Thousand
    BY DEF PayeIsMarginal
  <2>1. PICK o \in Offers : /\ o.month = effective[v] /\ RowsAccepted(o.rows)
                            /\ rates[v].bands = BandsFromRows(o.rows)
    BY DEF YearInv, VersionsFromOffers
  <2>2. o.rows \in Seq(Int \X Int) /\ o.incomes \in Nat
    BY OffersAssumption
  <2>3. ASSUME NEW t \in 0..o.incomes
        PROVE  Distance(ComputePaye(rates[v].bands, t) * Thousand, TaxBelow(o.rows, t)) <= Thousand
    BY <2>1, <2>2, BandsAreMarginal
  <2> QED BY <2>1, <2>3
<1> QED BY <1>1, YearInvAlways, PTL

LEMMA EnginesAgreeOnAny ==
    ASSUME NEW v \in Nat, rates[v] \in Columns, NEW t \in Items, NEW used \in Int,
           NEW e \in Evidence, NEW month \in Int
    PROVE  EnginesAgreeOn(v, t, used, e, month)
<1> DEFINE raw == RawPayslip(v, rates[v], t, used, e, month)
           hourly == Hourly(v, rates[v], t, used, e, month)
           sheet == Salaried(v, rates[v], SheetOnly(t), used, e, month)
           hours == Salaried(v, rates[v], HoursOnly(t), used, e, month)
           dues == IcuDues(rates[v], t.basic, t.member)
           i == Rounded(t)
           x == Rounded(SheetOnly(t))
           h == Rounded(HoursOnly(t))
<1>1. ASSUME t = Exact(i)
      PROVE  raw = WithDues(sheet, dues) /\ hourly = hours
  <2>1. raw = WithDues(sheet, dues)
    BY <1>1, RawIsSheet
  <2>2. hourly = hours
    BY <1>1, HourlyIsHours
  <2> QED BY <2>1, <2>2
<1>2. /\ t.basic \in Int /\ t.allowances \in Int /\ t.difference \in Int /\ t.bonus \in Int
      /\ t.overtime \in Int /\ t.pf \in Int /\ t.loan \in Int /\ t.welfare \in Int
      /\ t.other \in Int
  BY DEF Items
<1>3. /\ i.basic = Money(t.basic) /\ i.allowances = Money(t.allowances)
      /\ i.difference = Money(t.difference) /\ i.bonus = Money(t.bonus)
      /\ i.overtime = Money(t.overtime) /\ i.pf = Money(t.pf) /\ i.loan = Money(t.loan)
      /\ i.welfare = Money(t.welfare) /\ i.other = Money(t.other)
  <2> HIDE DEF i
  <2>1. i = [basic |-> Money(t.basic), allowances |-> Money(t.allowances),
             difference |-> Money(t.difference), bonus |-> Money(t.bonus),
             overtime |-> Money(t.overtime), pf |-> Money(t.pf),
             pfEmployer |-> Money(t.pfEmployer), relief |-> Money(t.relief),
             loan |-> Money(t.loan), welfare |-> Money(t.welfare),
             other |-> Money(t.other), advance |-> Money(t.advance),
             member |-> t.member]
    BY RoundedIs DEF i
  <2> QED BY <2>1
<1>4. /\ i \in Items /\ SheetOnly(t) \in Items
      /\ x.basic = i.basic /\ x.allowances = i.allowances /\ x.difference = i.difference
      /\ x.bonus = i.bonus /\ x.overtime = i.overtime /\ x.pf = i.pf
      /\ x.loan = i.loan /\ x.welfare = i.welfare /\ x.other = i.other
  BY SheetOnlyIs
<1>5. /\ HoursOnly(t) \in Items
      /\ h.basic = i.basic /\ h.allowances = i.allowances /\ h.difference = i.difference
      /\ h.bonus = i.bonus /\ h.overtime = i.overtime /\ h.pf = i.pf
      /\ h.loan = 0 /\ h.welfare = 0 /\ h.other = 0
  BY HoursOnlyIs
<1>6. /\ raw.paye \in Int /\ raw.ssnit \in Int
      /\ raw.gross = Money(t.basic + Money(t.overtime) * Thousand + t.allowances
                             + t.bonus + t.difference)
      /\ raw.deductions = Money((raw.paye + raw.ssnit + dues) * Thousand
                                  + t.pf + t.loan + t.welfare + t.other)
  BY RawIs
<1>7. /\ hourly.paye \in Int /\ hourly.ssnit \in Int
      /\ hourly.gross = i.basic + i.overtime + i.bonus + i.allowances + i.difference
      /\ hourly.deductions = Money((hourly.ssnit + hourly.paye) * Thousand + t.pf)
  BY HourlyIs
<1>8. /\ sheet.paye \in Int /\ sheet.ssnit \in Int
      /\ sheet.gross = x.basic + x.allowances + x.bonus + x.overtime + x.difference
      /\ sheet.deductions = sheet.ssnit + sheet.paye + x.pf + x.loan + x.welfare + x.other
  <2>1. sheet \in Computed
    BY <1>4, SalariedIs
  <2>2. sheet.paye \in Int /\ sheet.ssnit \in Int
    <3> HIDE DEF sheet
    <3> QED BY <2>1 DEF Computed
  <2> QED BY <1>4, <2>2, SalariedIs
<1>9. /\ hours.paye \in Int /\ hours.ssnit \in Int
      /\ hours.gross = h.basic + h.allowances + h.bonus + h.overtime + h.difference
      /\ hours.deductions = hours.ssnit + hours.paye + h.pf + h.loan + h.welfare + h.other
  <2>1. hours \in Computed
    BY <1>5, SalariedIs
  <2>2. hours.paye \in Int /\ hours.ssnit \in Int
    <3> HIDE DEF hours
    <3> QED BY <2>1 DEF Computed
  <2> QED BY <1>5, <2>2, SalariedIs
<1>10. dues \in Int
  BY <1>2, DuesAreInt
<1> DEFINE basic == Money(t.basic)
           allowances == Money(t.allowances)
           difference == Money(t.difference)
           bonus == Money(t.bonus)
           overtime == Money(t.overtime)
           pf == Money(t.pf)
           loan == Money(t.loan)
           welfare == Money(t.welfare)
           other == Money(t.other)
<1>11. /\ basic \in Int /\ allowances \in Int /\ difference \in Int /\ bonus \in Int
       /\ overtime \in Int /\ pf \in Int /\ loan \in Int /\ welfare \in Int /\ other \in Int
  BY <1>2, MoneyIsNear
<1>12. Distance(raw.gross, sheet.gross) <= 2
  <2>1. Distance(Money(overtime * Thousand + t.basic + t.allowances + t.bonus + t.difference),
                 overtime + basic + allowances + bonus + difference) <= 2
    BY <1>2, <1>11, SumsAreNear
  <2>2. t.basic + overtime * Thousand + t.allowances + t.bonus + t.difference
          = overtime * Thousand + t.basic + t.allowances + t.bonus + t.difference
    <3> HIDE DEF overtime
    <3> QED BY <1>2, <1>11 DEF Thousand
  <2>3. sheet.gross = overtime + basic + allowances + bonus + difference
    <3>1. sheet.gross = basic + allowances + bonus + overtime + difference
      BY <1>3, <1>4, <1>8
    <3> HIDE DEF sheet, basic, allowances, bonus, overtime, difference
    <3> QED BY <1>11, <3>1
  <2> QED BY <1>6, <2>1, <2>2, <2>3
<1>13. Distance(CashDeductions(raw), CashDeductions(sheet) + dues) <= 2
  <2> DEFINE n == raw.paye + raw.ssnit + dues
             m == Money(n * Thousand + t.pf + t.loan + t.welfare + t.other)
  <2>1. n \in Int
    BY <1>6, <1>10
  <2>2. m \in Int /\ Distance(m, n + pf + loan + welfare + other) <= 2
    <3> HIDE DEF n
    <3> QED BY <1>2, <2>1, SumsAreNear
  <2>3. raw.deductions = m
    BY <1>6
  <2>4. CashDeductions(sheet) = pf + loan + welfare + other
    <3>1. sheet.deductions = sheet.ssnit + sheet.paye + pf + loan + welfare + other
      BY <1>3, <1>4, <1>8
    <3> HIDE DEF sheet, pf, loan, welfare, other
    <3> QED BY <1>8, <1>11, <3>1 DEF CashDeductions
  <2>5. CashDeductions(raw) = m - raw.paye - raw.ssnit
    BY <2>3 DEF CashDeductions
  <2> HIDE DEF raw, sheet, dues, m, pf, loan, welfare, other
  <2> QED BY <1>6, <1>10, <1>11, <2>2, <2>4, <2>5 DEF Distance, AtLeast
<1>14. hourly.gross = hours.gross
  <2>1. hours.gross = basic + allowances + bonus + overtime + difference
    BY <1>3, <1>5, <1>9
  <2>2. hourly.gross = basic + overtime + bonus + allowances + difference
    BY <1>3, <1>7
  <2> HIDE DEF hours, hourly, basic, allowances, bonus, overtime, difference
  <2> QED BY <1>11, <2>1, <2>2
<1>15. Distance(CashDeductions(hourly), CashDeductions(hours)) <= 1
  <2> DEFINE n == hourly.ssnit + hourly.paye
             m == Money(n * Thousand + t.pf)
  <2>1. n \in Int
    BY <1>7
  <2>2. m \in Int /\ Distance(m, n + pf) <= 1
    <3> HIDE DEF n
    <3> QED BY <1>2, <2>1, SumIsNear
  <2>3. hourly.deductions = m
    BY <1>7
  <2>4. CashDeductions(hours) = pf
    <3>1. hours.deductions = hours.ssnit + hours.paye + pf + 0 + 0 + 0
      BY <1>3, <1>5, <1>9
    <3> HIDE DEF hours, pf
    <3> QED BY <1>9, <1>11, <3>1 DEF CashDeductions
  <2>5. CashDeductions(hourly) = m - hourly.paye - hourly.ssnit
    BY <2>3 DEF CashDeductions
  <2> HIDE DEF hours, hourly, m, pf
  <2> QED BY <1>7, <1>11, <2>2, <2>4, <2>5 DEF Distance, AtLeast
<1> QED BY <1>1, <1>12, <1>13, <1>14, <1>15 DEF EnginesAgreeOn

(* Whatever a calculated item holds or could be made to hold, under the rates *)
(* it was calculated with: inputs in whole pesewas get the same figures from  *)
(* the three engines, dues and salaried columns apart, and of finer inputs    *)
(* the engines' gross and cash deductions stay within the pesewas that their  *)
(* separate roundings can come to.                                            *)
THEOREM EnginesAgreeAlways == Spec => []EnginesAgree
<1>1. YearInv => EnginesAgree
  <2> SUFFICES ASSUME YearInv, NEW r \in Runs, NEW w \in Workers, figures[r][w].by # 0,
                      NEW t \in Typed \cup {Exact(items[r][w])}
               PROVE  EnginesAgreeOn(figures[r][w].by, t, UsedYtd(w, r), evidence[w], MonthOf[r])
    BY DEF EnginesAgree
  <2>1. TypeOK
    BY DEF YearInv
  <2>2. /\ figures[r][w].by \in Versions /\ rates[figures[r][w].by] \in Columns
        /\ evidence[w] \in Evidence /\ items[r][w] \in Items
    BY <2>1 DEF TypeOK
  <2>3. figures[r][w].by \in Nat /\ MonthOf[r] \in Int
    BY <2>2, BoundsAssumption, MonthsAssumption DEF Versions
  <2>4. t \in Items
    BY <2>2, InputsAssumption, ExactIs
  <2>5. UsedYtd(w, r) \in Int
    BY <2>1, UsedIsInt DEF UsedYtd
  <2> QED BY <2>2, <2>3, <2>4, <2>5, EnginesAgreeOnAny
<1> QED BY <1>1, YearInvAlways, PTL

(* Closed runs that knew of each other use a worker's annual bonus concession *)
(* once, within half a pesewa and however many they are: every run is         *)
(* calculated from what the others used, the last to use anything of the      *)
(* concession was left something, and so all before it stayed below its cap.  *)
THEOREM CapAmongKnownAlways == Spec => []CapAmongKnown
<1>1. YearInv => CapAmongKnown
  <2> SUFFICES ASSUME YearInv, NEW S \in (SUBSET (Closed \cap sound)) \ {{}}, NEW w \in Workers, KnownTo(S)
               PROVE  UsedOnce(S, w)
    BY DEF CapAmongKnown
  <2>1. TypeOK /\ S \subseteq Runs /\ S # {} /\ S \subseteq sound
    BY DEF YearInv, Closed
  <2> DEFINE u == UsedBy(w)
             P == {r \in S : u[r] > 0}
  <2>2. u \in [Runs -> Int] /\ (\A r \in Runs : u[r] = Used(r, w)) /\ UsedIn(S, w) = SumOver(S, u)
    BY <2>1, UsedIsInt, UsedInIs DEF UsedBy
  <2> HIDE DEF u
  <2>3. SumOver(S, u) \in Int /\ SumOver(P, u) \in Int /\ SumOver(S, u) <= SumOver(P, u)
    <3>1. \A r \in Runs : r \in S \ P => u[r] <= 0
      BY <2>2
    <3>2. \A r \in Runs : r \in P \ S => u[r] >= 0
      OBVIOUS
    <3> HIDE DEF P
    <3> QED BY <2>2, <3>1, <3>2, SumsGrow, SumIsInt
  <2> DEFINE Top(r) == AtLeast(AnnualCap(rates[figures[r][w].by], items[r][w].basic), 0)
  <2>4. ASSUME NEW r \in S PROVE /\ SoundRun(r, w) /\ Cap(r, w) \in Int /\ Top(r) = AtLeast(Cap(r, w), 0)
                                /\ Top(r) \in Int /\ Top(r) >= 0 /\ Top(r) >= Cap(r, w)
    <3>1. SoundRun(r, w)
      BY <2>1, <2>4 DEF YearInv, SoundRuns
    <3>2. Cap(r, w) \in Int
      BY <2>1, <2>4, <3>1, CapIsInt DEF SoundRun
    <3>3. Top(r) = AtLeast(Cap(r, w), 0)
      BY DEF Cap
    <3> HIDE DEF Top
    <3> QED BY <3>1, <3>2, <3>3 DEF AtLeast
  <2>5. SUFFICES \E r \in S : 2 * SumOver(S, u) * Thousand <= 2 * Top(r) + Thousand
    BY <2>2 DEF UsedOnce
  <2> HIDE DEF Top
  <2>6. CASE P = {}
    <3>1. SumOver(P, u) <= 0
      <4>1. [r \in Runs |-> IF r \in P THEN u[r] ELSE 0] = [r \in Runs |-> 0]
        BY <2>6
      <4>2. [r \in Runs |-> 0] \in [1..MaxRuns -> Int]
        BY DEF Runs
      <4>3. Total(MaxRuns, [r \in Runs |-> 0]) = 0
        BY <4>2, TotalOfNone, BoundsAssumption DEF Runs
      <4>4. SumOver(P, u) = 0
        BY <4>1, <4>3 DEF SumOver
      <4> QED BY <4>4
    <3>2. PICK r \in S : TRUE
      BY <2>1
    <3>3. 2 * SumOver(S, u) * Thousand <= 2 * Top(r) + Thousand
      <4> HIDE DEF P
      <4> QED BY <2>3, <2>4, <3>1 DEF Thousand
    <3> QED BY <3>3
  <2>7. CASE P # {}
    <3>1. PICK p \in P : \A t \in P : p \notin seen[t]
      BY <2>1, <2>7 DEF YearInv, SeenIsOrdered
    <3>2. p \in S /\ p \in Runs /\ u[p] > 0 /\ u[p] \in Int
      BY <2>1, <2>2, <3>1
    <3>3. P \ {p} \subseteq seen[p]
      BY <3>1 DEF KnownTo
    <3>4. SoundRun(p, w)
      BY <2>4, <3>2
    <3>5. SumOver(P, u) = SumOver(P \ {p}, u) + u[p]
      <4> HIDE DEF P
      <4> QED BY <2>2, <3>1, <3>2, SumWith
    <3> DEFINE A == seen[p]
    <3>6. \A r \in Runs : r \in A \ (P \ {p}) => u[r] >= 0
      BY <2>2, <3>4 DEF SoundRun
    <3>7. /\ SumOver(P \ {p}, u) <= SumOver(A, u) /\ SumOver(A, u) \in Int /\ SumOver(P \ {p}, u) \in Int
      <4>1. \A r \in Runs : r \in (P \ {p}) \ A => u[r] <= 0
        BY <3>3
      <4> HIDE DEF P, A
      <4> QED BY <2>2, <3>6, <4>1, SumsGrow, SumIsInt
    <3>8. UsedIn(A, w) = SumOver(A, u)
      BY UsedInIs DEF u
    <3>9. 2 * u[p] * Thousand <= 2 * AtLeast(Cap(p, w) - SumOver(A, u) * Thousand, 0) + Thousand
      BY <2>2, <3>2, <3>4, <3>8 DEF SoundRun
    <3>10. 2 * SumOver(S, u) * Thousand <= 2 * Top(p) + Thousand
      <4>1. Cap(p, w) \in Int /\ Top(p) >= Cap(p, w) /\ Top(p) \in Int
        BY <2>4, <3>2
      <4> HIDE DEF P, A
      <4>2. 2 * u[p] * 1000 <= 2 * (Cap(p, w) - SumOver(A, u) * 1000) + 1000
        BY <3>2, <3>7, <3>9, <4>1 DEF AtLeast, Thousand
      <4>3. SumOver(S, u) <= SumOver(A, u) + u[p]
        BY <2>3, <3>2, <3>5, <3>7
      <4> QED BY <2>3, <3>2, <3>7, <4>1, <4>2, <4>3 DEF Thousand
    <3> QED BY <3>2, <3>10
  <2> QED BY <2>6, <2>7
<1> QED BY <1>1, YearInvAlways, PTL
=============================================================================
