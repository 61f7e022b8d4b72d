---------------------------- MODULE TimerProofs ----------------------------
(***************************************************************************)
(* Theorems about the timed wait, for every width of the clock and of the  *)
(* mantissa, every turn and every watchdog that outlasts it.               *)
(*                                                                         *)
(* The arithmetic comes first: the laws of powers of two, then the spacing *)
(* of floats, then the rounding of a reading of the clock.  The behaviour  *)
(* needs one invariant: what start and clock say of the time that has      *)
(* gone by, before and after a wrap of the clock.                          *)
(***************************************************************************)
EXTENDS TurnTimer, WellFoundedInduction, TLAPS

(* A nonempty set of naturals has a least member.                          *)
LEMMA HasLeast ==
    ASSUME NEW S, S \subseteq Nat, S # {}
    PROVE  \E s \in S : \A t \in S : s <= t
<1>1. PICK s \in S : \A t \in S : ~ (<<t, s>> \in OpToRel(<, Nat))
  BY NatLessThanWellFounded, WFMin
<1>2. ASSUME NEW t \in S PROVE s <= t
  <2>1. s \in Nat /\ t \in Nat /\ <<t, s>> \in Nat \X Nat
    OBVIOUS
  <2>2. ~ (t < s)
    BY <1>1, <2>1 DEF OpToRel
  <2> QED
    BY <2>1, <2>2
<1> QED
  BY <1>2

-----------------------------------------------------------------------------
(* The powers of two.  A table of the first n of them exists and there is  *)
(* only one, so the function that joins the tables obeys the recursion.    *)
Table(g, n) ==
    /\ g \in [0..n -> Nat \ {0}]
    /\ g[0] = 1
    /\ \A i \in 1..n : g[i] = 2 * g[i - 1]

LEMMA TableExists == \A n \in Nat : \E g : Table(g, n)
<1> DEFINE Bad == {n \in Nat : ~ \E g : Table(g, n)}
<1>1. SUFFICES ASSUME Bad # {} PROVE FALSE
  OBVIOUS
<1>2. PICK n \in Bad : \A k \in Bad : n <= k
  BY <1>1, HasLeast
<1>3. n \in Nat /\ ~ \E g : Table(g, n)
  OBVIOUS
<1> HIDE DEF Bad
<1>4. n # 0
  <2> DEFINE g == [i \in 0..0 |-> 1]
  <2>1. Table(g, 0)
    BY DEF Table
  <2> QED
    BY <2>1, <1>3
<1>5. n - 1 \in Nat /\ n - 1 \notin Bad
  BY <1>2, <1>3, <1>4
<1>6. PICK g : Table(g, n - 1)
  BY <1>5 DEF Bad
<1> DEFINE h == [i \in 0..n |-> IF i = n THEN 2 * g[n - 1] ELSE g[i]]
<1>7. Table(h, n)
  <2>1. \A i \in 0..(n - 1) : i \in 0..n /\ i # n /\ h[i] = g[i] /\ g[i] \in Nat \ {0}
    BY <1>3, <1>4, <1>6 DEF Table
  <2>2. n \in 0..n /\ n - 1 \in 0..(n - 1) /\ h[n] = 2 * g[n - 1] /\ g[n - 1] \in Nat \ {0}
    BY <1>3, <1>4, <1>6 DEF Table
  <2>3. h \in [0..n -> Nat \ {0}]
    <3>1. \A i \in 0..n : h[i] \in Nat \ {0}
      <4> TAKE i \in 0..n
      <4>1. i = n \/ i \in 0..(n - 1)
        BY <1>3
      <4> HIDE DEF h
      <4>2. 2 * g[n - 1] \in Nat \ {0}
        BY <2>2
      <4> QED
        BY <2>1, <2>2, <4>1, <4>2
    <3>2. h = [i \in 0..n |-> h[i]]
      OBVIOUS
    <3> HIDE DEF h
    <3> QED
      BY <3>1, <3>2
  <2>4. h[0] = 1
    <3>1. 0 \in 0..(n - 1)
      BY <1>3, <1>4
    <3> HIDE DEF h
    <3> QED
      BY <2>1, <3>1, <1>6 DEF Table
  <2>5. ASSUME NEW i \in 1..n PROVE h[i] = 2 * h[i - 1]
    <3>1. i - 1 \in 0..(n - 1)
      BY <1>3
    <3>2. CASE i = n
      <4> HIDE DEF h
      <4> QED
        BY <2>1, <2>2, <3>1, <3>2
    <3>3. CASE i # n
      <4>1. i \in 1..(n - 1) /\ i \in 0..(n - 1)
        BY <3>3, <1>3
      <4> HIDE DEF h
      <4> QED
        BY <2>1, <3>1, <4>1, <1>6 DEF Table
    <3> QED
      BY <3>2, <3>3
  <2> HIDE DEF h
  <2> QED
    BY <2>3, <2>4, <2>5 DEF Table
<1> QED
  BY <1>3, <1>7

LEMMA TablesAgree ==
    ASSUME NEW n \in Nat, NEW m \in Nat, NEW g, NEW h, Table(g, n), Table(h, m)
    PROVE  \A i \in Nat : i <= n /\ i <= m => g[i] = h[i]
<1> DEFINE Bad == {i \in Nat : i <= n /\ i <= m /\ g[i] # h[i]}
<1>1. SUFFICES ASSUME Bad # {} PROVE FALSE
  OBVIOUS
<1>2. PICK i \in Bad : \A k \in Bad : i <= k
  BY <1>1, HasLeast
<1>3. i \in Nat /\ i <= n /\ i <= m /\ g[i] # h[i]
  OBVIOUS
<1>4. i # 0
  BY <1>3 DEF Table
<1>5. i - 1 \in Nat /\ i - 1 <= n /\ i - 1 <= m
  BY <1>3, <1>4
<1>6. i - 1 \notin Bad
  BY <1>2, <1>3
<1>7. g[i - 1] = h[i - 1]
  BY <1>5, <1>6
<1>8. i \in 1..n /\ i \in 1..m
  BY <1>3, <1>4
<1> QED
  BY <1>3, <1>7, <1>8 DEF Table

LEMMA PowEquation == Pow2 = [n \in Nat |-> IF n = 0 THEN 1 ELSE 2 * Pow2[n - 1]]
<1> DEFINE T(n) == CHOOSE g : Table(g, n)
           P == [n \in Nat |-> T(n)[n]]
<1>1. \A n \in Nat : Table(T(n), n)
  BY TableExists
<1> HIDE DEF T
<1>2. P[0] = 1
  BY <1>1 DEF Table
<1>3. ASSUME NEW n \in Nat, n # 0 PROVE P[n] = 2 * P[n - 1]
  <2>1. n - 1 \in Nat /\ n \in 1..n /\ n - 1 <= n - 1 /\ n - 1 <= n
    BY <1>3
  <2>2. Table(T(n), n) /\ Table(T(n - 1), n - 1)
    BY <1>1, <2>1
  <2>3. T(n)[n] = 2 * T(n)[n - 1]
    BY <2>1, <2>2 DEF Table
  <2>4. T(n)[n - 1] = T(n - 1)[n - 1]
    BY <2>1, <2>2, TablesAgree
  <2> QED
    BY <2>1, <2>3, <2>4
<1>4. P = [n \in Nat |-> IF n = 0 THEN 1 ELSE 2 * P[n - 1]]
  <2>1. \A n \in Nat : P[n] = IF n = 0 THEN 1 ELSE 2 * P[n - 1]
    BY <1>2, <1>3
  <2>2. P = [n \in Nat |-> P[n]]
    OBVIOUS
  <2> HIDE DEF P
  <2> QED
    BY <2>1, <2>2, Zenon
<1> HIDE DEF P
<1> QED
  BY <1>4, Zenon DEF Pow2

LEMMA PowZero == Pow2[0] = 1
<1>1. Pow2[0] = IF 0 = 0 THEN 1 ELSE 2 * Pow2[0 - 1]
  BY PowEquation
<1> QED
  BY <1>1

LEMMA PowNext == \A n \in Nat : Pow2[n + 1] = 2 * Pow2[n]
<1> TAKE n \in Nat
<1>1. n + 1 \in Nat /\ n + 1 # 0 /\ (n + 1) - 1 = n
  OBVIOUS
<1>2. Pow2[n + 1] = IF n + 1 = 0 THEN 1 ELSE 2 * Pow2[(n + 1) - 1]
  BY PowEquation, <1>1
<1> QED
  BY <1>1, <1>2

LEMMA PowType == \A n \in Nat : Pow2[n] \in Nat \ {0}
<1> DEFINE Bad == {n \in Nat : Pow2[n] \notin Nat \ {0}}
<1>1. SUFFICES ASSUME Bad # {} PROVE FALSE
  OBVIOUS
<1>2. PICK n \in Bad : \A k \in Bad : n <= k
  BY <1>1, HasLeast
<1>3. n \in Nat /\ n # 0
  BY PowZero
<1>4. n - 1 \in Nat /\ n - 1 \notin Bad
  BY <1>2, <1>3
<1>5. Pow2[n - 1] \in Nat \ {0}
  BY <1>4
<1>6. Pow2[(n - 1) + 1] = 2 * Pow2[n - 1] /\ (n - 1) + 1 = n
  BY <1>3, <1>4, PowNext
<1> QED
  BY <1>5, <1>6

LEMMA PowSum == \A m, n \in Nat : Pow2[m + n] = Pow2[m] * Pow2[n]
<1> SUFFICES ASSUME NEW m \in Nat PROVE \A n \in Nat : Pow2[m + n] = Pow2[m] * Pow2[n]
  OBVIOUS
<1> DEFINE Bad == {n \in Nat : Pow2[m + n] # Pow2[m] * Pow2[n]}
<1>1. SUFFICES ASSUME Bad # {} PROVE FALSE
  OBVIOUS
<1>2. PICK n \in Bad : \A k \in Bad : n <= k
  BY <1>1, HasLeast
<1>3. Pow2[m] \in Nat
  BY PowType
<1>4. n \in Nat /\ n # 0
  <2>1. Pow2[m + 0] = Pow2[m] * Pow2[0]
    BY <1>3, PowZero
  <2> QED
    BY <2>1
<1>5. n - 1 \in Nat /\ n - 1 \notin Bad
  BY <1>2, <1>4
<1>6. Pow2[m + (n - 1)] = Pow2[m] * Pow2[n - 1] /\ Pow2[n - 1] \in Nat
  BY <1>5, PowType
<1>7. Pow2[(m + (n - 1)) + 1] = 2 * Pow2[m + (n - 1)]
  BY <1>5, PowNext
<1>8. Pow2[(n - 1) + 1] = 2 * Pow2[n - 1]
  BY <1>5, PowNext
<1>9. (m + (n - 1)) + 1 = m + n /\ (n - 1) + 1 = n
  BY <1>4
<1>10. Pow2[m] * (2 * Pow2[n - 1]) = 2 * (Pow2[m] * Pow2[n - 1])
  BY <1>3, <1>6
<1> QED
  BY <1>6, <1>7, <1>8, <1>9, <1>10

LEMMA PowGrows == \A m, n \in Nat : m <= n => Pow2[m] <= Pow2[n]
<1> TAKE m, n \in Nat
<1> HAVE m <= n
<1>1. n - m \in Nat /\ m + (n - m) = n
  OBVIOUS
<1>2. Pow2[n] = Pow2[m] * Pow2[n - m]
  BY <1>1, PowSum
<1>3. Pow2[m] \in Nat /\ Pow2[n - m] \in Nat /\ Pow2[n - m] >= 1
  BY <1>1, PowType
<1>4. Pow2[m] * Pow2[n - m] >= Pow2[m]
  <2>1. \A a, b \in Nat : b >= 1 => a * b >= a
    <3> TAKE a, b \in Nat
    <3> HAVE b >= 1
    <3>1. PICK c \in Nat : b = c + 1
      <4>1. b - 1 \in Nat /\ b = (b - 1) + 1
        OBVIOUS
      <4> QED
        BY <4>1
    <3>2. a * b = a * c + a /\ a * c \in Nat
      BY <3>1
    <3> QED
      BY <3>2
  <2> QED
    BY <2>1, <1>3
<1> QED
  BY <1>2, <1>4
-----------------------------------------------------------------------------
(* The spacing of floats at a reading of the clock: a power of two, no     *)
(* more than the clock has bits beyond the mantissa, that grows with the   *)
(* reading and leaves it within the mantissa.                              *)
Readings == 0..(Pow2[W] - 1)

LEMMA ClockBits ==
    /\ W \in Nat /\ M \in Nat /\ M >= 1 /\ W - M \in Nat /\ W - M >= 1
    /\ Pow2[W] \in Nat /\ Pow2[W] >= 1 /\ Pow2[M] \in Nat /\ Pow2[M] >= 1
    /\ Pow2[W - M] \in Nat /\ Pow2[W - M] >= 1
    /\ Pow2[M] * Pow2[W - M] = Pow2[W]
<1>1. W \in Nat /\ M \in Nat /\ M >= 1 /\ W - M \in Nat /\ W - M >= 1 /\ M + (W - M) = W
  BY TimerAssumption
<1>2. Pow2[M + (W - M)] = Pow2[M] * Pow2[W - M]
  BY <1>1, PowSum
<1>3. \A n \in Nat : Pow2[n] \in Nat /\ Pow2[n] >= 1
  <2> TAKE n \in Nat
  <2>1. Pow2[n] \in Nat \ {0}
    BY PowType
  <2> QED
    BY <2>1
<1> QED
  BY <1>1, <1>2, <1>3

Fits(x) == {e \in 0..W : x < Pow2[M + e]}

Exponent(x) == CHOOSE e \in Fits(x) : \A d \in Fits(x) : e <= d

LEMMA UlpIsPower == \A x : Ulp(x) = Pow2[Exponent(x)]
BY DEF Ulp, Exponent, Fits

LEMMA ExponentFits ==
    ASSUME NEW x \in Readings
    PROVE  /\ Exponent(x) \in 0..(W - M)
           /\ x < Pow2[M] * Pow2[Exponent(x)]
           /\ \A d \in Fits(x) : Exponent(x) <= d
<1>1. Fits(x) \subseteq Nat
  BY ClockBits DEF Fits
<1>2. W - M \in Fits(x)
  <2>1. W - M \in 0..W /\ M + (W - M) = W /\ x < Pow2[W]
    BY ClockBits DEF Readings
  <2> QED
    BY <2>1 DEF Fits
<1>3. Exponent(x) \in Fits(x) /\ \A d \in Fits(x) : Exponent(x) <= d
  <2>1. \E e \in Fits(x) : \A d \in Fits(x) : e <= d
    BY <1>1, <1>2, HasLeast
  <2> QED
    BY <2>1 DEF Exponent
<1>4. Exponent(x) \in Nat /\ Exponent(x) <= W - M
  BY <1>1, <1>2, <1>3
<1>5. x < Pow2[M + Exponent(x)]
  BY <1>3 DEF Fits
<1>6. Pow2[M + Exponent(x)] = Pow2[M] * Pow2[Exponent(x)]
  BY <1>4, ClockBits, PowSum
<1> QED
  BY <1>3, <1>4, <1>5, <1>6, ClockBits

LEMMA UlpBounds ==
    ASSUME NEW x \in Readings
    PROVE  /\ Ulp(x) \in Nat /\ Ulp(x) >= 1 /\ Ulp(x) <= Pow2[W - M]
           /\ x < Pow2[M] * Ulp(x)
           /\ Ulp(x) = 1 \/ \E v \in Nat : v >= 1 /\ Ulp(x) = 2 * v
<1> DEFINE e == Exponent(x)
<1>1. e \in Nat /\ e <= W - M /\ x < Pow2[M] * Pow2[e]
  BY ExponentFits, ClockBits
<1>2. Ulp(x) = Pow2[e]
  BY UlpIsPower
<1> HIDE DEF e
<1>3. Pow2[e] \in Nat /\ Pow2[e] >= 1 /\ Pow2[e] <= Pow2[W - M]
  BY <1>1, ClockBits, PowType, PowGrows
<1>4. Pow2[e] = 1 \/ \E v \in Nat : v >= 1 /\ Pow2[e] = 2 * v
  <2>1. CASE e = 0
    BY <2>1, PowZero
  <2>2. CASE e # 0
    <3>1. e - 1 \in Nat /\ (e - 1) + 1 = e
      BY <1>1, <2>2
    <3>2. Pow2[e - 1] \in Nat /\ Pow2[e - 1] >= 1
      BY <3>1, PowType
    <3>3. Pow2[(e - 1) + 1] = 2 * Pow2[e - 1]
      BY <3>1, PowNext
    <3> QED
      BY <3>1, <3>2, <3>3
  <2> QED
    BY <2>1, <2>2
<1> QED
  BY <1>1, <1>2, <1>3, <1>4

LEMMA UlpGrows ==
    ASSUME NEW x \in Readings, NEW y \in Readings, x <= y
    PROVE  Ulp(x) <= Ulp(y)
<1>1. Exponent(y) \in Fits(y)
  <2>1. Exponent(y) \in 0..(W - M) /\ y < Pow2[M] * Pow2[Exponent(y)]
    BY ExponentFits
  <2>2. Exponent(y) \in 0..W /\ Exponent(y) \in Nat
    BY <2>1, ClockBits
  <2>3. Pow2[M + Exponent(y)] = Pow2[M] * Pow2[Exponent(y)]
    BY <2>2, ClockBits, PowSum
  <2> QED
    BY <2>1, <2>2, <2>3 DEF Fits
<1>2. Exponent(y) \in Fits(x)
  <2>1. Exponent(y) \in 0..W /\ y < Pow2[M + Exponent(y)]
    BY <1>1 DEF Fits
  <2>2. M + Exponent(y) \in Nat
    BY <2>1, ClockBits
  <2>3. Pow2[M + Exponent(y)] \in Nat
    BY <2>2, PowType
  <2>4. x \in Int /\ y \in Int
    BY ClockBits DEF Readings
  <2>5. x < Pow2[M + Exponent(y)]
    BY <2>1, <2>3, <2>4
  <2> QED
    BY <2>1, <2>5 DEF Fits
<1>3. Exponent(x) <= Exponent(y)
  BY <1>2, ExponentFits
<1>4. Exponent(x) \in Nat /\ Exponent(y) \in Nat
  BY ExponentFits, ClockBits
<1> QED
  BY <1>3, <1>4, PowGrows, UlpIsPower

-----------------------------------------------------------------------------
(* A reading is rounded by no more than half the spacing, never beyond the *)
(* end of the clock, and its last reading is rounded to that end.          *)
LEMMA RoundingBounds ==
    ASSUME NEW x \in Readings
    PROVE  /\ Rounding(x) \in Nat /\ 2 * Rounding(x) <= Ulp(x) /\ Rounding(x) < Pow2[W - M]
           /\ Ulp(x) = 1 => Rounding(x) = 0
           /\ Ulp(x) # 1 => Ulp(x) = 2 * Rounding(x)
<1>1. Ulp(x) \in Nat /\ Ulp(x) >= 1 /\ Ulp(x) <= Pow2[W - M]
  BY UlpBounds
<1>2. PICK v : Ulp(x) = 1 \/ (v \in Nat /\ v >= 1 /\ Ulp(x) = 2 * v)
  BY UlpBounds
<1>3. CASE Ulp(x) = 1
  BY <1>1, <1>3, ClockBits DEF Rounding
<1>4. CASE v \in Nat /\ v >= 1 /\ Ulp(x) = 2 * v
  <2>1. Rounding(x) = v
    BY <1>4 DEF Rounding
  <2> QED
    BY <1>1, <1>4, <2>1, ClockBits
<1> QED
  BY <1>2, <1>3, <1>4

(* A reading is d spacings and r more, which rounding drops or fills up.   *)
LEMMA Division ==
    ASSUME NEW a \in Nat, NEW b \in Nat \ {0}
    PROVE  a \div b \in Nat /\ a % b \in Nat /\ a % b < b /\ a = b * (a \div b) + (a % b)
<1>1. a \div b \in Nat /\ a % b \in Nat /\ a % b < b
  OBVIOUS
<1>2. a = b * (a \div b) + (a % b)
  OBVIOUS
<1> QED
  BY <1>1, <1>2

RoundedUp(u, d, r) == 2 * r > u \/ (2 * r = u /\ d % 2 = 1)

LEMMA Parts ==
    ASSUME NEW x \in Readings
    PROVE  \E d, r \in Nat :
              /\ x = Ulp(x) * d + r /\ r < Ulp(x)
              /\ RoundedUp(Ulp(x), d, r) => ToFloat(x) = Ulp(x) * d + Ulp(x)
              /\ ~ RoundedUp(Ulp(x), d, r) => ToFloat(x) = Ulp(x) * d
<1>1. Ulp(x) \in Nat \ {0}
  BY UlpBounds
<1>2. x \in Nat
  BY ClockBits DEF Readings
<1>3. PICK u : u = Ulp(x)
  OBVIOUS
<1>4. PICK d : d = x \div u
  OBVIOUS
<1>5. PICK r : r = x % u
  OBVIOUS
<1>6. d \in Nat /\ r \in Nat /\ r < u /\ x = u * d + r
  BY <1>1, <1>2, <1>3, <1>4, <1>5, Division
<1>7. ToFloat(x) = u * (d + IF RoundedUp(u, d, r) THEN 1 ELSE 0)
  BY <1>3, <1>4, <1>5, Zenon DEF ToFloat, RoundedUp
<1>8. u * (d + 1) = u * d + u /\ u * (d + 0) = u * d
  BY <1>1, <1>3, <1>6
<1>9. RoundedUp(u, d, r) => ToFloat(x) = u * d + u
  BY <1>7, <1>8, Zenon
<1>10. ~ RoundedUp(u, d, r) => ToFloat(x) = u * d
  BY <1>7, <1>8, Zenon
<1> QED
  BY <1>3, <1>6, <1>9, <1>10, Zenon

LEMMA FloatIsNear ==
    ASSUME NEW x \in Readings
    PROVE  /\ ToFloat(x) \in Nat
           /\ x - Rounding(x) <= ToFloat(x) /\ ToFloat(x) <= x + Rounding(x)
           /\ ToFloat(x) <= Pow2[W]
<1> DEFINE u == Ulp(x)
           half == Rounding(x)
<1>1. u \in Nat /\ u >= 1 /\ u <= Pow2[W - M] /\ x < Pow2[M] * u
  BY UlpBounds
<1>2. half \in Nat /\ (u = 1 => half = 0) /\ (u # 1 => u = 2 * half)
  BY RoundingBounds
<1>3. PICK d \in Nat, r \in Nat :
          /\ x = u * d + r /\ r < u
          /\ RoundedUp(u, d, r) => ToFloat(x) = u * d + u
          /\ ~ RoundedUp(u, d, r) => ToFloat(x) = u * d
  BY Parts
<1> HIDE DEF u, half
<1>4. u * d \in Nat /\ u * (d + 1) = u * d + u
  BY <1>1, <1>3
<1>5. \/ ToFloat(x) = u * d /\ 2 * r <= u
      \/ ToFloat(x) = u * d + u /\ 2 * r >= u
  <2>1. RoundedUp(u, d, r) => 2 * r >= u
    BY <1>1, <1>3 DEF RoundedUp
  <2>2. ~ RoundedUp(u, d, r) => 2 * r <= u
    BY <1>1, <1>3 DEF RoundedUp
  <2> QED
    BY <1>3, <2>1, <2>2, Zenon
<1>6. ToFloat(x) \in Nat
  BY <1>1, <1>4, <1>5
<1>7. x - half <= ToFloat(x) /\ ToFloat(x) <= x + half
  BY <1>1, <1>2, <1>3, <1>4, <1>5
<1>8. u * (d + 1) <= Pow2[W]
  <2>1. d < Pow2[M]
    <3>1. SUFFICES ASSUME d >= Pow2[M] PROVE FALSE
      BY <1>3, ClockBits
    <3>2. PICK c \in Nat : d = Pow2[M] + c
      <4>1. d - Pow2[M] \in Nat /\ d = Pow2[M] + (d - Pow2[M])
        BY <3>1, <1>3, ClockBits
      <4> QED
        BY <4>1
    <3>3. u * d = Pow2[M] * u + u * c /\ u * c \in Nat /\ Pow2[M] * u \in Nat
      BY <3>2, <1>1, ClockBits
    <3> QED
      BY <3>3, <1>1, <1>3
  <2>2. \A a, b, c \in Nat : b <= c => a * b <= a * c
    <3> TAKE a, b, c \in Nat
    <3> HAVE b <= c
    <3>1. PICK k \in Nat : c = b + k
      <4>1. c - b \in Nat /\ c = b + (c - b)
        OBVIOUS
      <4> QED
        BY <4>1
    <3>2. a * c = a * b + a * k /\ a * b \in Nat /\ a * k \in Nat
      BY <3>1
    <3> QED
      BY <3>2
  <2>3. d + 1 <= Pow2[M] /\ d + 1 \in Nat
    BY <2>1, <1>3, ClockBits
  <2>4. u * (d + 1) <= u * Pow2[M]
    BY <2>2, <2>3, <1>1, ClockBits
  <2>5. Pow2[M] * u <= Pow2[M] * Pow2[W - M]
    BY <2>2, <1>1, ClockBits
  <2>6. u * (d + 1) \in Nat /\ u * Pow2[M] = Pow2[M] * u /\ Pow2[M] * u \in Nat
    BY <2>3, <1>1, ClockBits
  <2> QED
    BY <2>4, <2>5, <2>6, ClockBits
<1>9. ToFloat(x) <= Pow2[W]
  BY <1>1, <1>4, <1>5, <1>8, ClockBits
<1> QED
  BY <1>6, <1>7, <1>9 DEF half

LEMMA LastReading == Pow2[W] - 1 \in Readings /\ ToFloat(Pow2[W] - 1) = Pow2[W]
<1> DEFINE x == Pow2[W] - 1
           u == Pow2[W - M]
<1>1. x \in Readings
  BY ClockBits DEF Readings
<1>2. x \in Nat /\ u \in Nat /\ u >= 1 /\ Pow2[M] * u = x + 1
  BY ClockBits
<1>3. Ulp(x) = u
  <2>1. Exponent(x) \in Nat /\ Exponent(x) <= W - M /\ x < Pow2[M] * Pow2[Exponent(x)]
    BY <1>1, ExponentFits, ClockBits
  <2>2. ~ (Exponent(x) < W - M)
    <3>1. SUFFICES ASSUME Exponent(x) < W - M PROVE FALSE
      OBVIOUS
    <3>2. M + Exponent(x) \in Nat /\ M + Exponent(x) <= W - 1 /\ W - 1 \in Nat
      BY <3>1, <2>1, ClockBits
    <3>3. Pow2[M + Exponent(x)] <= Pow2[W - 1]
      BY <3>2, PowGrows
    <3>4. Pow2[(W - 1) + 1] = 2 * Pow2[W - 1] /\ (W - 1) + 1 = W
      BY <3>2, ClockBits, PowNext
    <3>5. Pow2[M + Exponent(x)] = Pow2[M] * Pow2[Exponent(x)]
      BY <2>1, ClockBits, PowSum
    <3>6. Pow2[W - 1] \in Nat /\ Pow2[W - 1] >= 1 /\ Pow2[M + Exponent(x)] \in Nat
      BY <3>2, PowType
    <3> QED
      BY <2>1, <3>3, <3>4, <3>5, <3>6
  <2>3. Exponent(x) = W - M
    BY <2>1, <2>2, ClockBits
  <2> QED
    BY <2>3, UlpIsPower
<1>4. PICK v \in Nat : v >= 1 /\ u = 2 * v
  <2>1. (W - M) - 1 \in Nat /\ ((W - M) - 1) + 1 = W - M
    BY ClockBits
  <2> QED
    BY <2>1, PowNext, PowType
<1>5. PICK k \in Nat : k >= 1 /\ Pow2[M] = 2 * k
  <2>1. M - 1 \in Nat /\ (M - 1) + 1 = M
    BY ClockBits
  <2> QED
    BY <2>1, PowNext, PowType
<1>6. PICK d \in Nat, r \in Nat :
          /\ x = u * d + r /\ r < u
          /\ RoundedUp(u, d, r) => ToFloat(x) = u * d + u
  BY <1>1, <1>3, Parts
<1> HIDE DEF x, u
<1>7. d = Pow2[M] - 1 /\ r = u - 1
  <2>1. x + 1 = u * d + (r + 1) /\ u * d \in Nat /\ r + 1 \in 1..u
    BY <1>2, <1>6
  <2>2. \A a, b, c, s \in Nat : a >= 1 /\ s \in 1..a /\ a * b = a * c + s => b = c + 1 /\ s = a
    <3> TAKE a, b, c, s \in Nat
    <3> HAVE a >= 1 /\ s \in 1..a /\ a * b = a * c + s
    <3>1. b > c
      <4>1. SUFFICES ASSUME b <= c PROVE FALSE
        OBVIOUS
      <4>2. c - b \in Nat /\ c = b + (c - b)
        BY <4>1
      <4>3. a * c = a * b + a * (c - b) /\ a * (c - b) \in Nat /\ a * b \in Nat
        BY <4>2
      <4> QED
        BY <4>3
    <3>2. ~ (b > c + 1)
      <4>1. SUFFICES ASSUME b > c + 1 PROVE FALSE
        OBVIOUS
      <4>2. PICK j \in Nat : b = (c + 1) + (j + 1)
        <5>1. b - (c + 2) \in Nat /\ b = (c + 1) + ((b - (c + 2)) + 1)
          BY <4>1
        <5> QED
          BY <5>1
      <4>3. a * b = a * c + a + a * j + a /\ a * j \in Nat /\ a * c \in Nat
        BY <4>2
      <4> QED
        BY <4>3
    <3>3. b = c + 1
      BY <3>1, <3>2
    <3>4. a * b = a * c + a /\ a * c \in Nat
      BY <3>3
    <3> QED
      BY <3>3, <3>4
  <2>3. u * Pow2[M] = Pow2[M] * u
    BY <1>2, ClockBits
  <2>4. Pow2[M] = d + 1 /\ r + 1 = u
    BY <2>1, <2>2, <2>3, <1>2, <1>6, ClockBits, SMTT(20)
  <2> QED
    BY <2>4, <1>2, <1>6, ClockBits
<1>8. d % 2 = 1
  BY <1>5, <1>7
<1>9. 2 * r > u \/ 2 * r = u
  BY <1>2, <1>4, <1>7
<1>10. ToFloat(x) = u * d + u /\ u * (d + 1) = u * d + u
  BY <1>2, <1>6, <1>8, <1>9 DEF RoundedUp
<1>11. ToFloat(x) = Pow2[W]
  <2>1. d + 1 = Pow2[M]
    BY <1>7, ClockBits
  <2>2. u * Pow2[M] = Pow2[M] * u
    BY <1>2, ClockBits
  <2> QED
    BY <1>10, <2>1, <2>2, ClockBits DEF u
<1> QED
  BY <1>1, <1>11 DEF x
-----------------------------------------------------------------------------
(* The wait.  Until millis() wraps, the clock is ahead of the beginning by *)
(* the time that has gone by, and the condition was false a tick ago; once *)
(* it has wrapped, the time asked for lies beyond any reading, rounded or  *)
(* not, so that only the watchdog is left.                                 *)
TimerTypeOK ==
    /\ phase \in {"loop", "waiting", "turned", "bitten"}
    /\ clock \in Readings /\ begun \in Readings
    /\ start \in Nat
    /\ waited \in 0..Watchdog

BeforeWrap ==
    /\ clock = begun + waited
    /\ waited > 0 => ToFloat(clock - 1) - start < TurnTime

AfterWrap ==
    /\ clock = begun + waited - Pow2[W]
    /\ start + TurnTime > Pow2[W]

TimerInv ==
    /\ TimerTypeOK
    /\ phase # "loop" => start = ToFloat(begun) /\ (BeforeWrap \/ AfterWrap)
    /\ phase = "turned" => Expired
    /\ phase = "bitten" => waited = Watchdog /\ ~ Expired

LEMMA TimerConstants ==
    /\ TurnTime \in Nat /\ Watchdog \in Nat
    /\ TurnTime + Pow2[W - M] < Watchdog /\ Watchdog < Pow2[W]
BY TimerAssumption

LEMMA ZeroIsReading == 0 \in Readings
BY ClockBits DEF Readings

LEMMA TimerInvInit == TimerInit => TimerInv
<1> HAVE TimerInit
<1>1. TimerTypeOK
  BY ZeroIsReading, TimerConstants DEF TimerInit, TimerTypeOK
<1> QED
  BY <1>1 DEF TimerInit, TimerInv

LEMMA BeginKeeps == ASSUME TimerInv, Begin PROVE TimerInv'
<1>1. clock \in Readings /\ clock \in Nat
  BY ClockBits DEF TimerInv, TimerTypeOK, Readings
<1>2. ToFloat(clock) \in Nat
  BY <1>1, FloatIsNear
<1>3. TimerTypeOK'
  BY <1>1, <1>2, TimerConstants DEF Begin, TimerInv, TimerTypeOK
<1>4. start' = ToFloat(begun')
  BY DEF Begin
<1>5. BeforeWrap'
  BY <1>1 DEF Begin, BeforeWrap
<1> QED
  BY <1>3, <1>4, <1>5 DEF Begin, TimerInv

LEMMA TickTurns ==
    ASSUME NEW c \in Readings
    PROVE  /\ (c + 1) % Pow2[W] \in Readings
           /\ c + 1 < Pow2[W] => (c + 1) % Pow2[W] = c + 1
           /\ c + 1 >= Pow2[W] => c + 1 = Pow2[W] /\ (c + 1) % Pow2[W] = 0
<1>1. c \in Nat /\ c <= Pow2[W] - 1 /\ Pow2[W] \in Nat \ {0}
  BY ClockBits DEF Readings
<1>2. PICK n : n = Pow2[W]
  OBVIOUS
<1>3. c + 1 < n => (c + 1) % n = c + 1
  BY <1>1, <1>2
<1>4. c + 1 >= n => c + 1 = n /\ (c + 1) % n = 0
  BY <1>1, <1>2
<1>5. (c + 1) % n \in 0..(n - 1)
  BY <1>1, <1>2
<1> QED
  BY <1>2, <1>3, <1>4, <1>5 DEF Readings

LEMMA TickKeeps == ASSUME TimerInv, Tick PROVE TimerInv'
<1>1. clock \in Readings /\ clock \in Nat /\ begun \in Readings /\ begun \in Nat
      /\ begun <= Pow2[W] - 1 /\ Pow2[W] \in Nat /\ start \in Nat /\ waited \in 0..Watchdog
  BY ClockBits DEF TimerInv, TimerTypeOK, Readings
<1>2. clock' = (clock + 1) % Pow2[W] /\ clock' \in Readings
  BY <1>1, TickTurns DEF Tick
<1>3. CASE phase = "loop"
  BY <1>1, <1>2, <1>3 DEF Tick, TimerInv, TimerTypeOK
<1>4. CASE phase = "waiting" /\ ~ Expired /\ waited < Watchdog
  <2>1. waited' = waited + 1 /\ phase' = "waiting" /\ start' = start /\ begun' = begun
    BY <1>4 DEF Tick
  <2>2. waited' \in 0..Watchdog
    BY <1>1, <1>4, <2>1, TimerConstants
  <2>3. TimerTypeOK'
    BY <1>1, <1>2, <2>1, <2>2 DEF TimerTypeOK
  <2>4. ToFloat(clock) - start < TurnTime
    <3>1. ToFloat(clock) \in Nat
      BY <1>1, FloatIsNear
    <3> QED
      BY <1>1, <1>4, <3>1, TimerConstants DEF Expired, Elapsed
  <2>5. ASSUME BeforeWrap /\ clock + 1 < Pow2[W] PROVE BeforeWrap'
    <3>1. clock' = clock + 1
      BY <1>1, <1>2, <2>5, TickTurns
    <3>2. clock' = begun + waited' /\ clock' - 1 = clock
      BY <1>1, <2>1, <2>5, <3>1 DEF BeforeWrap
    <3> QED
      BY <2>1, <2>4, <3>2 DEF BeforeWrap
  <2>6. ASSUME BeforeWrap /\ ~ (clock + 1 < Pow2[W]) PROVE AfterWrap'
    <3>1. clock + 1 = Pow2[W] /\ clock' = 0
      BY <1>1, <1>2, <2>6, TickTurns
    <3>2. clock = Pow2[W] - 1 /\ clock' = begun + waited' - Pow2[W]
      BY <1>1, <2>1, <2>6, <3>1 DEF BeforeWrap
    <3>3. ToFloat(clock) = Pow2[W]
      BY <3>2, LastReading
    <3>4. start' + TurnTime > Pow2[W]
      BY <1>1, <2>1, <2>4, <3>3, TimerConstants
    <3> QED
      BY <2>1, <3>2, <3>4 DEF AfterWrap
  <2>7. ASSUME AfterWrap PROVE AfterWrap'
    <3>1. clock = begun + waited - Pow2[W] /\ start + TurnTime > Pow2[W]
      BY <2>7 DEF AfterWrap
    <3>2. clock + 1 < Pow2[W]
      BY <1>1, <1>4, <3>1, TimerConstants
    <3>3. clock' = clock + 1
      BY <1>1, <1>2, <3>2, TickTurns
    <3>4. clock' = begun' + waited' - Pow2[W] /\ start' + TurnTime > Pow2[W]
      BY <1>1, <2>1, <3>1, <3>3
    <3> QED
      BY <3>4 DEF AfterWrap
  <2>8. BeforeWrap' \/ AfterWrap'
    BY <1>4, <2>5, <2>6, <2>7 DEF TimerInv
  <2>9. start' = ToFloat(begun')
    BY <1>4, <2>1 DEF TimerInv
  <2> QED
    BY <2>1, <2>3, <2>8, <2>9 DEF TimerInv
<1> QED
  BY <1>3, <1>4 DEF Tick

LEMMA EndOfWaitKeeps == ASSUME TimerInv, EndOfWait PROVE TimerInv'
<1>1. TimerTypeOK'
  BY DEF EndOfWait, TimerInv, TimerTypeOK
<1>2. start' = ToFloat(begun') /\ (BeforeWrap' \/ AfterWrap')
  BY DEF EndOfWait, TimerInv, BeforeWrap, AfterWrap
<1>3. Expired'
  BY DEF EndOfWait, Expired, Elapsed
<1> QED
  BY <1>1, <1>2, <1>3 DEF EndOfWait, TimerInv

LEMMA BiteKeeps == ASSUME TimerInv, Bite PROVE TimerInv'
<1>1. TimerTypeOK'
  BY DEF Bite, TimerInv, TimerTypeOK
<1>2. start' = ToFloat(begun') /\ (BeforeWrap' \/ AfterWrap')
  BY DEF Bite, TimerInv, BeforeWrap, AfterWrap
<1>3. waited' = Watchdog /\ ~ Expired'
  BY DEF Bite, Expired, Elapsed
<1> QED
  BY <1>1, <1>2, <1>3 DEF Bite, TimerInv

LEMMA TimerInvNext == TimerInv /\ [TimerNext]_timerVars => TimerInv'
<1> SUFFICES ASSUME TimerInv, [TimerNext]_timerVars PROVE TimerInv'
  OBVIOUS
<1>1. CASE Begin
  BY <1>1, BeginKeeps
<1>2. CASE Tick
  BY <1>2, TickKeeps
<1>3. CASE EndOfWait
  BY <1>3, EndOfWaitKeeps
<1>4. CASE Return
  BY <1>4, ZeroIsReading, TimerConstants DEF Return, TimerInv, TimerTypeOK
<1>5. CASE Bite
  BY <1>5, BiteKeeps
<1>6. CASE Reboot
  BY <1>6, ZeroIsReading, TimerConstants DEF Reboot, TimerInv, TimerTypeOK
<1>7. CASE UNCHANGED timerVars
  BY <1>7 DEF timerVars, TimerInv, TimerTypeOK, BeforeWrap, AfterWrap, Expired, Elapsed
<1> QED
  BY <1>1, <1>2, <1>3, <1>4, <1>5, <1>6, <1>7 DEF TimerNext

LEMMA TimerIsInvariant == TimerSpec => []TimerInv
BY TimerInvInit, TimerInvNext, PTL DEF TimerSpec

-----------------------------------------------------------------------------
(* While the wait has not wrapped, its two roundings are the only error:   *)
(* the clock's spacing is at least the one at the beginning.               *)
LEMMA RoundingGrows ==
    ASSUME NEW x \in Readings, NEW y \in Readings, x <= y
    PROVE  Rounding(x) <= Rounding(y)
<1>1. Ulp(x) <= Ulp(y) /\ Ulp(x) \in Nat /\ Ulp(y) \in Nat /\ Ulp(x) >= 1
  BY UlpGrows, UlpBounds
<1>2. /\ Rounding(x) \in Nat /\ (Ulp(x) = 1 => Rounding(x) = 0) /\ (Ulp(x) # 1 => Ulp(x) = 2 * Rounding(x))
      /\ Rounding(y) \in Nat /\ (Ulp(y) = 1 => Rounding(y) = 0) /\ (Ulp(y) # 1 => Ulp(y) = 2 * Rounding(y))
  BY RoundingBounds
<1> QED
  BY <1>1, <1>2

LEMMA AtMostTooLong ==
    ASSUME TimerInv, phase # "loop", BeforeWrap
    PROVE  waited <= TurnTime + 2 * Rounding(clock)
<1>1. /\ clock \in Readings /\ begun \in Readings /\ clock \in Nat /\ begun \in Nat /\ start \in Nat
      /\ waited \in Nat /\ start = ToFloat(begun) /\ clock = begun + waited /\ clock <= Pow2[W] - 1
  BY ClockBits, TimerConstants DEF TimerInv, TimerTypeOK, Readings, BeforeWrap
<1>2. Rounding(clock) \in Nat
  BY <1>1, RoundingBounds
<1>3. CASE waited = 0
  BY <1>2, <1>3, TimerConstants
<1>4. CASE waited > 0
  <2>1. PICK c : c = clock - 1
    OBVIOUS
  <2>2. c \in Readings /\ c \in Nat /\ c <= clock /\ begun <= c /\ begun + waited = c + 1
    BY <1>1, <1>4, <2>1, ClockBits DEF Readings
  <2>3. ToFloat(c) - start < TurnTime
    BY <1>4, <2>1 DEF BeforeWrap
  <2>4. c - Rounding(c) <= ToFloat(c) /\ ToFloat(c) \in Nat
    BY <2>2, FloatIsNear
  <2>5. start <= begun + Rounding(begun)
    BY <1>1, FloatIsNear
  <2>6. /\ Rounding(begun) <= Rounding(clock) /\ Rounding(c) <= Rounding(clock)
        /\ Rounding(begun) \in Nat /\ Rounding(c) \in Nat
    BY <1>1, <2>2, RoundingGrows, RoundingBounds
  <2> QED
    BY <1>1, <1>2, <2>2, <2>3, <2>4, <2>5, <2>6, TimerConstants
<1> QED
  BY <1>1, <1>3, <1>4

LEMMA AtMostTooShort ==
    ASSUME TimerInv, phase # "loop", BeforeWrap, Expired
    PROVE  waited >= TurnTime - 2 * Rounding(clock)
<1>1. /\ clock \in Readings /\ begun \in Readings /\ clock \in Nat /\ begun \in Nat /\ start \in Nat
      /\ waited \in Nat /\ start = ToFloat(begun) /\ clock = begun + waited
  BY ClockBits, TimerConstants DEF TimerInv, TimerTypeOK, Readings, BeforeWrap
<1>2. ToFloat(clock) - start >= TurnTime
  BY DEF Expired, Elapsed
<1>3. ToFloat(clock) <= clock + Rounding(clock) /\ ToFloat(clock) \in Nat
  BY <1>1, FloatIsNear
<1>4. begun - Rounding(begun) <= start
  BY <1>1, FloatIsNear
<1>5. Rounding(begun) <= Rounding(clock) /\ Rounding(begun) \in Nat /\ Rounding(clock) \in Nat
  BY <1>1, RoundingGrows, RoundingBounds
<1> QED
  BY <1>1, <1>2, <1>3, <1>4, <1>5, TimerConstants

LEMMA NoEndAfterWrap == ASSUME TimerInv, AfterWrap PROVE ~ Expired
<1>1. ToFloat(clock) \in Nat /\ ToFloat(clock) <= Pow2[W] /\ start \in Nat
  BY FloatIsNear DEF TimerInv, TimerTypeOK
<1> QED
  BY <1>1, ClockBits, TimerConstants DEF AfterWrap, Expired, Elapsed

(* A timed turn lasts what loop() asks for, but for at most the spacing of *)
(* floats at the time it ends: exactly that long while millis() fits the   *)
(* mantissa, which it does for the first 4.6 hours of the code's 24 bits.  *)
THEOREM TurnsLastTheirTime == TimerSpec => []TurnLengthHolds
<1>1. TimerInv => TurnLengthHolds
  <2> SUFFICES ASSUME TimerInv, phase = "turned" PROVE waited \in TurnTime - 2 * Rounding(clock)..TurnTime + 2 * Rounding(clock)
    BY DEF TurnLengthHolds
  <2>1. Expired /\ phase # "loop"
    BY DEF TimerInv
  <2>2. BeforeWrap
    BY <2>1, NoEndAfterWrap DEF TimerInv
  <2>3. waited <= TurnTime + 2 * Rounding(clock) /\ waited >= TurnTime - 2 * Rounding(clock)
    BY <2>1, <2>2, AtMostTooLong, AtMostTooShort
  <2>4. waited \in Int /\ Rounding(clock) \in Nat
    BY TimerConstants, RoundingBounds DEF TimerInv, TimerTypeOK
  <2> QED
    BY <2>3, <2>4, TimerConstants
<1> QED
  BY <1>1, TimerIsInvariant, PTL

(* The watchdog bites in a turn only when the turn would have ended past   *)
(* the wrap of millis(), after which the comparison of loop() stays false. *)
THEOREM WatchdogBitesAtTheWrap == TimerSpec => []BittenOnlyAtTheWrap
<1>1. TimerInv => BittenOnlyAtTheWrap
  <2> SUFFICES ASSUME TimerInv, phase = "bitten" PROVE begun + Rounding(begun) + TurnTime > Pow2[W]
    BY DEF BittenOnlyAtTheWrap
  <2>1. waited = Watchdog /\ phase # "loop" /\ start = ToFloat(begun) /\ begun \in Readings /\ clock \in Readings
    BY DEF TimerInv, TimerTypeOK
  <2>2. ~ BeforeWrap
    <3>1. SUFFICES ASSUME BeforeWrap PROVE FALSE
      OBVIOUS
    <3>2. Watchdog <= TurnTime + 2 * Rounding(clock)
      BY <2>1, <3>1, AtMostTooLong
    <3>3. /\ Rounding(clock) \in Nat /\ 2 * Rounding(clock) <= Ulp(clock)
          /\ Ulp(clock) \in Nat /\ Ulp(clock) <= Pow2[W - M]
      BY <2>1, RoundingBounds, UlpBounds
    <3> QED
      BY <3>2, <3>3, TimerConstants, ClockBits
  <2>3. start + TurnTime > Pow2[W]
    BY <2>1, <2>2 DEF TimerInv, AfterWrap
  <2>4. start <= begun + Rounding(begun) /\ start \in Nat
    BY <2>1, FloatIsNear
  <2>5. begun \in Nat /\ Rounding(begun) \in Nat
    BY <2>1, RoundingBounds, ClockBits DEF Readings
  <2> QED
    BY <2>3, <2>4, <2>5, TimerConstants, ClockBits
<1> QED
  BY <1>1, TimerIsInvariant, PTL
=============================================================================
