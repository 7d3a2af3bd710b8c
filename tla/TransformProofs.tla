--------------------------- MODULE TransformProofs ---------------------------
(***************************************************************************)
(* The arithmetic of the convolution engine, for every prime field and     *)
(* every length of block: remainders and sums; the roots of unity, whose   *)
(* sums vanish; the transforms, which invert each other and turn a         *)
(* pointwise product into a circular convolution; the order of cbuf, which *)
(* the kernels read and keep; and what they do to a signal that is given   *)
(* block by block.                                                         *)
(***************************************************************************)
EXTENDS Spectrum, WellFoundedInduction, TLAPS

-----------------------------------------------------------------------------
(* Remainders.                                                             *)

LEMMA PNat == P \in Int /\ P \in Nat \ {0} /\ P >= 2
<1>1. P \in Nat \ {0, 1}
  BY FieldAssumption
<1> QED BY ONLY <1>1

\* The multiples of P.
Vanishes(x) == \E q \in Int : x = q * P

LEMMA VanishSum ==
  ASSUME NEW x \in Int, NEW y \in Int, Vanishes(x), Vanishes(y)
  PROVE  Vanishes(x + y) /\ Vanishes(x - y)
<1>1. PICK q \in Int : x = q * P
  BY DEF Vanishes
<1>2. PICK r \in Int : y = r * P
  BY DEF Vanishes
<1>3. P \in Int
  BY PNat
<1>4. x + y = (q + r) * P /\ x - y = (q - r) * P
  BY ONLY <1>1, <1>2, <1>3, q \in Int, r \in Int
<1>5. q + r \in Int /\ q - r \in Int
  OBVIOUS
<1> QED BY <1>4, <1>5 DEF Vanishes

LEMMA VanishTimes ==
  ASSUME NEW x \in Int, NEW a \in Int, Vanishes(x)
  PROVE  Vanishes(a * x)
<1>1. PICK q \in Int : x = q * P
  BY DEF Vanishes
<1>3. P \in Int
  BY PNat
<1>4. a * x = (a * q) * P
  BY ONLY <1>1, <1>3, q \in Int, a \in Int
<1>5. a * q \in Int
  BY ONLY q \in Int, a \in Int
<1> QED BY <1>4, <1>5 DEF Vanishes

\* Equal in the field.
Eq(x, y) == x % P = y % P

LEMMA Remainder ==
  ASSUME NEW x \in Int
  PROVE  x % P \in 0 .. P - 1 /\ x \div P \in Int /\ x = (x \div P) * P + (x % P)
<1>1. P \in Nat \ {0}
  BY PNat
<1>2. x % P \in 0 .. P - 1 /\ x \div P \in Int /\ x = P * (x \div P) + (x % P)
  BY ONLY <1>1, x \in Int
<1> QED BY ONLY <1>1, <1>2, x \in Int

\* A remainder is known by its range.
LEMMA RemIs ==
  ASSUME NEW b \in Nat \ {0}, NEW x \in Int, NEW q \in Int, NEW r \in 0 .. b - 1, x = q * b + r
  PROVE  x % b = r
<1>1. PICK m, d : m = x % b /\ d = x \div b
  OBVIOUS
<1>2. m \in 0 .. b - 1 /\ d \in Int /\ x = b * d + m
  <2>1. x % b \in 0 .. b - 1 /\ x \div b \in Int /\ x = b * (x \div b) + (x % b)
    BY ONLY x \in Int, b \in Nat \ {0}
  <2> QED BY <1>1, <2>1
<1>4. (d - q) * b = r - m
  BY ONLY <1>2, b \in Nat \ {0}, x = q * b + r, q \in Int, r \in 0 .. b - 1
<1>5. d - q = 0
  <2>1. PICK e \in Int : e = d - q
    BY <1>2
  <2>2. e * b < b /\ e * b > -b
    BY ONLY <1>2, <1>4, <2>1, r \in 0 .. b - 1, b \in Nat \ {0}
  <2>3. e < 1 /\ e > -1
    BY ONLY <2>1, <2>2, b \in Nat \ {0}
  <2> QED BY <2>1, <2>3
<1>6. r = m
  BY ONLY <1>2, <1>4, <1>5, r \in 0 .. b - 1, b \in Nat \ {0}
<1> QED BY <1>1, <1>6

LEMMA RemainderIs ==
  ASSUME NEW x \in Int, NEW q \in Int, NEW r \in 0 .. P - 1, x = q * P + r
  PROVE  x % P = r
BY PNat, RemIs

LEMMA EqVanishes ==
  ASSUME NEW x \in Int, NEW y \in Int
  PROVE  Eq(x, y) <=> Vanishes(x - y)
<1>1. PICK q, m, r, n : q = x \div P /\ m = x % P /\ r = y \div P /\ n = y % P
  OBVIOUS
<1>2. /\ q \in Int /\ m \in 0 .. P - 1 /\ x = q * P + m
      /\ r \in Int /\ n \in 0 .. P - 1 /\ y = r * P + n
  BY <1>1, Remainder
<1>3. P \in Int
  BY PNat
<1>4. ASSUME m = n PROVE Vanishes(x - y)
  <2>1. x - y = (q - r) * P /\ q - r \in Int
    BY ONLY <1>2, <1>3, <1>4
  <2> QED BY <2>1 DEF Vanishes
<1>5. ASSUME Vanishes(x - y) PROVE m = n
  <2>1. PICK d \in Int : x - y = d * P
    BY <1>5 DEF Vanishes
  <2>2. x = (r + d) * P + n /\ r + d \in Int
    BY ONLY <1>2, <1>3, <2>1, x \in Int, y \in Int
  <2>3. x % P = n
    BY <1>2, <2>2, RemainderIs
  <2> QED BY <1>1, <2>3
<1> QED BY <1>1, <1>4, <1>5 DEF Eq

LEMMA EqLaws ==
  ASSUME NEW x \in Int, NEW y \in Int, Eq(x, y), NEW u \in Int, NEW v \in Int, Eq(u, v)
  PROVE  Eq(x + u, y + v) /\ Eq(x - u, y - v) /\ Eq(x * u, y * v) /\ Eq(-x, -y)
<1>1. Vanishes(x - y) /\ Vanishes(u - v)
  BY EqVanishes
<1>2. PICK a, b : a = x - y /\ b = u - v
  OBVIOUS
<1>3. a \in Int /\ b \in Int /\ Vanishes(a) /\ Vanishes(b)
  BY <1>1, <1>2
<1>4. Vanishes(a + b) /\ Vanishes(a - b)
  BY <1>3, VanishSum
<1>5. Vanishes(u * a + y * b)
  <2>1. Vanishes(u * a) /\ Vanishes(y * b)
    BY <1>3, VanishTimes
  <2>2. u * a \in Int /\ y * b \in Int
    BY ONLY <1>3, u \in Int, y \in Int
  <2> QED BY <2>1, <2>2, VanishSum
<1>6. Vanishes((-1) * a)
  BY <1>3, VanishTimes
<1>7. /\ (x + u) - (y + v) = a + b /\ (x - u) - (y - v) = a - b
      /\ x * u - y * v = u * a + y * b /\ (-x) - (-y) = (-1) * a
  BY ONLY <1>2, x \in Int, y \in Int, u \in Int, v \in Int
<1>8. x + u \in Int /\ y + v \in Int /\ x - u \in Int /\ y - v \in Int
      /\ x * u \in Int /\ y * v \in Int /\ -x \in Int /\ -y \in Int
  BY ONLY x \in Int, y \in Int, u \in Int, v \in Int
<1> QED BY <1>4, <1>5, <1>6, <1>7, <1>8, EqVanishes

LEMMA EqRemainder ==
  ASSUME NEW x \in Int
  PROVE  Eq(x % P, x) /\ (x \in 0 .. P - 1 => x % P = x) /\ x % P \in 0 .. P - 1 /\ x % P \in Int
<1>1. PICK m \in 0 .. P - 1 : m = x % P
  BY Remainder
<1>2. ASSUME NEW y \in 0 .. P - 1 PROVE y % P = y
  <2>1. y = 0 * P + y /\ 0 \in Int /\ y \in Int
    BY PNat
  <2> QED BY <2>1, RemainderIs
<1>3. m % P = m
  BY <1>2
<1> QED BY <1>1, <1>2, <1>3, PNat DEF Eq

\* Equal numbers between 0 and P - 1 are the same.
LEMMA EqSame ==
  ASSUME NEW x \in 0 .. P - 1, NEW y \in 0 .. P - 1, Eq(x, y)
  PROVE  x = y
<1>1. x \in Int /\ y \in Int
  OBVIOUS
<1> QED BY <1>1, EqRemainder DEF Eq

\* The field has no divisors of zero.
LEMMA NoDivisors ==
  ASSUME NEW x \in Int, NEW y \in Int, Eq(x * y, 0)
  PROVE  Eq(x, 0) \/ Eq(y, 0)
<1>1. SUFFICES ASSUME ~Eq(x, 0), ~Eq(y, 0) PROVE FALSE
  OBVIOUS
<1>2. 0 % P = 0
  <2>1. 0 \in Int /\ 0 \in 0 .. P - 1
    BY PNat
  <2> QED BY <2>1, EqRemainder
<1>3. PICK a, b : a = x % P /\ b = y % P
  OBVIOUS
<1>4. a \in 1 .. P - 1 /\ b \in 1 .. P - 1
  <2>1. a \in 0 .. P - 1 /\ b \in 0 .. P - 1
    BY <1>3, Remainder
  <2>2. a # 0 /\ b # 0
    BY <1>1, <1>2, <1>3 DEF Eq
  <2> QED BY <2>1, <2>2
<1>5. Eq(a * b, x * y)
  <2>1. Eq(a, x) /\ Eq(b, y) /\ a \in Int /\ b \in Int
    BY <1>3, EqRemainder
  <2> QED BY <2>1, EqLaws
<1>6. (a * b) % P = 0
  BY <1>2, <1>5 DEF Eq
<1> QED BY <1>4, <1>6, FieldAssumption

\* A factor other than zero may be cancelled.
LEMMA Cancel ==
  ASSUME NEW a \in Int, ~Eq(a, 0), NEW x \in Int, NEW y \in Int, Eq(a * x, a * y)
  PROVE  Eq(x, y)
<1>1. Vanishes(a * x - a * y)
  <2>1. a * x \in Int /\ a * y \in Int
    BY ONLY a \in Int, x \in Int, y \in Int
  <2> QED BY <2>1, EqVanishes
<1>2. a * x - a * y = a * (x - y) - 0
  BY ONLY a \in Int, x \in Int, y \in Int
<1>3. Eq(a * (x - y), 0)
  <2>1. a * (x - y) \in Int /\ x - y \in Int
    BY ONLY a \in Int, x \in Int, y \in Int
  <2> QED BY <1>1, <1>2, <2>1, EqVanishes
<1>4. Eq(x - y, 0)
  <2>1. x - y \in Int
    OBVIOUS
  <2> QED BY <1>3, <2>1, NoDivisors
<1>5. Vanishes((x - y) - 0) /\ (x - y) - 0 = x - y
  BY <1>4, EqVanishes
<1> QED BY <1>5, EqVanishes

-----------------------------------------------------------------------------
(* Induction and recursive functions.                                      *)

\* A set that holds zero and with each number the next holds all of them,
\* since there is no least number that it does not hold.
LEMMA Induction ==
  ASSUME NEW S, 0 \in S, \A n \in Nat : n \in S => n + 1 \in S
  PROVE  Nat \subseteq S
<1> DEFINE T == Nat \ S
           R == OpToRel(<, Nat)
<1>1. SUFFICES ASSUME T # {} PROVE FALSE
  OBVIOUS
<1>2. \A m, n \in Nat : m < n => <<m, n>> \in R
  BY DEF OpToRel
<1>3. PICK x \in T : \A y \in T : ~(<<y, x>> \in R)
  <2>1. T \subseteq Nat /\ IsWellFoundedOn(R, Nat)
    BY NatLessThanWellFounded
  <2> HIDE DEF T, R
  <2> QED BY <1>1, <2>1, WFMin
<1> HIDE DEF R
<1>4. x \in Nat \ {0} /\ x - 1 \in Nat /\ x - 1 < x /\ (x - 1) + 1 = x
  BY <1>3
<1>5. x - 1 \in S
  BY <1>2, <1>3, <1>4
<1> QED BY <1>3, <1>4, <1>5

\* f begins with a, and goes on as g says.
Unfolds(f, n, T, a, g) ==
  f \in [0 .. n -> T] /\ f[0] = a /\ \A j \in 1 .. n : f[j] = g[<<j, f[j - 1]>>]

\* A recursive function is what its equation says: there is one for which
\* the equation holds.
LEMMA Recursion ==
  ASSUME NEW n \in Nat, NEW T, NEW a \in T, NEW g \in [(1 .. n) \X T -> T]
  PROVE  \E f : Unfolds(f, n, T, a, g)
<1> DEFINE Up(m, f) == \A j \in 0 .. m : f[j] = IF j = 0 THEN a ELSE g[<<j, f[j - 1]>>]
           S == {m \in Nat : m <= n => \E f \in [0 .. m -> T] : Up(m, f)}
<1>1. 0 \in S
  <2>1. [j \in 0 .. 0 |-> a] \in [0 .. 0 -> T] /\ Up(0, [j \in 0 .. 0 |-> a])
    OBVIOUS
  <2> QED BY <2>1
<1>2. ASSUME NEW m \in Nat, m \in S PROVE m + 1 \in S
  <2>1. SUFFICES ASSUME m + 1 <= n PROVE \E f \in [0 .. m + 1 -> T] : Up(m + 1, f)
    OBVIOUS
  <2>2. PICK f \in [0 .. m -> T] : Up(m, f)
    BY <1>2, <2>1
  <2>3. \A j \in 0 .. m : f[j] = IF j = 0 THEN a ELSE g[<<j, f[j - 1]>>]
    BY <2>2
  <2> DEFINE v == g[<<m + 1, f[m]>>]
             h == [j \in 0 .. m + 1 |-> IF j <= m THEN f[j] ELSE v]
  <2>4. v \in T
    BY <2>1, <2>2
  <2>5. v = g[<<m + 1, f[m]>>]
    OBVIOUS
  <2> HIDE DEF v
  <2>6. h \in [0 .. m + 1 -> T] /\ h[m + 1] = v /\ \A j \in 0 .. m : h[j] = f[j]
    BY <2>2, <2>4
  <2> HIDE DEF h
  <2>7. ASSUME NEW j \in 0 .. m + 1 PROVE h[j] = IF j = 0 THEN a ELSE g[<<j, h[j - 1]>>]
    <3>1. CASE j \in 1 .. m
      <4>1. j - 1 \in 0 .. m /\ j \in 0 .. m
        BY <3>1
      <4>2. h[j] = f[j] /\ h[j - 1] = f[j - 1]
        BY <2>6, <4>1
      <4> QED BY <2>3, <3>1, <4>1, <4>2
    <3>2. CASE j = m + 1
      <4>1. j - 1 = m /\ j # 0
        BY <3>2
      <4>2. h[m] = f[m]
        BY <2>6
      <4>3. h[j] = v /\ h[j - 1] = f[m]
        BY ONLY <2>6, <3>2, <4>1, <4>2
      <4> QED BY ONLY <2>5, <3>2, <4>1, <4>3
    <3>3. CASE j = 0
      <4>1. 0 \in 0 .. m
        OBVIOUS
      <4>2. f[0] = a
        BY <2>3, <4>1
      <4> QED BY <2>6, <3>3, <4>1, <4>2
    <3> QED BY <3>1, <3>2, <3>3
  <2> QED BY <2>6, <2>7
<1>3. Nat \subseteq S
  <2> HIDE DEF S
  <2> QED BY <1>1, <1>2, Induction
<1>4. PICK f \in [0 .. n -> T] : Up(n, f)
  BY <1>3
<1>5. f[0] = a
  <2>1. 0 \in 0 .. n
    OBVIOUS
  <2> QED BY <1>4, <2>1
<1>6. \A j \in 1 .. n : f[j] = g[<<j, f[j - 1]>>]
  BY <1>4
<1> QED BY <1>5, <1>6 DEF Unfolds

-----------------------------------------------------------------------------
(* Powers of the generator.                                                *)

\* The numbers other than zero.
Units == 1 .. P - 1

LEMMA UnitIs ==
  ASSUME NEW x \in Int
  PROVE  /\ x \in Units => ~Eq(x, 0)
         /\ ~Eq(x, 0) => x % P \in Units
         /\ 0 % P = 0
<1>1. 0 \in 0 .. P - 1 /\ 0 \in Int
  BY PNat
<1>2. 0 % P = 0
  BY <1>1, EqRemainder
<1>3. x % P \in 0 .. P - 1 /\ (x \in 0 .. P - 1 => x % P = x)
  BY EqRemainder
<1>4. P \in Int
  BY PNat
<1> QED BY <1>2, <1>3, <1>4 DEF Eq, Units

LEMMA PowerIs ==
  /\ Power[0] = 1 /\ \A k \in 0 .. P - 2 : Power[k] \in Units
  /\ \A k \in 1 .. P - 2 : Power[k] = (Power[k - 1] * Generator) % P
<1>1. PICK n \in Nat : n = P - 2
  BY PNat
<1>2. Generator \in Units /\ Generator \in Int /\ 1 \in Units
  BY PNat, FieldAssumption DEF Units
<1> DEFINE g == [p \in (1 .. n) \X Units |-> (p[2] * Generator) % P]
<1>3. \A v \in Units : (v * Generator) % P \in Units
  <2> TAKE v \in Units
  <2>1. v \in Int
    BY DEF Units
  <2>2. ~Eq(v, 0) /\ ~Eq(Generator, 0)
    BY <1>2, <2>1, UnitIs
  <2>3. v * Generator \in Int
    BY ONLY <1>2, <2>1
  <2>4. ~Eq(v * Generator, 0)
    BY <1>2, <2>1, <2>2, NoDivisors
  <2> QED BY <2>3, <2>4, UnitIs
<1>4. g \in [(1 .. n) \X Units -> Units]
  BY <1>3
<1>5. \A k \in 1 .. n, v \in Units : g[<<k, v>>] = (v * Generator) % P
  OBVIOUS
<1> HIDE DEF g
<1>6. PICK s : Unfolds(s, n, Units, 1, g)
  BY <1>2, <1>4, Recursion
<1>7. s \in [0 .. n -> Units] /\ s[0] = 1
  BY <1>6 DEF Unfolds
<1>8. \A k \in 1 .. n : s[k] = (s[k - 1] * Generator) % P
  <2> TAKE k \in 1 .. n
  <2>1. k - 1 \in 0 .. n /\ s[k] = g[<<k, s[k - 1]>>]
    BY <1>6 DEF Unfolds
  <2>2. s[k - 1] \in Units
    BY <1>7, <2>1
  <2> QED BY <1>5, <2>1, <2>2
<1> DEFINE E(h) == h = [k \in 0 .. P - 2 |-> IF k = 0 THEN 1 ELSE (h[k - 1] * Generator) % P]
<1>9. E(s)
  BY <1>1, <1>7, <1>8
<1> DEFINE t == CHOOSE h : E(h)
<1>10. E(t)
  BY <1>9
<1>11. Power = t
  BY DEF Power
<1> HIDE DEF t
<1>12. t[0] = 1 /\ \A k \in 1 .. n : t[k] = (t[k - 1] * Generator) % P
  <2>1. \A k \in 0 .. n : t[k] = IF k = 0 THEN 1 ELSE (t[k - 1] * Generator) % P
    BY <1>1, <1>10
  <2>2. 0 \in 0 .. n /\ \A k \in 1 .. n : k \in 0 .. n /\ k # 0
    OBVIOUS
  <2> QED BY <2>1, <2>2
<1> DEFINE S == {k \in Nat : k <= n => t[k] \in Units}
<1>13. Nat \subseteq S
  <2>1. 0 \in S
    BY <1>2, <1>12
  <2>2. ASSUME NEW k \in Nat, k \in S PROVE k + 1 \in S
    <3>1. SUFFICES ASSUME k + 1 <= n PROVE t[k + 1] \in Units
      OBVIOUS
    <3>2. k + 1 \in 1 .. n /\ (k + 1) - 1 = k /\ t[k] \in Units
      BY <2>2, <3>1
    <3> QED BY <1>3, <1>12, <3>2
  <2> HIDE DEF S
  <2> QED BY <2>1, <2>2, Induction
<1>14. \A k \in 0 .. n : t[k] \in Units
  BY <1>13
<1> QED BY <1>1, <1>11, <1>12, <1>14

\* The powers begin again.
LEMMA PowerWraps == Eq(Power[P - 2] * Generator, 1)
<1>1. PICK n \in Nat : n = P - 2
  BY PNat
<1>2. Generator \in Units /\ Generator \in Int /\ ~Eq(Generator, 0)
  <2>1. Generator \in Units /\ Generator \in Int
    BY PNat, FieldAssumption DEF Units
  <2> QED BY <2>1, UnitIs
<1>3. Power[n] \in Units /\ Power[n] \in Int
  BY <1>1, PowerIs DEF Units
<1>4. PICK v : v = Power[n] * Generator
  OBVIOUS
<1>5. v \in Int /\ ~Eq(v, 0)
  <2>1. v \in Int
    BY ONLY <1>2, <1>3, <1>4
  <2>2. ~Eq(Power[n], 0)
    BY <1>3, UnitIs
  <2> QED BY <1>2, <1>3, <1>4, <2>1, <2>2, NoDivisors
<1>6. v % P \in 1 .. P - 1 /\ Eq(v % P, v)
  BY <1>5, UnitIs, EqRemainder DEF Units
<1>7. PICK k \in 0 .. P - 2 : Power[k] = v % P
  BY <1>6, FieldAssumption
<1>8. CASE k = 0
  BY <1>1, <1>4, <1>6, <1>7, <1>8, PowerIs DEF Eq
<1>9. CASE k # 0
  <2>1. k \in 1 .. P - 2 /\ k - 1 \in 0 .. P - 2 /\ k - 1 \in 0 .. n /\ n \in 0 .. P - 2 /\ k - 1 # n
    BY <1>1, <1>9
  <2>2. Power[k] = (Power[k - 1] * Generator) % P /\ Power[k - 1] \in Int
    BY <2>1, PowerIs DEF Units
  <2>3. Power[k - 1] * Generator \in Int
    BY ONLY <1>2, <2>2
  <2>4. Eq(Power[k - 1] * Generator, v)
    BY <1>6, <1>7, <2>2, <2>3, EqRemainder DEF Eq
  <2>5. Eq(Generator * Power[k - 1], Generator * Power[n])
    <3>1. Power[k - 1] * Generator = Generator * Power[k - 1] /\ v = Generator * Power[n]
      BY ONLY <1>2, <1>3, <1>4, <2>2
    <3> QED BY <2>4, <3>1
  <2>6. Eq(Power[k - 1], Power[n])
    BY <1>2, <1>3, <2>2, <2>5, Cancel
  <2>7. Power[k - 1] \in 0 .. P - 1 /\ Power[n] \in 0 .. P - 1
    <3>1. Power[k - 1] \in Units
      BY <2>1, PowerIs
    <3> QED BY <1>3, <3>1 DEF Units
  <2>8. Power[k - 1] = Power[n]
    BY <2>6, <2>7, EqSame
  <2>9. k - 1 = n
    BY <2>1, <2>8, FieldAssumption
  <2> QED BY <2>1, <2>9
<1> QED BY <1>8, <1>9

\* The powers, once round and on.
Pow(k) == Power[IF k < P - 1 THEN k ELSE k - (P - 1)]

LEMMA PowIs ==
  /\ \A k \in 0 .. 2 * (P - 1) - 1 : Pow(k) \in Units /\ Pow(k) \in Int
  /\ \A k \in 0 .. 2 * (P - 1) - 2 : Eq(Pow(k + 1), Pow(k) * Generator)
<1>1. PICK n \in Nat \ {0} : n = P - 1 /\ P \in Int
  <2>1. P - 1 \in Nat \ {0} /\ P \in Int
    BY PNat
  <2> QED BY <2>1
<1>2. \A k \in 0 .. n - 1 : Power[k] \in Units /\ Power[k] \in Int
  BY <1>1, PowerIs DEF Units
<1>3. \A k \in 1 .. n - 1 : Eq(Power[k], Power[k - 1] * Generator)
  <2> TAKE k \in 1 .. n - 1
  <2>1. k \in 1 .. P - 2 /\ k - 1 \in 0 .. n - 1
    BY <1>1
  <2>2. Power[k] = (Power[k - 1] * Generator) % P
    BY <2>1, PowerIs
  <2>3. Power[k - 1] * Generator \in Int
    BY <1>2, <2>1, FieldAssumption
  <2> QED BY <2>2, <2>3, EqRemainder
<1>4. Eq(Power[0], Power[n - 1] * Generator)
  <2>1. n - 1 = P - 2
    BY <1>1
  <2> QED BY <2>1, PowerIs, PowerWraps DEF Eq
<1>5. ASSUME NEW k \in 0 .. 2 * n - 1
      PROVE  Pow(k) = Power[IF k < n THEN k ELSE k - n]
  BY <1>1 DEF Pow
<1>6. ASSUME NEW k \in 0 .. 2 * n - 1
      PROVE  Pow(k) \in Units /\ Pow(k) \in Int
  BY <1>2, <1>5
<1>7. ASSUME NEW k \in 0 .. 2 * n - 2
      PROVE  Eq(Pow(k + 1), Pow(k) * Generator)
  <2>0. k + 1 \in 0 .. 2 * n - 1 /\ k \in 0 .. 2 * n - 1
    OBVIOUS
  <2>1. CASE k + 1 < n
    <3>1. k + 1 \in 1 .. n - 1 /\ (k + 1) - 1 = k /\ k < n
      BY <2>1
    <3>2. Pow(k + 1) = Power[k + 1] /\ Pow(k) = Power[k]
      BY <1>5, <2>0, <2>1, <3>1
    <3>3. Eq(Power[k + 1], Power[(k + 1) - 1] * Generator)
      BY <1>3, <3>1
    <3> QED BY <3>1, <3>2, <3>3
  <2>2. CASE k + 1 = n
    <3>1. k = n - 1 /\ ~(k + 1 < n) /\ (k + 1) - n = 0 /\ k < n
      BY <2>2
    <3>2. Pow(k + 1) = Power[0] /\ Pow(k) = Power[n - 1]
      BY <1>5, <2>0, <3>1
    <3> QED BY <1>4, <3>2
  <2>3. CASE k + 1 > n
    <3>1. (k + 1) - n \in 1 .. n - 1 /\ ((k + 1) - n) - 1 = k - n /\ ~(k + 1 < n) /\ ~(k < n)
      BY <2>3
    <3>2. Pow(k + 1) = Power[(k + 1) - n] /\ Pow(k) = Power[k - n]
      BY <1>5, <2>0, <3>1
    <3>3. Eq(Power[(k + 1) - n], Power[((k + 1) - n) - 1] * Generator)
      BY <1>3, <3>1
    <3> QED BY <3>1, <3>2, <3>3
  <2> QED BY <2>1, <2>2, <2>3
<1> QED BY <1>1, <1>6, <1>7

LEMMA PowAdds ==
  ASSUME NEW i \in 0 .. P - 2, NEW j \in 0 .. P - 2
  PROVE  Eq(Pow(i + j), Power[i] * Power[j])
<1>1. PICK n \in Nat \ {0} : n = P - 1 /\ P \in Int
  <2>1. P - 1 \in Nat \ {0} /\ P \in Int
    BY PNat
  <2> QED BY <2>1
<1>2. i \in 0 .. n - 1 /\ j \in 0 .. n - 1
  BY <1>1
<1>3. \A k \in 0 .. n - 1 : Power[k] \in Int
  BY <1>1, PowerIs DEF Units
<1>4. \A k \in 0 .. n - 1 : Pow(k) = Power[k]
  BY <1>1 DEF Pow
<1>5. /\ \A k \in 0 .. 2 * n - 1 : Pow(k) \in Int
      /\ \A k \in 0 .. 2 * n - 2 : Eq(Pow(k + 1), Pow(k) * Generator)
  BY <1>1, PowIs
<1>6. Generator \in Int
  BY FieldAssumption
<1> DEFINE S == {k \in Nat : k <= n - 1 => Eq(Pow(i + k), Power[i] * Power[k])}
<1>7. 0 \in S
  <2>1. Pow(i + 0) = Power[i] /\ Power[i] * Power[0] = Power[i]
    <3>1. i + 0 = i /\ Power[0] = 1 /\ Power[i] \in Int
      BY <1>2, <1>3, PowerIs
    <3>2. Power[i] * 1 = Power[i]
      BY ONLY <3>1
    <3> QED BY <1>2, <1>4, <3>1, <3>2
  <2> QED BY <2>1 DEF Eq
<1>8. ASSUME NEW k \in Nat, k \in S PROVE k + 1 \in S
  <2>1. SUFFICES ASSUME k + 1 <= n - 1 PROVE Eq(Pow(i + (k + 1)), Power[i] * Power[k + 1])
    OBVIOUS
  <2>2. k \in 0 .. n - 1 /\ k + 1 \in 0 .. n - 1 /\ i + k \in 0 .. 2 * n - 2 /\ i + (k + 1) = (i + k) + 1
        /\ k \in 0 .. 2 * n - 2 /\ i + k \in 0 .. 2 * n - 1
    BY <1>2, <2>1
  <2>3. PICK a, b, c, d, e : a = Power[i] /\ b = Power[k] /\ c = Power[k + 1] /\ d = Pow(i + k) /\ e = Generator
    OBVIOUS
  <2>4. a \in Int /\ b \in Int /\ c \in Int /\ d \in Int /\ e \in Int
    BY <1>2, <1>3, <1>5, <1>6, <2>2, <2>3
  <2>5. Eq(d, a * b)
    BY <1>8, <2>2, <2>3
  <2>6. Eq(c, b * e)
    BY <1>4, <1>5, <2>2, <2>3
  <2>7. Eq(Pow(i + (k + 1)), d * e)
    BY <1>5, <2>2, <2>3
  <2>8. Eq(d * e, (a * b) * e) /\ Eq(a * c, a * (b * e))
    <3>1. a * b \in Int /\ b * e \in Int /\ Eq(e, e) /\ Eq(a, a)
      BY ONLY <2>4 DEF Eq
    <3> QED BY <2>4, <2>5, <2>6, <3>1, EqLaws
  <2>9. (a * b) * e = a * (b * e)
    BY ONLY <2>4
  <2>10. Eq(Pow(i + (k + 1)), a * c)
    BY <2>7, <2>8, <2>9 DEF Eq
  <2> QED BY <2>3, <2>10
<1>9. Nat \subseteq S
  <2> HIDE DEF S
  <2> QED BY <1>7, <1>8, Induction
<1> QED BY <1>2, <1>9

-----------------------------------------------------------------------------
(* Roots of unity.                                                         *)

LEMMA RemFacts ==
  ASSUME NEW n \in Nat \ {0}, NEW k \in Int
  PROVE  k % n \in 0 .. n - 1 /\ k % n \in Int /\ k \div n \in Int /\ k = n * (k \div n) + (k % n)
OBVIOUS

LEMMA RemSmall ==
  ASSUME NEW n \in Nat \ {0}, NEW k \in 0 .. n - 1
  PROVE  k % n = k
<1>1. k = 0 * n + k /\ k \in Int /\ 0 \in Int
  OBVIOUS
<1> QED BY <1>1, RemIs

LEMMA RemAdds ==
  ASSUME NEW n \in Nat \ {0}, NEW j \in Int, NEW k \in Int
  PROVE  (j + k) % n = IF (j % n) + (k % n) < n THEN (j % n) + (k % n) ELSE (j % n) + (k % n) - n
<1>1. PICK a, b, q, r : a = j % n /\ b = k % n /\ q = j \div n /\ r = k \div n
  OBVIOUS
<1>2. a \in 0 .. n - 1 /\ q \in Int /\ j = n * q + a /\ b \in 0 .. n - 1 /\ r \in Int /\ k = n * r + b
  BY <1>1, RemFacts
<1>3. CASE a + b < n
  <2>1. PICK z, w, c : z = j + k /\ w = q + r /\ c = a + b
    OBVIOUS
  <2>2. z = w * n + c /\ w \in Int /\ c \in 0 .. n - 1 /\ z \in Int
    BY ONLY <1>2, <1>3, <2>1, n \in Nat \ {0}
  <2>3. z % n = c
    BY <2>2, RemIs
  <2> QED BY <1>1, <1>3, <2>1, <2>3
<1>4. CASE ~(a + b < n)
  <2>1. PICK z, w, c : z = j + k /\ w = q + r + 1 /\ c = a + b - n
    OBVIOUS
  <2>2. z = w * n + c /\ w \in Int /\ c \in 0 .. n - 1 /\ z \in Int
    BY ONLY <1>2, <1>4, <2>1, n \in Nat \ {0}
  <2>3. z % n = c
    BY <2>2, RemIs
  <2> QED BY <1>1, <1>4, <2>1, <2>3
<1> QED BY <1>3, <1>4

\* A whole number of rounds changes nothing.
LEMMA RemRounds ==
  ASSUME NEW n \in Nat \ {0}, NEW k \in Int, NEW q \in Int
  PROVE  (k + q * n) % n = k % n /\ (q * n) % n = 0
<1>1. PICK a, r : a = k % n /\ r = k \div n
  OBVIOUS
<1>2. a \in 0 .. n - 1 /\ r \in Int /\ k = n * r + a
  BY <1>1, RemFacts
<1>3. PICK x, y, w : x = k + q * n /\ y = q * n /\ w = r + q
  OBVIOUS
<1>4. x = w * n + a /\ w \in Int /\ x \in Int /\ y = q * n + 0 /\ y \in Int /\ 0 \in 0 .. n - 1
  BY ONLY <1>2, <1>3, n \in Nat \ {0}, q \in Int
<1>5. x % n = a
  BY <1>2, <1>4, RemIs
<1>6. y % n = 0
  BY <1>4, RemIs
<1> QED BY <1>1, <1>3, <1>5, <1>6

\* The same remainder.
LEMMA RemTimes ==
  ASSUME NEW n \in Nat \ {0}, NEW j \in Int, NEW k \in Int
  PROVE  (j * (k % n)) % n = (j * k) % n /\ ((k % n) + j) % n = (k + j) % n
<1>1. PICK b, r : b = k % n /\ r = k \div n
  OBVIOUS
<1>2. b \in 0 .. n - 1 /\ r \in Int /\ k = n * r + b
  BY <1>1, RemFacts
<1>3. j * k = j * b + (j * r) * n /\ j * b \in Int /\ j * r \in Int /\ k + j = (b + j) + r * n /\ b + j \in Int
  BY ONLY <1>2, n \in Nat \ {0}, j \in Int
<1>4. (j * b + (j * r) * n) % n = (j * b) % n /\ ((b + j) + r * n) % n = (b + j) % n
  BY <1>2, <1>3, RemRounds
<1> QED BY <1>1, <1>3, <1>4

Divisor(n) == n \in Nat \ {0} /\ \E e \in Nat \ {0} : P - 1 = e * n

\* Root number k, for any k.
W(n, k) == Power[((P - 1) \div n) * (k % n)]

LEMMA ExponentIs ==
  ASSUME NEW n, Divisor(n)
  PROVE  \E e \in Nat \ {0} : e = (P - 1) \div n /\ P - 1 = e * n
<1>1. n \in Nat \ {0}
  BY DEF Divisor
<1>2. PICK e \in Nat \ {0} : P - 1 = e * n
  BY DEF Divisor
<1>3. PICK x, d : x = P - 1 /\ d = x \div n
  OBVIOUS
<1>4. x \in Int /\ x = e * n
  BY <1>2, <1>3, PNat
<1>5. x % n = 0
  <2>1. e \in Int
    OBVIOUS
  <2>2. (e * n) % n = 0
    BY <1>1, <2>1, RemRounds
  <2> QED BY <1>4, <2>2
<1>6. d \in Int /\ x = n * d + (x % n)
  BY <1>1, <1>3, <1>4, RemFacts
<1>7. x = n * d
  BY ONLY <1>1, <1>5, <1>6
<1>8. n * d = n * e
  BY ONLY <1>1, <1>4, <1>7, e \in Nat \ {0}
<1>9. d = e
  BY ONLY <1>1, <1>6, <1>8, e \in Nat \ {0}
<1> QED BY <1>2, <1>3, <1>9

LEMMA RootIs ==
  ASSUME NEW n, Divisor(n), NEW k \in Int
  PROVE  /\ W(n, k) \in Units /\ W(n, k) \in Int
         /\ W(n, 0) = 1
         /\ W(n, k) = 1 => k % n = 0
<1>1. n \in Nat \ {0}
  BY DEF Divisor
<1>2. PICK e \in Nat \ {0} : e = (P - 1) \div n /\ P - 1 = e * n
  BY ExponentIs
<1>3. PICK r : r = k % n
  OBVIOUS
<1>4. r \in 0 .. n - 1
  BY <1>1, <1>3, RemFacts
<1>5. e * r \in 0 .. P - 2
  <2>1. e * r \in Nat /\ e * (r + 1) <= e * n /\ e * (r + 1) = e * r + e
    BY ONLY <1>1, <1>4, e \in Nat \ {0}
  <2>2. PICK x, y : x = e * r /\ y = e * n
    OBVIOUS
  <2> QED BY ONLY <1>2, <2>1, <2>2, PNat, e \in Nat \ {0}
<1>6. W(n, k) = Power[e * r]
  BY <1>2, <1>3 DEF W
<1>7. W(n, k) \in Units /\ W(n, k) \in Int
  BY <1>5, <1>6, PowerIs DEF Units
<1>8. W(n, 0) = 1
  <2>1. 0 % n = 0
    BY <1>1, RemSmall
  <2>2. e * 0 = 0
    BY <1>2
  <2> QED BY <1>2, <2>1, <2>2, PowerIs DEF W
<1>9. ASSUME W(n, k) = 1 PROVE r = 0
  <2>1. 0 \in 0 .. P - 2
    BY PNat
  <2>2. e * r = 0
    BY <1>5, <1>6, <1>9, <2>1, PowerIs, FieldAssumption
  <2> QED BY ONLY <1>4, <2>2, e \in Nat \ {0}
<1> QED BY <1>3, <1>7, <1>8, <1>9

LEMMA RootsAdd ==
  ASSUME NEW n, Divisor(n), NEW j \in Int, NEW k \in Int
  PROVE  Eq(W(n, j + k), W(n, j) * W(n, k))
<1>1. n \in Nat \ {0}
  BY DEF Divisor
<1>2. PICK e \in Nat \ {0} : e = (P - 1) \div n /\ P - 1 = e * n
  BY ExponentIs
<1>3. PICK a, b, c : a = j % n /\ b = k % n /\ c = (j + k) % n
  OBVIOUS
<1>4. a \in 0 .. n - 1 /\ b \in 0 .. n - 1 /\ c = IF a + b < n THEN a + b ELSE a + b - n
  BY <1>1, <1>3, RemFacts, RemAdds
<1>5. PICK x, y, m : x = e * a /\ y = e * b /\ m = P - 1
  OBVIOUS
<1>6. x \in 0 .. P - 2 /\ y \in 0 .. P - 2 /\ m \in Int
  <2>1. x \in Nat /\ x + e <= e * n /\ y \in Nat /\ y + e <= e * n
    BY ONLY <1>1, <1>4, <1>5, e \in Nat \ {0}
  <2>2. PICK z : z = e * n
    OBVIOUS
  <2>3. z = P - 1 /\ x + e <= z /\ y + e <= z /\ x \in Nat /\ y \in Nat
    BY <1>2, <2>1, <2>2
  <2> QED BY ONLY <1>5, <2>3, PNat, e \in Nat \ {0}
<1>7. W(n, j) = Power[x] /\ W(n, k) = Power[y] /\ W(n, j + k) = Power[e * c]
  BY <1>2, <1>3, <1>5 DEF W
<1>8. e * c = IF x + y < m THEN x + y ELSE x + y - m
  <2>1. m = e * n
    BY <1>2, <1>5
  <2>2. CASE a + b < n
    <3>1. e * (a + b) < e * n /\ e * (a + b) = x + y
      BY ONLY <1>1, <1>4, <1>5, <2>2, e \in Nat \ {0}
    <3> QED BY <1>4, <2>1, <2>2, <3>1
  <2>3. CASE ~(a + b < n)
    <3>1. e * (a + b) >= e * n /\ e * (a + b) = x + y /\ e * (a + b - n) = x + y - e * n
      BY ONLY <1>1, <1>4, <1>5, <2>3, e \in Nat \ {0}
    <3>2. e * n \in Int /\ x + y \in Int
      BY ONLY <1>1, <1>6, e \in Nat \ {0}
    <3>3. ~(x + y < m)
      BY ONLY <2>1, <3>1, <3>2
    <3> QED BY <1>4, <2>1, <2>3, <3>1, <3>3
  <2> QED BY <2>2, <2>3
<1>9. Pow(x + y) = Power[e * c]
  BY <1>5, <1>8 DEF Pow
<1> QED BY <1>6, <1>7, <1>9, PowAdds

\* Roots with the same remainder are the same.
LEMMA RootsRound ==
  ASSUME NEW n, Divisor(n), NEW j \in Int, NEW k \in Int, j % n = k % n
  PROVE  W(n, j) = W(n, k)
BY DEF W

LEMMA RootIsRoot ==
  ASSUME NEW n, Divisor(n), NEW k \in 0 .. n
  PROVE  Root(n, k) = W(n, k)
<1>1. n \in Nat \ {0}
  BY DEF Divisor
<1>2. PICK e \in Nat \ {0} : e = (P - 1) \div n /\ P - 1 = e * n
  BY ExponentIs
<1>3. PICK m \in Nat \ {0} : m = P - 1
  <2>1. P - 1 \in Nat \ {0}
    BY PNat
  <2> QED BY <2>1
<1>4. Root(n, k) = Power[(e * k) % m]
  BY <1>2, <1>3 DEF Root
<1>5. CASE k < n
  <2>1. k \in 0 .. n - 1
    BY <1>1, <1>5
  <2>2. k % n = k
    BY <1>1, <2>1, RemSmall
  <2>3. e * k \in 0 .. m - 1
    <3>1. e * k \in Nat /\ e * (k + 1) <= e * n /\ e * (k + 1) = e * k + e
      BY ONLY <1>1, <2>1, e \in Nat \ {0}
    <3>2. PICK x, y : x = e * k /\ y = e * n
      OBVIOUS
    <3> QED BY ONLY <1>2, <1>3, <3>1, <3>2, e \in Nat \ {0}
  <2>4. (e * k) % m = e * k
    BY <2>3, RemSmall
  <2> QED BY <1>2, <1>4, <2>2, <2>4 DEF W
<1>6. CASE k = n
  <2>1. e * k = 1 * m /\ 1 \in Int /\ k = 1 * n /\ m \in Int
    <3>1. e * k = m
      BY <1>2, <1>3, <1>6
    <3>2. 1 * m = m /\ k = 1 * n
      BY <1>1, <1>6
    <3> QED BY <3>1, <3>2
  <2>2. (1 * m) % m = 0 /\ (1 * n) % n = 0
    BY <1>1, <2>1, RemRounds
  <2>3. e * 0 = 0
    BY ONLY e \in Nat \ {0}
  <2> QED BY <1>2, <1>4, <2>1, <2>2, <2>3 DEF W
<1> QED BY <1>1, <1>5, <1>6

-----------------------------------------------------------------------------
(* Sines and cosines.                                                      *)

\* Congruences are used with these.
LEMMA EqBasics ==
  /\ \A x : Eq(x, x)
  /\ \A x, y : Eq(x, y) => Eq(y, x)
  /\ \A x, y, z : Eq(x, y) /\ Eq(y, z) => Eq(x, z)
BY DEF Eq

LEMMA EqPlus ==
  ASSUME NEW x \in Int, NEW y \in Int, NEW u \in Int, NEW v \in Int, Eq(x, y), Eq(u, v)
  PROVE  Eq(x + u, y + v) /\ Eq(x - u, y - v)
BY EqLaws

LEMMA EqTimes ==
  ASSUME NEW x \in Int, NEW y \in Int, NEW u \in Int, NEW v \in Int, Eq(x, y), Eq(u, v)
  PROVE  Eq(x * u, y * v)
BY EqLaws

LEMMA EqScaled ==
  ASSUME NEW a \in Int, NEW x \in Int, NEW y \in Int, Eq(x, y)
  PROVE  Eq(a * x, a * y) /\ Eq(x * a, y * a)
BY EqLaws, EqBasics

LEMMA EqMoved ==
  ASSUME NEW a \in Int, NEW x \in Int, NEW y \in Int, Eq(x, y)
  PROVE  Eq(a + x, a + y) /\ Eq(x + a, y + a) /\ Eq(a - x, a - y) /\ Eq(x - a, y - a)
<1>1. Eq(a, a)
  BY DEF Eq
<1> QED BY <1>1, EqLaws

LEMMA InverseIs ==
  ASSUME NEW x \in Int, ~Eq(x, 0)
  PROVE  Inverse(x) \in 1 .. P - 1 /\ Inverse(x) \in Int /\ Eq(x * Inverse(x), 1)
<1>0. 1 % P = 1 /\ P \in Int
  <2>1. 1 \in 0 .. P - 1 /\ 1 \in Int
    BY PNat
  <2> QED BY <2>1, EqRemainder, PNat
<1>1. PICK r : r = x % P
  OBVIOUS
<1>2. r \in 1 .. P - 1 /\ Eq(r, x)
  BY <1>1, UnitIs, EqRemainder DEF Units
<1>3. PICK k \in 0 .. P - 2 : Power[k] = r
  BY <1>2, FieldAssumption
<1>4. \E y \in 1 .. P - 1 : Eq(r * y, 1)
  <2>1. CASE k = 0
    <3>1. r = 1 /\ 1 \in 1 .. P - 1 /\ r * 1 = 1
      BY <1>2, <1>3, <2>1, PowerIs, PNat
    <3> QED BY <3>1, EqBasics
  <2>2. CASE k # 0
    <3>1. PICK j : j = (P - 1) - k
      OBVIOUS
    <3>2. j \in 0 .. P - 2 /\ k + j = P - 1 /\ (P - 1) - (P - 1) = 0 /\ ~(P - 1 < P - 1)
      BY <1>0, <2>2, <3>1
    <3>3. Eq(Pow(k + j), Power[k] * Power[j])
      BY <3>2, PowAdds
    <3>4. Pow(k + j) = 1
      BY <3>2, PowerIs DEF Pow
    <3>5. Power[j] \in 1 .. P - 1
      BY <3>2, PowerIs DEF Units
    <3> QED BY <1>3, <3>3, <3>4, <3>5, EqBasics
  <2> QED BY <2>1, <2>2
<1>5. PICK y \in 1 .. P - 1 : Eq(r * y, 1)
  BY <1>4
<1>6. y \in Int /\ r \in Int /\ x * y \in Int
  <2>1. y \in Int /\ r \in Int
    BY <1>0, <1>2
  <2>2. x * y \in Int
    BY ONLY <2>1, x \in Int
  <2> QED BY <2>1, <2>2
<1>7. (x * y) % P = 1
  <2>1. Eq(r * y, x * y)
    BY <1>2, <1>6, EqScaled
  <2> QED BY <1>0, <1>5, <2>1 DEF Eq
<1>8. Inverse(x) \in 1 .. P - 1 /\ (x * Inverse(x)) % P = 1
  BY <1>7 DEF Inverse
<1> QED BY <1>0, <1>8 DEF Eq

LEMMA SubBlockIs == SubBlock = 4
<1>1. \A b \in {1, 2, 4, 8, 16} : (b >= 3 /\ b < 2 * 3) <=> b = 4
  OBVIOUS
<1>2. TdBlockLength(3) = 4
  <2>1. 4 \in {1, 2, 4, 8, 16}
    OBVIOUS
  <2> DEFINE Q(b) == b \in {1, 2, 4, 8, 16} /\ (b >= 3 /\ b < 2 * 3)
  <2>2. \A b : Q(b) <=> b = 4
    BY <1>1, <2>1
  <2>3. TdBlockLength(3) = CHOOSE b : Q(b)
    BY DEF TdBlockLength
  <2> QED BY <2>2, <2>3
<1> QED BY <1>2 DEF SubBlock, SubFilterLength

\* What is known of a length of a transform.
LEMMA TransformIs ==
  ASSUME NEW l \in Lengths, NEW n \in Transforms
  PROVE  /\ n \in Nat \ {0} /\ Divisor(n)
         /\ \E g \in Nat \ {0} : n = 8 * g /\ n \div 2 = 4 * g /\ n \div 4 = 2 * g
<1>0. PICK m \in Int : m = P - 1 /\ m > 0
  BY PNat
<1>1. ASSUME NEW k \in Lengths
      PROVE  \E g \in Nat \ {0} : 2 * k = 8 * g /\ \E e \in Nat \ {0} : P - 1 = e * (8 * g)
  <2>1. k \in Nat /\ k >= 4 /\ k % 4 = 0 /\ m % (2 * k) = 0
    BY <1>0, SpectrumAssumption
  <2>2. PICK g \in Nat \ {0} : 2 * k = 8 * g
    <3>1. k = 4 * (k \div 4) + (k % 4) /\ k \div 4 \in Int
      BY ONLY <2>1
    <3>2. PICK d \in Int : d = k \div 4
      BY <3>1
    <3>3. d \in Nat \ {0} /\ 2 * k = 8 * d
      BY ONLY <2>1, <3>1, <3>2
    <3> QED BY <3>3
  <2>3. PICK b \in Nat \ {0} : b = 2 * k
    BY <2>1
  <2>4. PICK e : e = m \div b
    OBVIOUS
  <2>5. e \in Int /\ m = b * e + (m % b)
    BY <1>0, <2>3, <2>4, RemFacts
  <2>6. m = b * e
    BY ONLY <1>0, <2>1, <2>3, <2>5
  <2>7. e \in Nat \ {0} /\ m = e * b
    <3>1. e <= 0 => b * e <= 0
      BY ONLY <2>5, b \in Nat \ {0}
    <3>2. m = e * b
      BY ONLY <2>5, <2>6, b \in Nat \ {0}
    <3>3. ~(e <= 0)
      BY ONLY <1>0, <2>6, <3>1, m \in Int
    <3> QED BY <2>5, <3>2, <3>3
  <2> QED BY <1>0, <2>2, <2>3, <2>7
<1>2. \E g \in Nat \ {0} : n = 8 * g /\ \E e \in Nat \ {0} : P - 1 = e * (8 * g)
  <2>1. CASE \E k \in Lengths : n = 2 * k
    BY <1>1, <2>1
  <2>2. CASE n = 2 * SubBlock
    <3>1. n = 8 * 1
      BY <2>2, SubBlockIs
    <3>2. PICK g \in Nat \ {0}, e \in Nat \ {0} : P - 1 = e * (8 * g)
      BY <1>1
    <3>3. e * (8 * g) = (e * g) * (8 * 1) /\ e * g \in Nat \ {0}
      BY ONLY e \in Nat \ {0}, g \in Nat \ {0}
    <3> QED BY <3>1, <3>2, <3>3
  <2> QED BY <2>1, <2>2 DEF Transforms
<1>3. PICK g \in Nat \ {0} : n = 8 * g /\ \E e \in Nat \ {0} : P - 1 = e * (8 * g)
  BY <1>2
<1>4. n \in Nat \ {0} /\ n \div 2 = 4 * g /\ n \div 4 = 2 * g
  BY ONLY <1>3
<1> QED BY <1>3, <1>4 DEF Divisor

LEMMA UnitsOf ==
  ASSUME NEW l \in Lengths, NEW n \in Transforms
  PROVE  n \in Units /\ ~Eq(n, 0) /\ ~Eq(2, 0) /\ ~Eq(4, 0) /\ 2 \in Units
<1>1. PICK g \in Nat \ {0} : n = 8 * g
  BY TransformIs
<1>2. PICK e \in Nat \ {0} : P - 1 = e * n
  BY TransformIs DEF Divisor
<1>3. n >= 8 /\ n \in Int
  BY <1>1
<1>4. e * n >= n
  BY ONLY <1>3, e \in Nat \ {0}
<1>5. n \in Units /\ 2 \in Units /\ 4 \in Units
  BY <1>2, <1>3, <1>4, PNat DEF Units
<1> QED BY <1>3, <1>5, UnitIs

\* What follows from two congruences by linear combination.
LEMMA Combine ==
  ASSUME NEW x \in Int, NEW y \in Int, NEW u \in Int, NEW v \in Int, Eq(x, y), Eq(u, v),
         NEW a \in Int, NEW b \in Int, NEW s \in Int, NEW t \in Int,
         s - t = a * (x - y) + b * (u - v)
  PROVE  Eq(s, t)
<1>1. PICK d, e : d = x - y /\ e = u - v
  OBVIOUS
<1>2. d \in Int /\ e \in Int /\ Vanishes(d) /\ Vanishes(e)
  BY <1>1, EqVanishes
<1>3. PICK f, g : f = a * d /\ g = b * e
  OBVIOUS
<1>4. f \in Int /\ g \in Int /\ Vanishes(f) /\ Vanishes(g)
  <2>1. f \in Int /\ g \in Int
    BY ONLY <1>2, <1>3, a \in Int, b \in Int
  <2> QED BY <1>2, <1>3, <2>1, VanishTimes
<1>5. Vanishes(f + g) /\ s - t = f + g
  BY <1>1, <1>3, <1>4, VanishSum
<1> QED BY <1>5, EqVanishes

\* The same, when one or both factors are one.
LEMMA CombineOne ==
  ASSUME NEW x \in Int, NEW y \in Int, NEW u \in Int, NEW v \in Int, Eq(x, y), Eq(u, v),
         NEW b \in Int, NEW s \in Int, NEW t \in Int, s - t = (x - y) + b * (u - v)
  PROVE  Eq(s, t)
<1>1. PICK a : a = 1
  OBVIOUS
<1>2. s - t = a * (x - y) + b * (u - v) /\ a \in Int
  BY <1>1
<1> QED BY ONLY <1>2, Eq(x, y), Eq(u, v), x \in Int, y \in Int, u \in Int, v \in Int, b \in Int,
                s \in Int, t \in Int, Combine

LEMMA CombineSum ==
  ASSUME NEW x \in Int, NEW y \in Int, NEW u \in Int, NEW v \in Int, Eq(x, y), Eq(u, v),
         NEW s \in Int, NEW t \in Int, s - t = (x - y) + (u - v)
  PROVE  Eq(s, t)
<1>1. PICK a : a = 1
  OBVIOUS
<1>2. s - t = (x - y) + a * (u - v) /\ a \in Int
  BY <1>1
<1> QED BY ONLY <1>2, Eq(x, y), Eq(u, v), x \in Int, y \in Int, u \in Int, v \in Int,
                s \in Int, t \in Int, CombineOne

LEMMA CombineSame ==
  ASSUME NEW x \in Int, NEW y \in Int, Eq(x, y), NEW s \in Int, NEW t \in Int, s - t = x - y
  PROVE  Eq(s, t)
<1>1. Eq(x, x)
  BY DEF Eq
<1>2. s - t = (x - y) + (x - x)
  OBVIOUS
<1> QED BY <1>1, <1>2, CombineSum

LEMMA Half1 ==
  ASSUME NEW l \in Lengths, NEW n \in Transforms
  PROVE  Eq(W(n, n \div 2), -1) /\ Eq(W(n, n \div 4) * W(n, n \div 4), -1)
<1>1. PICK g \in Nat \ {0} : n = 8 * g /\ n \div 2 = 4 * g /\ n \div 4 = 2 * g
  BY TransformIs
<1>2. n \in Nat \ {0} /\ Divisor(n)
  BY TransformIs
<1>3. PICK h, q : h = n \div 2 /\ q = n \div 4
  OBVIOUS
<1>4. h \in Int /\ q \in Int /\ h + h = n /\ q + q = h /\ h \in 0 .. n - 1 /\ h # 0
  BY <1>1, <1>3
<1>5. PICK a, i : a = W(n, h) /\ i = W(n, q)
  OBVIOUS
<1>6. a \in Int /\ i \in Int /\ a \in Units /\ W(n, 0) = 1 /\ h % n = h
  <2>1. 0 \in Int
    OBVIOUS
  <2> QED BY <1>2, <1>4, <1>5, <2>1, RootIs, RemSmall
<1>7. W(n, n) = W(n, 0)
  <2>1. (0 + 1 * n) % n = 0 % n /\ 0 + 1 * n = n /\ n \in Int /\ 0 \in Int
    <3>1. 0 \in Int /\ 1 \in Int /\ 0 + 1 * n = n
      BY <1>2
    <3> QED BY <1>2, <3>1, RemRounds
  <2> QED BY <1>2, <2>1, RootsRound
<1>8. Eq(1, a * a)
  <2>1. Eq(W(n, h + h), W(n, h) * W(n, h))
    BY <1>2, <1>4, RootsAdd
  <2> QED BY <1>4, <1>5, <1>6, <1>7, <2>1
<1>9. ~Eq(a - 1, 0)
  <2>1. SUFFICES ASSUME Eq(a - 1, 0) PROVE FALSE
    OBVIOUS
  <2>2. Eq(a, 1)
    <3>1. 0 \in Int /\ a - 1 \in Int /\ 1 \in Int /\ a - 1 = 1 * ((a - 1) - 0) + 0 * (1 - 1) /\ Eq(1, 1)
      BY <1>6, EqBasics
    <3> QED BY <1>6, <2>1, <3>1, Combine
  <2>3. a \in 0 .. P - 1 /\ 1 \in 0 .. P - 1
    BY <1>6, PNat DEF Units
  <2>4. a = 1
    BY <2>2, <2>3, EqSame
  <2>5. h % n = 0
    BY <1>2, <1>4, <1>5, <2>4, RootIs
  <2> QED BY <1>4, <1>6, <2>5
<1>10. Eq((a - 1) * (a + 1), 0)
  <2>1. PICK x, y : x = a * a /\ y = (a - 1) * (a + 1)
    OBVIOUS
  <2>2. x \in Int /\ y \in Int /\ y - 0 = (-1) * (1 - x) + 0 * (1 - 1)
    BY ONLY <1>6, <2>1
  <2>3. Eq(1, x) /\ Eq(1, 1) /\ 1 \in Int /\ 0 \in Int /\ -1 \in Int
    BY <1>8, <2>1, EqBasics
  <2>4. Eq(y, 0)
    BY <2>2, <2>3, Combine
  <2> QED BY <2>1, <2>4
<1>11. Eq(a, -1)
  <2>1. a - 1 \in Int /\ a + 1 \in Int
    BY <1>6
  <2>2. Eq(a + 1, 0)
    BY <1>9, <1>10, <2>1, NoDivisors
  <2>3. 0 \in Int /\ -1 \in Int /\ 1 \in Int /\ a - (-1) = 1 * ((a + 1) - 0) + 0 * (1 - 1) /\ Eq(1, 1)
    BY <1>6, EqBasics
  <2> QED BY <1>6, <2>1, <2>2, <2>3, Combine
<1>12. Eq(i * i, -1)
  <2>1. Eq(W(n, q + q), W(n, q) * W(n, q))
    BY <1>2, <1>4, RootsAdd
  <2>2. Eq(a, i * i)
    BY <1>4, <1>5, <2>1
  <2> QED BY <1>11, <2>2, EqBasics
<1> QED BY <1>3, <1>5, <1>11, <1>12

\* The tables, for any argument.
CC(n, k) == CosTable[n][k % n]
SS(n, k) == SinTable[n][k % n]

LEMMA TrigIs ==
  ASSUME NEW l \in Lengths, NEW n \in Transforms, NEW k \in Int
  PROVE  /\ CC(n, k) \in Int /\ SS(n, k) \in Int /\ CC(n, k) \in 0 .. P - 1 /\ SS(n, k) \in 0 .. P - 1
         /\ Eq(2 * CC(n, k), W(n, k) + W(n, -k))
         /\ Eq(2 * W(n, n \div 4) * SS(n, k), W(n, k) - W(n, -k))
<1>1. PICK g \in Nat \ {0} : n = 8 * g /\ n \div 4 = 2 * g
  BY TransformIs
<1>2. n \in Nat \ {0} /\ Divisor(n)
  BY TransformIs
<1>3. PICK r : r = k % n
  OBVIOUS
<1>4. r \in 0 .. n - 1 /\ r % n = r /\ r \in Int /\ n - r \in 0 .. n /\ r \in 0 .. n /\ n - r \in Int
      /\ n \div 4 \in 0 .. n /\ n \div 4 \in Int
  <2>1. r \in 0 .. n - 1
    BY <1>2, <1>3, RemFacts
  <2> QED BY <1>1, <1>2, <2>1, RemSmall
<1>5. CC(n, k) = Cos(n, r) /\ SS(n, k) = Sin(n, r)
  <2>1. CosTable[n] = [j \in 0 .. n - 1 |-> Cos(n, j)] /\ SinTable[n] = [j \in 0 .. n - 1 |-> Sin(n, j)]
    BY DEF CosTable, SinTable
  <2> QED BY <1>3, <1>4, <2>1 DEF CC, SS
<1>6. Root(n, r) = W(n, r) /\ Root(n, n - r) = W(n, n - r) /\ Root(n, n \div 4) = W(n, n \div 4)
  BY <1>2, <1>4, RootIsRoot
<1>7. W(n, r) = W(n, k) /\ W(n, n - r) = W(n, -k)
  <2>1. r % n = k % n
    BY <1>3, <1>4
  <2>2. PICK q \in Int : k = n * q + r
    BY <1>2, <1>3, RemFacts
  <2>3. n - r = (-k) + (q + 1) * n /\ q + 1 \in Int /\ -k \in Int
    BY ONLY <2>2, <1>2, <1>4
  <2>4. (n - r) % n = (-k) % n
    <3>1. PICK d, e \in Int : d = -k /\ e = q + 1
      BY <2>3
    <3>2. (d + e * n) % n = d % n
      BY ONLY <1>2, RemRounds, d \in Int, e \in Int
    <3> QED BY <2>3, <3>1, <3>2
  <2> QED BY <1>2, <1>4, <2>1, <2>3, <2>4, RootsRound
<1>8. PICK a, b, i, v, w : a = W(n, k) /\ b = W(n, -k) /\ i = W(n, n \div 4) /\ v = Inverse(2) /\ w = Inverse(2 * i)
  OBVIOUS
<1>9. a \in Int /\ b \in Int /\ i \in Int /\ 2 * i \in Int /\ i \in Units
  <2>1. -k \in Int
    OBVIOUS
  <2> QED BY <1>2, <1>4, <1>8, <2>1, RootIs
<1>10. ~Eq(2, 0) /\ ~Eq(2 * i, 0)
  <2>1. ~Eq(2, 0) /\ ~Eq(i, 0)
    BY <1>9, UnitsOf, UnitIs
  <2> QED BY <1>9, <2>1, NoDivisors
<1>11. v \in Int /\ w \in Int /\ Eq(2 * v, 1) /\ Eq((2 * i) * w, 1)
  BY <1>8, <1>9, <1>10, InverseIs
<1>12. CC(n, k) = ((a + b) * v) % P /\ SS(n, k) = ((a - b) * w) % P
  BY <1>4, <1>5, <1>6, <1>7, <1>8 DEF Cos, Sin
<1>13. PICK x, y, c, s : x = (a + b) * v /\ y = (a - b) * w /\ c = CC(n, k) /\ s = SS(n, k)
  OBVIOUS
<1>14. x \in Int /\ y \in Int
  BY ONLY <1>9, <1>11, <1>13
<1>15. Eq(c, x) /\ Eq(s, y) /\ c \in Int /\ s \in Int /\ c \in 0 .. P - 1 /\ s \in 0 .. P - 1
  BY <1>12, <1>13, <1>14, EqRemainder
<1>16. Eq(2 * c, a + b)
  <2>1. PICK p, t, z : p = 2 * v /\ t = 2 * c /\ z = a + b
    OBVIOUS
  <2>2. 1 \in Int /\ 2 \in Int /\ p \in Int /\ t \in Int /\ z \in Int /\ t - z = 2 * (c - x) + z * (p - 1)
    BY ONLY <1>9, <1>11, <1>13, <1>15, <2>1
  <2>3. Eq(p, 1)
    BY <1>11, <2>1
  <2>4. Eq(t, z)
    BY ONLY <1>9, <1>11, <1>14, <1>15, <2>2, <2>3, Combine
  <2> QED BY <2>1, <2>4
<1>17. Eq((2 * i) * s, a - b)
  <2>1. PICK p, t, z, d : p = (2 * i) * w /\ t = (2 * i) * s /\ z = a - b /\ d = 2 * i
    OBVIOUS
  <2>2. 1 \in Int /\ d \in Int /\ p \in Int /\ t \in Int /\ z \in Int /\ t - z = d * (s - y) + z * (p - 1)
    BY ONLY <1>9, <1>11, <1>13, <1>15, <2>1
  <2>3. Eq(p, 1)
    BY <1>11, <2>1
  <2>4. Eq(t, z)
    BY ONLY <1>9, <1>11, <1>14, <1>15, <2>2, <2>3, Combine
  <2> QED BY <2>1, <2>4
<1> QED BY <1>8, <1>13, <1>15, <1>16, <1>17

LEMMA TrigAdds ==
  ASSUME NEW l \in Lengths, NEW n \in Transforms, NEW j \in Int, NEW k \in Int
  PROVE  /\ Eq(CC(n, j + k), CC(n, j) * CC(n, k) - SS(n, j) * SS(n, k))
         /\ Eq(SS(n, j + k), SS(n, j) * CC(n, k) + CC(n, j) * SS(n, k))
<1>0. n \in Nat \ {0} /\ Divisor(n)
  BY TransformIs
<1>1. PICK a, aa, b, bb, c, cc, i : /\ a = W(n, j) /\ aa = W(n, -j) /\ b = W(n, k) /\ bb = W(n, -k)
                                    /\ c = W(n, j + k) /\ cc = W(n, -(j + k)) /\ i = W(n, n \div 4)
  OBVIOUS
<1>2. PICK x, s, y, t, z, r : /\ x = CC(n, j) /\ s = SS(n, j) /\ y = CC(n, k) /\ t = SS(n, k)
                              /\ z = CC(n, j + k) /\ r = SS(n, j + k)
  OBVIOUS
<1>3. -j \in Int /\ -k \in Int /\ j + k \in Int /\ -(j + k) \in Int /\ -(j + k) = (-j) + (-k) /\ n \div 4 \in Int
  BY <1>0
<1>4. a \in Int /\ aa \in Int /\ b \in Int /\ bb \in Int /\ c \in Int /\ cc \in Int /\ i \in Int /\ i \in Units
  BY <1>0, <1>1, <1>3, RootIs
<1>5. x \in Int /\ s \in Int /\ y \in Int /\ t \in Int /\ z \in Int /\ r \in Int
  BY <1>2, <1>3, TrigIs
<1>6. Eq(c, a * b) /\ Eq(cc, aa * bb) /\ Eq(i * i, -1)
  BY <1>0, <1>1, <1>3, RootsAdd, Half1
<1>7. PICK id, is, it, ir : id = 2 * i /\ is = id * s /\ it = id * t /\ ir = id * r
  OBVIOUS
<1>8. /\ Eq(2 * x, a + aa) /\ Eq(2 * y, b + bb) /\ Eq(2 * z, c + cc)
      /\ Eq(is, a - aa) /\ Eq(it, b - bb) /\ Eq(ir, c - cc)
  BY <1>1, <1>2, <1>3, <1>7, TrigIs
<1>9. PICK x2, y2, z2, ap, am, bp, bm, cp, cm, p, q :
        /\ x2 = 2 * x /\ y2 = 2 * y /\ z2 = 2 * z /\ ap = a + aa /\ am = a - aa /\ bp = b + bb /\ bm = b - bb
        /\ cp = c + cc /\ cm = c - cc /\ p = a * b /\ q = aa * bb
  OBVIOUS
<1>10. /\ id \in Int /\ is \in Int /\ it \in Int /\ ir \in Int
       /\ x2 \in Int /\ y2 \in Int /\ z2 \in Int /\ ap \in Int /\ am \in Int /\ bp \in Int /\ bm \in Int
       /\ cp \in Int /\ cm \in Int /\ p \in Int /\ q \in Int
  BY ONLY <1>4, <1>5, <1>7, <1>9
<1>11. /\ Eq(x2, ap) /\ Eq(y2, bp) /\ Eq(z2, cp) /\ Eq(is, am) /\ Eq(it, bm) /\ Eq(ir, cm)
       /\ Eq(c, p) /\ Eq(cc, q)
  BY <1>6, <1>8, <1>9
<1>12. PICK dp, dm : dp = p + q /\ dm = p - q
  OBVIOUS
<1>13. Eq(z2, dp) /\ Eq(ir, dm) /\ dp \in Int /\ dm \in Int
  <2>1. dp \in Int /\ dm \in Int /\ cp = c + cc /\ cm = c - cc
    BY <1>9, <1>10, <1>12
  <2>2. Eq(cp, dp) /\ Eq(cm, dm)
    BY <1>4, <1>10, <1>11, <1>12, <2>1, EqPlus
  <2> QED BY <1>11, <2>1, <2>2, EqBasics
<1>14. PICK e1, e2, e3, e4, f1, f2, f3, f4 :
         /\ e1 = x2 * y2 /\ e2 = is * it /\ e3 = is * y2 /\ e4 = x2 * it
         /\ f1 = ap * bp /\ f2 = am * bm /\ f3 = am * bp /\ f4 = ap * bm
  OBVIOUS
<1>15. /\ Eq(e1, f1) /\ Eq(e2, f2) /\ Eq(e3, f3) /\ Eq(e4, f4)
       /\ e1 \in Int /\ e2 \in Int /\ e3 \in Int /\ e4 \in Int
       /\ f1 \in Int /\ f2 \in Int /\ f3 \in Int /\ f4 \in Int
  <2>1. /\ e1 \in Int /\ e2 \in Int /\ e3 \in Int /\ e4 \in Int
        /\ f1 \in Int /\ f2 \in Int /\ f3 \in Int /\ f4 \in Int
    BY ONLY <1>10, <1>14
  <2>2. Eq(x2 * y2, ap * bp) /\ Eq(is * it, am * bm)
    BY <1>10, <1>11, EqTimes
  <2>3. Eq(is * y2, am * bp) /\ Eq(x2 * it, ap * bm)
    BY <1>10, <1>11, EqTimes
  <2> QED BY <1>14, <2>1, <2>2, <2>3
<1>16. f1 + f2 = 2 * dp /\ f3 + f4 = 2 * dm
  BY ONLY <1>4, <1>9, <1>12, <1>14
<1>17. PICK g1, g2, h1, h2, v, st : g1 = x * y - s * t /\ g2 = s * y + x * t /\ h1 = 4 * g1 /\ v = i * i /\ st = 4 * (s * t)
                               /\ h2 = id * g2
  OBVIOUS
<1>18. g1 \in Int /\ g2 \in Int /\ h1 \in Int /\ h2 \in Int /\ v \in Int /\ st \in Int
  BY ONLY <1>5, <1>10, <1>17, <1>4
<1>19. Eq(e2, -st)
  <2>1. e2 = st * v
    BY ONLY <1>4, <1>5, <1>7, <1>14, <1>17
  <2>2. Eq(v, -1) /\ -1 \in Int
    BY <1>6, <1>17
  <2>3. Eq(st * v, st * (-1))
    BY ONLY <1>18, <2>2, EqScaled
  <2>4. st * (-1) = -st
    BY ONLY <1>18
  <2> QED BY ONLY <2>1, <2>3, <2>4
<1>20. Eq(g1, z)
  <2>1. PICK w : w = 4 * z
    OBVIOUS
  <2>2. w \in Int /\ f1 + f2 \in Int /\ e1 + e2 \in Int /\ 1 \in Int /\ -2 \in Int
    BY ONLY <1>5, <1>15, <2>1
  <2>3. Eq(e1 + e2, f1 + f2)
    BY <1>15, EqPlus
  <2>4. Eq(h1, e1 + e2)
    <3>1. h1 = e1 - st
      BY ONLY <1>5, <1>9, <1>14, <1>17
    <3>2. PICK m : m = -st /\ m \in Int /\ e1 + m = h1
      BY ONLY <1>15, <1>18, <3>1
    <3>3. Eq(m, e2)
      BY <1>19, <3>2, EqBasics
    <3>4. Eq(e1 + m, e1 + e2)
      BY ONLY <1>15, <3>2, <3>3, EqMoved
    <3> QED BY <3>2, <3>4
  <2>5. Eq(w, f1 + f2)
    <3>1. w = 2 * z2
      BY ONLY <1>5, <1>9, <2>1
    <3>2. Eq(2 * z2, 2 * dp)
      BY <1>10, <1>13, 2 \in Int, EqScaled
    <3> QED BY <1>16, <3>1, <3>2
  <2>6. Eq(h1, w)
    BY <2>3, <2>4, <2>5, EqBasics
  <2> QED BY <1>5, <1>17, <1>18, <2>1, <2>6, UnitsOf, Cancel
<1>21. Eq(g2, r)
  <2>1. PICK w, u : w = 2 * ir /\ u = 2 * h2
    OBVIOUS
  <2>2. w \in Int /\ u \in Int /\ 2 \in Int
    BY ONLY <1>10, <1>18, <2>1
  <2>3. Eq(e3 + e4, f3 + f4)
    BY <1>15, EqPlus
  <2>4. u = e3 + e4
    BY ONLY <1>5, <1>7, <1>9, <1>10, <1>14, <1>17, <2>1
  <2>5. Eq(w, f3 + f4)
    <3>1. Eq(2 * ir, 2 * dm)
      BY <1>10, <1>13, 2 \in Int, EqScaled
    <3> QED BY <1>16, <2>1, <3>1
  <2>6. Eq(u, w)
    BY <2>3, <2>4, <2>5, EqBasics
  <2>7. Eq(h2, ir)
    BY <1>10, <1>18, <2>1, <2>2, <2>6, UnitsOf, Cancel
  <2>8. ~Eq(id, 0)
    <3>1. ~Eq(2, 0) /\ ~Eq(i, 0)
      BY <1>4, UnitsOf, UnitIs
    <3> QED BY <1>4, <1>7, <3>1, <2>2, NoDivisors
  <2> QED BY <1>5, <1>7, <1>10, <1>17, <1>18, <2>7, <2>8, Cancel
<1> QED BY <1>2, <1>17, <1>20, <1>21, EqBasics

-----------------------------------------------------------------------------
(* Sums.                                                                   *)

\* The first n values of f are integers.
Ints(f, n) == \A i \in 0 .. n - 1 : f[i] \in Int

LEMMA SumSeries ==
  ASSUME NEW n \in Nat, NEW f, Ints(f, n)
  PROVE  \E s \in [0 .. n -> 0 .. P - 1] :
           s[0] = 0 /\ (\A k \in 1 .. n : s[k] = (s[k - 1] + f[k - 1]) % P) /\ Sum(f, n) = s[n]
<1>1. 0 \in 0 .. P - 1
  BY PNat
<1> DEFINE g == [p \in (1 .. n) \X (0 .. P - 1) |-> (p[2] + f[p[1] - 1]) % P]
<1>2. \A k \in 1 .. n, v \in 0 .. P - 1 : (v + f[k - 1]) % P \in 0 .. P - 1
  <2> TAKE k \in 1 .. n, v \in 0 .. P - 1
  <2>1. k - 1 \in 0 .. n - 1
    OBVIOUS
  <2>2. f[k - 1] \in Int
    BY <2>1 DEF Ints
  <2>3. v + f[k - 1] \in Int
    BY <2>2
  <2> QED BY <2>3, EqRemainder
<1>3. g \in [(1 .. n) \X (0 .. P - 1) -> 0 .. P - 1]
  BY <1>2
<1>4. \A k \in 1 .. n, v \in 0 .. P - 1 : g[<<k, v>>] = (v + f[k - 1]) % P
  OBVIOUS
<1> HIDE DEF g
<1>5. PICK t : Unfolds(t, n, 0 .. P - 1, 0, g)
  BY <1>1, <1>3, Recursion
<1>6. t \in [0 .. n -> 0 .. P - 1] /\ t[0] = 0
  BY <1>5 DEF Unfolds
<1>7. \A k \in 1 .. n : t[k] = (t[k - 1] + f[k - 1]) % P
  <2> TAKE k \in 1 .. n
  <2>1. k - 1 \in 0 .. n /\ t[k] = g[<<k, t[k - 1]>>]
    BY <1>5 DEF Unfolds
  <2>2. t[k - 1] \in 0 .. P - 1
    BY <1>6, <2>1
  <2> QED BY <1>4, <2>1, <2>2
<1> DEFINE E(h) == h = [k \in 0 .. n |-> IF k = 0 THEN 0 ELSE (h[k - 1] + f[k - 1]) % P]
<1>8. E(t)
  BY <1>6, <1>7
<1> DEFINE s == CHOOSE h : E(h)
<1>9. E(s)
  BY <1>8
<1>10. Sum(f, n) = s[n]
  BY DEF Sum
<1> HIDE DEF s
<1>11. s = [k \in 0 .. n |-> IF k = 0 THEN 0 ELSE (s[k - 1] + f[k - 1]) % P]
  BY <1>9
<1>12. \A k \in 1 .. n : s[k] = (s[k - 1] + f[k - 1]) % P
  BY <1>11
<1>13. s[0] = 0
  <2>1. 0 \in 0 .. n
    OBVIOUS
  <2> QED BY <1>11, <2>1
<1> DEFINE S == {k \in Nat : k <= n => s[k] = t[k]}
<1>14. Nat \subseteq S
  <2>1. 0 \in S
    BY <1>6, <1>13
  <2>2. ASSUME NEW k \in Nat, k \in S PROVE k + 1 \in S
    <3>1. SUFFICES ASSUME k + 1 <= n PROVE s[k + 1] = t[k + 1]
      OBVIOUS
    <3>2. k + 1 \in 1 .. n /\ (k + 1) - 1 = k /\ s[k] = t[k]
      BY <2>2, <3>1
    <3> QED BY <1>7, <1>12, <3>2
  <2> HIDE DEF S
  <2> QED BY <2>1, <2>2, Induction
<1>15. \A k \in 0 .. n : s[k] = t[k]
  BY <1>14
<1>16. s[n] = t[n]
  BY <1>15
<1> QED BY <1>6, <1>7, <1>10, <1>16

\* The numbers of the field.
Field == 0 .. P - 1

LEMMA SumIs ==
  ASSUME NEW n \in Nat, NEW f, Ints(f, n)
  PROVE  Sum(f, n) \in Field /\ Sum(f, n) \in Int
<1>1. PICK s \in [0 .. n -> 0 .. P - 1] : Sum(f, n) = s[n]
  BY SumSeries
<1>2. Sum(f, n) \in 0 .. P - 1
  BY <1>1
<1> QED BY <1>2, PNat DEF Field

\* What grows by f is the sum of f.
LEMMA SumUnique ==
  ASSUME NEW n \in Nat, NEW f, Ints(f, n), NEW t, Ints(t, n + 1), Eq(t[0], 0),
         \A k \in 0 .. n - 1 : Eq(t[k + 1], t[k] + f[k])
  PROVE  Eq(Sum(f, n), t[n])
<1>1. PICK s \in [0 .. n -> 0 .. P - 1] :
        s[0] = 0 /\ (\A k \in 1 .. n : s[k] = (s[k - 1] + f[k - 1]) % P) /\ Sum(f, n) = s[n]
  BY SumSeries
<1> DEFINE S == {k \in Nat : k <= n => Eq(s[k], t[k])}
<1>2. Nat \subseteq S
  <2>1. 0 \in S
    BY <1>1 DEF Eq
  <2>2. ASSUME NEW k \in Nat, k \in S PROVE k + 1 \in S
    <3>1. SUFFICES ASSUME k + 1 <= n PROVE Eq(s[k + 1], t[k + 1])
      OBVIOUS
    <3>2. k + 1 \in 1 .. n /\ (k + 1) - 1 = k /\ k \in 0 .. n - 1 /\ k \in 0 .. n /\ k \in 0 .. (n + 1) - 1
      BY <3>1
    <3>3. PICK a, b, d : a = s[k] /\ b = f[k] /\ d = t[k]
      OBVIOUS
    <3>4. a \in Int /\ b \in Int /\ d \in Int
      BY <1>1, <3>2, <3>3, PNat DEF Ints
    <3>5. Eq(a, d)
      BY <2>2, <3>1, <3>3
    <3>6. Eq(a + b, d + b)
      BY ONLY <3>4, <3>5, EqMoved
    <3>7. s[k + 1] = (a + b) % P
      BY <1>1, <3>2, <3>3
    <3>8. Eq(s[k + 1], a + b)
      BY <3>4, <3>7, EqRemainder
    <3>9. Eq(t[k + 1], d + b)
      BY <3>2, <3>3
    <3> QED BY <3>6, <3>8, <3>9, EqBasics
  <2> HIDE DEF S
  <2> QED BY <2>1, <2>2, Induction
<1> QED BY <1>1, <1>2

LEMMA SumGrows ==
  ASSUME NEW n \in Nat, NEW f, Ints(f, n + 1)
  PROVE  /\ Ints(f, n) /\ f[n] \in Int
         /\ Eq(Sum(f, n + 1), Sum(f, n) + f[n])
         /\ Sum(f, 0) = 0
<1>1. PICK s \in [0 .. n + 1 -> 0 .. P - 1] :
        s[0] = 0 /\ (\A k \in 1 .. n + 1 : s[k] = (s[k - 1] + f[k - 1]) % P) /\ Sum(f, n + 1) = s[n + 1]
  BY SumSeries
<1>2. Ints(f, n) /\ f[n] \in Int
  BY DEF Ints
<1>3. Eq(Sum(f, n), s[n])
  <2>1. Ints(s, n + 1)
    BY <1>1, PNat DEF Ints
  <2>2. ASSUME NEW k \in 0 .. n - 1 PROVE Eq(s[k + 1], s[k] + f[k])
    <3>1. k + 1 \in 1 .. n + 1 /\ (k + 1) - 1 = k
      OBVIOUS
    <3>2. s[k + 1] = (s[k] + f[k]) % P
      BY <1>1, <3>1
    <3>3. s[k] \in Int /\ f[k] \in Int
      BY <1>2, <2>1 DEF Ints
    <3>4. s[k] + f[k] \in Int
      BY <3>3
    <3> QED BY <3>2, <3>4, EqRemainder
  <2>3. Eq(s[0], 0)
    BY <1>1 DEF Eq
  <2> QED BY <1>2, <2>1, <2>2, <2>3, SumUnique
<1>4. s[n + 1] = (s[n] + f[n]) % P
  <2>1. n + 1 \in 1 .. n + 1 /\ (n + 1) - 1 = n
    OBVIOUS
  <2> QED BY <1>1, <2>1
<1>5. PICK a, b, c : a = s[n] /\ b = f[n] /\ c = Sum(f, n)
  OBVIOUS
<1>6. a \in Int /\ b \in Int /\ c \in Int
  BY <1>1, <1>2, <1>5, SumIs, PNat
<1>7. Eq(s[n + 1], a + b)
  BY <1>4, <1>5, <1>6, EqRemainder
<1>8. Eq(a + b, c + b)
  <2>1. Eq(a, c)
    BY <1>3, <1>5, EqBasics
  <2> QED BY ONLY <1>6, <2>1, EqMoved
<1>9. Sum(f, 0) = 0
  <2>1. Ints(f, 0)
    BY DEF Ints
  <2>2. 0 \in Nat
    OBVIOUS
  <2> QED BY ONLY <2>1, <2>2, SumSeries
<1> QED BY <1>1, <1>2, <1>5, <1>7, <1>8, <1>9, EqBasics

LEMMA SumNone ==
  ASSUME NEW f
  PROVE  Sum(f, 0) = 0 /\ Ints(f, 0)
<1> DEFINE z == [i \in 0 .. 0 |-> 0]
<1>1. Ints(f, 0) /\ Ints(z, 0 + 1)
  BY DEF Ints
<1>2. Eq(z[0], 0)
  BY DEF Eq
<1>3. \A k \in 0 .. 0 - 1 : Eq(z[k + 1], z[k] + f[k])
  OBVIOUS
<1> HIDE DEF z
<1>4. Eq(Sum(f, 0), z[0])
  BY <1>1, <1>2, <1>3, SumUnique
<1>5. Eq(Sum(f, 0), 0)
  BY <1>2, <1>4, EqBasics
<1>6. 0 \in 0 .. P - 1 /\ Sum(f, 0) \in 0 .. P - 1
  BY <1>1, PNat, SumIs DEF Field
<1> QED BY <1>1, <1>5, <1>6, EqSame

LEMMA SumEq ==
  ASSUME NEW n \in Nat, NEW f, NEW g, Ints(f, n), Ints(g, n), \A i \in 0 .. n - 1 : Eq(f[i], g[i])
  PROVE  Eq(Sum(f, n), Sum(g, n)) /\ Sum(f, n) = Sum(g, n)
<1> DEFINE t == [k \in 0 .. n |-> Sum(g, k)]
<1>1. ASSUME NEW k \in 0 .. n PROVE Ints(g, k) /\ Sum(g, k) \in Int
  <2>1. k \in Nat /\ Ints(g, k)
    BY DEF Ints
  <2> QED BY <2>1, SumIs
<1>2. Ints(t, n + 1)
  BY <1>1 DEF Ints
<1>3. Eq(t[0], 0)
  <2>1. t[0] = 0
    BY SumNone
  <2> QED BY <2>1, EqBasics
<1>4. ASSUME NEW k \in 0 .. n - 1 PROVE Eq(t[k + 1], t[k] + f[k])
  <2>1. k \in Nat /\ Ints(g, k + 1) /\ k + 1 \in 0 .. n /\ k \in 0 .. n
    BY DEF Ints
  <2>2. Eq(Sum(g, k + 1), Sum(g, k) + g[k])
    BY <2>1, SumGrows
  <2>3. Eq(Sum(g, k) + g[k], Sum(g, k) + f[k])
    <3>1. Sum(g, k) \in Int /\ g[k] \in Int /\ f[k] \in Int
      BY <1>1, <2>1 DEF Ints
    <3>2. Eq(g[k], f[k])
      BY EqBasics
    <3> QED BY ONLY <3>1, <3>2, EqMoved
  <2>4. t[k + 1] = Sum(g, k + 1) /\ t[k] = Sum(g, k)
    BY <2>1
  <2> QED BY <2>2, <2>3, <2>4, EqBasics
<1>5. t[n] = Sum(g, n)
  OBVIOUS
<1> HIDE DEF t
<1>6. Eq(Sum(f, n), Sum(g, n))
  BY <1>2, <1>3, <1>4, <1>5, SumUnique
<1>7. Sum(f, n) = Sum(g, n)
  <2>1. Sum(f, n) \in 0 .. P - 1 /\ Sum(g, n) \in 0 .. P - 1
    BY SumIs DEF Field
  <2> QED BY <1>6, <2>1, EqSame
<1> QED BY <1>6, <1>7

LEMMA SumLinear ==
  ASSUME NEW n \in Nat, NEW f, NEW g, Ints(f, n), Ints(g, n), NEW a \in Int, NEW b \in Int, NEW h, Ints(h, n),
         \A i \in 0 .. n - 1 : Eq(h[i], a * f[i] + b * g[i])
  PROVE  Eq(Sum(h, n), a * Sum(f, n) + b * Sum(g, n))
<1> DEFINE t == [k \in 0 .. n |-> a * Sum(f, k) + b * Sum(g, k)]
<1>1. ASSUME NEW k \in 0 .. n PROVE Sum(f, k) \in Int /\ Sum(g, k) \in Int /\ a * Sum(f, k) + b * Sum(g, k) \in Int
  <2>1. k \in Nat /\ Ints(f, k) /\ Ints(g, k)
    BY DEF Ints
  <2>2. Sum(f, k) \in Int /\ Sum(g, k) \in Int
    BY <2>1, SumIs
  <2>3. a * Sum(f, k) + b * Sum(g, k) \in Int
    BY ONLY <2>2, a \in Int, b \in Int
  <2> QED BY <2>2, <2>3
<1>2. Ints(t, n + 1)
  BY <1>1 DEF Ints
<1>3. Eq(t[0], 0)
  <2>1. Sum(f, 0) = 0 /\ Sum(g, 0) = 0
    BY SumNone
  <2>2. a * 0 + b * 0 = 0
    BY ONLY a \in Int, b \in Int
  <2>3. t[0] = 0
    BY <2>1, <2>2
  <2> QED BY <2>3, EqBasics
<1>4. ASSUME NEW k \in 0 .. n - 1 PROVE Eq(t[k + 1], t[k] + h[k])
  <2>1. k \in Nat /\ Ints(f, k + 1) /\ Ints(g, k + 1) /\ k + 1 \in 0 .. n /\ k \in 0 .. n
    BY DEF Ints
  <2>2. PICK u, v, uu, vv, x, y, z : /\ u = Sum(f, k) /\ v = Sum(g, k) /\ uu = Sum(f, k + 1) /\ vv = Sum(g, k + 1)
                                    /\ x = f[k] /\ y = g[k] /\ z = h[k]
    OBVIOUS
  <2>3. /\ u \in Int /\ v \in Int /\ uu \in Int /\ vv \in Int
    BY <1>1, <2>1, <2>2
  <2>4. x \in Int /\ y \in Int /\ z \in Int
    BY <2>2 DEF Ints
  <2>5. Eq(uu, u + x) /\ Eq(vv, v + y)
    BY <2>1, <2>2, SumGrows
  <2>6. Eq(z, a * x + b * y)
    BY <2>2
  <2>7. PICK p, q, r, s, ux, vy, o : /\ p = a * uu + b * vv /\ q = a * u + b * v /\ r = a * x + b * y
                                  /\ s = q + z /\ ux = u + x /\ vy = v + y /\ o = q + r
    OBVIOUS
  <2>8. /\ p \in Int /\ q \in Int /\ r \in Int /\ s \in Int /\ ux \in Int /\ vy \in Int /\ o \in Int
        /\ p - o = a * (uu - ux) + b * (vv - vy)
    BY ONLY <2>3, <2>4, <2>7, a \in Int, b \in Int
  <2>9. Eq(p, o)
    <3>1. Eq(uu, ux) /\ Eq(vv, vy)
      BY <2>5, <2>7
    <3> QED BY ONLY <2>3, <2>8, <3>1, a \in Int, b \in Int, Combine
  <2>10. Eq(o, s)
    <3>1. Eq(r, z)
      BY <2>6, <2>7, EqBasics
    <3>2. q \in Int
      BY ONLY <2>3, <2>7, a \in Int, b \in Int
    <3>3. Eq(q + r, q + z)
      BY ONLY <2>4, <2>8, <3>1, <3>2, EqMoved
    <3> QED BY <2>7, <3>3
  <2>11. Eq(p, s)
    BY <2>9, <2>10, EqBasics
  <2>12. t[k + 1] = p /\ t[k] = q
    BY <2>1, <2>2, <2>7
  <2> QED BY <2>2, <2>7, <2>11, <2>12
<1>5. t[n] = a * Sum(f, n) + b * Sum(g, n)
  OBVIOUS
<1> HIDE DEF t
<1> QED BY <1>2, <1>3, <1>4, <1>5, SumUnique

LEMMA SumSplit ==
  ASSUME NEW m \in Nat, NEW n \in Nat, NEW f, Ints(f, m + n), NEW g, \A i \in 0 .. n - 1 : g[i] = f[m + i]
  PROVE  Ints(g, n) /\ Ints(f, m) /\ Eq(Sum(f, m + n), Sum(f, m) + Sum(g, n))
<1> DEFINE t == [k \in 0 .. n |-> Sum(f, m + k) - Sum(f, m)]
<1>1. ASSUME NEW k \in 0 .. n PROVE Sum(f, m + k) \in Int /\ Sum(f, m) \in Int
  <2>1. m + k \in Nat /\ Ints(f, m + k) /\ Ints(f, m)
    BY DEF Ints
  <2> QED BY <2>1, SumIs
<1>2. Ints(t, n + 1)
  BY <1>1 DEF Ints
<1>3. Eq(t[0], 0)
  <2>1. t[0] = Sum(f, m + 0) - Sum(f, m) /\ m + 0 = m
    OBVIOUS
  <2>2. 0 \in 0 .. n
    OBVIOUS
  <2>3. Sum(f, m) \in Int
    BY <1>1, <2>2
  <2>4. t[0] = 0
    BY ONLY <2>1, <2>3
  <2> QED BY <2>4, EqBasics
<1>4. Ints(g, n) /\ Ints(f, m)
  BY DEF Ints
<1>5. ASSUME NEW k \in 0 .. n - 1 PROVE Eq(t[k + 1], t[k] + g[k])
  <2>1. m + k \in Nat /\ Ints(f, (m + k) + 1) /\ k + 1 \in 0 .. n /\ k \in 0 .. n /\ m + (k + 1) = (m + k) + 1
    BY DEF Ints
  <2>2. Eq(Sum(f, (m + k) + 1), Sum(f, m + k) + f[m + k])
    BY <2>1, SumGrows
  <2>3. PICK u, uu, x, c : u = Sum(f, m + k) /\ uu = Sum(f, m + (k + 1)) /\ x = g[k] /\ c = Sum(f, m)
    OBVIOUS
  <2>4. u \in Int /\ uu \in Int /\ x \in Int /\ c \in Int
    BY <1>1, <1>4, <2>1, <2>3 DEF Ints
  <2>5. Eq(uu, u + x)
    BY <2>1, <2>2, <2>3
  <2>6. Eq(uu - c, (u + x) - c)
    <3>1. PICK w : w = u + x
      OBVIOUS
    <3>2. w \in Int /\ Eq(uu, w)
      BY <2>4, <2>5, <3>1
    <3>3. Eq(uu - c, w - c)
      BY ONLY <2>4, <3>2, EqMoved
    <3> QED BY <3>1, <3>3
  <2>7. (u + x) - c = (u - c) + x
    BY ONLY <2>4
  <2>8. t[k + 1] = uu - c /\ t[k] = u - c
    BY <2>1, <2>3
  <2> QED BY <2>3, <2>6, <2>7, <2>8
<1>6. t[n] = Sum(f, m + n) - Sum(f, m)
  OBVIOUS
<1> HIDE DEF t
<1>7. Eq(Sum(g, n), t[n])
  BY <1>2, <1>3, <1>4, <1>5, SumUnique
<1>8. PICK x, y, z : x = Sum(f, m + n) /\ y = Sum(f, m) /\ z = Sum(g, n)
  OBVIOUS
<1>9. x \in Int /\ y \in Int /\ z \in Int /\ x - y \in Int /\ y + (x - y) = x
  <2>1. n \in 0 .. n
    OBVIOUS
  <2>2. x \in Int /\ y \in Int /\ z \in Int
    BY <1>1, <1>4, <1>8, <2>1, SumIs
  <2> QED BY ONLY <2>2
<1>10. PICK d : d = x - y
  OBVIOUS
<1>11. Eq(z, d) /\ d \in Int /\ y + d = x
  BY <1>6, <1>7, <1>8, <1>9, <1>10
<1>12. Eq(y + z, y + d)
  BY ONLY <1>9, <1>11, EqMoved
<1> QED BY <1>4, <1>8, <1>11, <1>12, EqBasics

LEMMA SumConstant ==
  ASSUME NEW n \in Nat, NEW f, Ints(f, n), NEW c \in Int, \A i \in 0 .. n - 1 : Eq(f[i], c)
  PROVE  Eq(Sum(f, n), n * c)
<1> DEFINE t == [k \in 0 .. n |-> k * c]
<1>1. \A k \in Int : k * c \in Int /\ (k + 1) * c = k * c + c
  BY ONLY c \in Int
<1>2. Ints(t, n + 1)
  BY <1>1 DEF Ints
<1>3. Eq(t[0], 0)
  <2>1. 0 * c = 0
    BY ONLY c \in Int
  <2> QED BY <2>1, EqBasics
<1>4. ASSUME NEW k \in 0 .. n - 1 PROVE Eq(t[k + 1], t[k] + f[k])
  <2>1. k * c \in Int /\ (k + 1) * c = k * c + c /\ f[k] \in Int
    BY <1>1 DEF Ints
  <2>2. Eq(k * c + c, k * c + f[k])
    <3>1. PICK w, x : w = k * c /\ x = f[k]
      OBVIOUS
    <3>2. w \in Int /\ x \in Int /\ Eq(c, x)
      BY <2>1, <3>1, EqBasics
    <3>3. Eq(w + c, w + x)
      BY ONLY <3>2, c \in Int, EqMoved
    <3> QED BY <3>1, <3>3
  <2>3. t[k + 1] = (k + 1) * c /\ t[k] = k * c
    OBVIOUS
  <2> QED BY <2>1, <2>2, <2>3
<1>5. t[n] = n * c
  OBVIOUS
<1> HIDE DEF t
<1> QED BY <1>2, <1>3, <1>4, <1>5, SumUnique

LEMMA SumSingle ==
  ASSUME NEW n \in Nat, NEW f, Ints(f, n), NEW m \in 0 .. n - 1, \A i \in 0 .. n - 1 : i # m => Eq(f[i], 0)
  PROVE  Eq(Sum(f, n), f[m])
<1>1. PICK c : c = f[m]
  OBVIOUS
<1>2. c \in Int
  BY <1>1 DEF Ints
<1> DEFINE t == [k \in 0 .. n |-> IF k <= m THEN 0 ELSE c]
<1>3. Ints(t, n + 1)
  BY <1>2 DEF Ints
<1>4. Eq(t[0], 0)
  <2>1. t[0] = 0
    OBVIOUS
  <2> QED BY <2>1, EqBasics
<1>5. ASSUME NEW k \in 0 .. n - 1 PROVE Eq(t[k + 1], t[k] + f[k])
  <2>1. k \in 0 .. n /\ k + 1 \in 0 .. n /\ f[k] \in Int
    BY DEF Ints
  <2>2. t[k] = (IF k <= m THEN 0 ELSE c) /\ t[k + 1] = (IF k + 1 <= m THEN 0 ELSE c)
    BY <2>1
  <2>3. CASE k = m
    <3>1. t[k + 1] = t[k] + f[k]
      BY <1>1, <1>2, <2>2, <2>3
    <3> QED BY <3>1, EqBasics
  <2>4. CASE k # m
    <3>1. t[k + 1] = t[k] /\ t[k] \in Int
      BY <1>2, <2>2, <2>4
    <3>2. PICK u, x, o : u = t[k] /\ x = f[k] /\ o = 0
      OBVIOUS
    <3>3. u \in Int /\ x \in Int /\ o \in Int /\ Eq(o, x) /\ u + o = u
      BY <2>1, <2>4, <3>1, <3>2, EqBasics
    <3>4. Eq(u + o, u + x)
      BY ONLY <3>3, EqMoved
    <3> QED BY <3>1, <3>2, <3>3, <3>4
  <2> QED BY <2>3, <2>4
<1>6. t[n] = c
  BY <1>1
<1> HIDE DEF t
<1> QED BY <1>1, <1>3, <1>4, <1>5, <1>6, SumUnique

\* The order of two sums does not matter: of a rectangle of numbers the sum
\* of the rows' sums is that of the columns' sums.
LEMMA SumSwap ==
  ASSUME NEW m \in Nat, NEW n \in Nat, NEW rows, NEW cols, NEW f, NEW g, Ints(f, m), Ints(g, n),
         \A i \in 0 .. m - 1 : Ints(rows[i], n) /\ Eq(f[i], Sum(rows[i], n)),
         \A j \in 0 .. n - 1 : Ints(cols[j], m) /\ Eq(g[j], Sum(cols[j], m)),
         \A i \in 0 .. m - 1, j \in 0 .. n - 1 : Eq(cols[j][i], rows[i][j])
  PROVE  Eq(Sum(f, m), Sum(g, n))
<1> DEFINE c == [k \in 0 .. m |-> [j \in 0 .. n - 1 |-> Sum(cols[j], k)]]
           t == [k \in 0 .. m |-> Sum(c[k], n)]
<1>1. ASSUME NEW k \in 0 .. m PROVE Ints(c[k], n)
  <2>1. SUFFICES ASSUME NEW j \in 0 .. n - 1 PROVE c[k][j] \in Int
    BY DEF Ints
  <2>2. Ints(cols[j], k) /\ k \in Nat
    BY DEF Ints
  <2>3. c[k][j] = Sum(cols[j], k)
    OBVIOUS
  <2> QED BY <2>2, <2>3, SumIs
<1>2. \A k \in 0 .. m : c[k] = [j \in 0 .. n - 1 |-> Sum(cols[j], k)]
  OBVIOUS
<1> HIDE DEF c
<1>3. Ints(t, m + 1)
  <2>1. SUFFICES ASSUME NEW k \in 0 .. m PROVE t[k] \in Int
    BY DEF Ints
  <2>2. Sum(c[k], n) \in Int
    BY <1>1, SumIs
  <2> QED BY <2>2
<1>4. Eq(t[0], 0)
  <2>1. 0 \in 0 .. m
    OBVIOUS
  <2>2. \A j \in 0 .. n - 1 : Eq(c[0][j], 0)
    <3> TAKE j \in 0 .. n - 1
    <3>1. c[0][j] = Sum(cols[j], 0)
      BY <1>2, <2>1
    <3>2. Sum(cols[j], 0) = 0
      BY SumNone
    <3> QED BY <3>1, <3>2, EqBasics
  <2>3. Eq(Sum(c[0], n), n * 0) /\ n * 0 = 0
    <3>1. 0 \in Int /\ n * 0 = 0
      OBVIOUS
    <3>2. Ints(c[0], n)
      BY <1>1, <2>1
    <3> QED BY <2>2, <3>1, <3>2, SumConstant
  <2>4. t[0] = Sum(c[0], n)
    BY <2>1
  <2> QED BY <2>3, <2>4
<1>5. ASSUME NEW k \in 0 .. m - 1 PROVE Eq(t[k + 1], t[k] + f[k])
  <2>1. k \in 0 .. m /\ k + 1 \in 0 .. m /\ k \in Nat
    OBVIOUS
  <2>2. PICK u, v, r : u = c[k] /\ v = c[k + 1] /\ r = rows[k]
    OBVIOUS
  <2>3. Ints(u, n) /\ Ints(v, n) /\ Ints(r, n) /\ Eq(f[k], Sum(r, n))
    BY <1>1, <2>1, <2>2
  <2>4. ASSUME NEW j \in 0 .. n - 1 PROVE Eq(v[j], 1 * u[j] + 1 * r[j])
    <3>1. Ints(cols[j], k + 1)
      <4>1. Ints(cols[j], m)
        OBVIOUS
      <4> QED BY <4>1, <2>1 DEF Ints
    <3>2. Eq(Sum(cols[j], k + 1), Sum(cols[j], k) + cols[j][k])
      BY <2>1, <3>1, SumGrows
    <3>3. v[j] = Sum(cols[j], k + 1) /\ u[j] = Sum(cols[j], k)
      BY <1>2, <2>1, <2>2
    <3>4. PICK a, b, d : a = u[j] /\ b = cols[j][k] /\ d = r[j]
      OBVIOUS
    <3>5. a \in Int /\ b \in Int /\ d \in Int /\ Eq(b, d)
      <4>1. a \in Int /\ d \in Int
        BY <2>3, <3>4 DEF Ints
      <4>2. b \in Int
        BY <3>1, <3>4, <2>1 DEF Ints
      <4>3. Eq(b, d)
        BY <2>2, <3>4
      <4> QED BY <4>1, <4>2, <4>3
    <3>6. Eq(a + b, a + d)
      BY ONLY <3>5, EqMoved
    <3>7. 1 * a + 1 * d = a + d
      BY <3>5
    <3> QED BY <3>2, <3>3, <3>4, <3>6, <3>7, EqBasics
  <2>5. Eq(Sum(v, n), 1 * Sum(u, n) + 1 * Sum(r, n))
    BY <2>3, <2>4, 1 \in Int, SumLinear
  <2>6. PICK a, b, d : a = Sum(u, n) /\ b = Sum(r, n) /\ d = f[k]
    OBVIOUS
  <2>7. a \in Int /\ b \in Int /\ d \in Int /\ Eq(b, d)
    BY <2>3, <2>6, SumIs, EqBasics DEF Ints
  <2>8. Eq(a + b, a + d) /\ 1 * a + 1 * b = a + b
    <3>1. Eq(a + b, a + d)
      BY ONLY <2>7, EqMoved
    <3>2. 1 * a + 1 * b = a + b
      BY ONLY <2>7
    <3> QED BY <3>1, <3>2
  <2>9. t[k + 1] = Sum(v, n) /\ t[k] = a
    BY <2>1, <2>2, <2>6
  <2> QED BY <2>5, <2>6, <2>8, <2>9, EqBasics
<1>6. Eq(t[m], Sum(g, n))
  <2>1. m \in 0 .. m
    OBVIOUS
  <2>2. t[m] = Sum(c[m], n) /\ Ints(c[m], n)
    BY <1>1, <2>1
  <2>3. \A j \in 0 .. n - 1 : Eq(c[m][j], g[j])
    <3> TAKE j \in 0 .. n - 1
    <3>1. c[m][j] = Sum(cols[j], m)
      BY <1>2, <2>1
    <3> QED BY <3>1, EqBasics
  <2> QED BY <2>2, <2>3, SumEq
<1> HIDE DEF t
<1>7. Eq(Sum(f, m), t[m])
  BY <1>3, <1>4, <1>5, SumUnique
<1> QED BY <1>6, <1>7, EqBasics

\* Nor does the place where a round begins.
LEMMA SumRotate ==
  ASSUME NEW n \in Nat \ {0}, NEW b \in 0 .. n - 1, NEW y, Ints(y, n), NEW f,
         \A i \in 0 .. n - 1 : f[i] = y[(i - b) % n]
  PROVE  Ints(f, n) /\ Eq(Sum(f, n), Sum(y, n))
<1>1. PICK a \in Nat : a = n - b
  OBVIOUS
<1> DEFINE lo == [i \in 0 .. a - 1 |-> y[i]]
           hi == [i \in 0 .. b - 1 |-> y[a + i]]
<1>2. \A i \in 0 .. n - 1 : (i - b) % n \in 0 .. n - 1
  <2> TAKE i \in 0 .. n - 1
  <2>1. PICK d \in Int : d = i - b
    OBVIOUS
  <2>2. d % n \in 0 .. n - 1
    BY <2>1, RemFacts
  <2> QED BY <2>1, <2>2
<1>3. Ints(f, n)
  BY <1>2 DEF Ints
<1>4. b + a = n /\ a + b = n /\ b \in Nat
  BY ONLY <1>1, n \in Nat \ {0}, b \in 0 .. n - 1
<1>5. \A i \in 0 .. a - 1 : lo[i] = f[b + i]
  <2> TAKE i \in 0 .. a - 1
  <2>1. (b + i) - b = i /\ b + i \in 0 .. n - 1 /\ i \in 0 .. n - 1
    BY <1>4
  <2>2. f[b + i] = y[i % n]
    BY <2>1
  <2> QED BY <2>1, <2>2, RemSmall
<1>6. ASSUME NEW i \in 0 .. b - 1 PROVE hi[i] = f[i]
  <2>1. i - b = (a + i) + (-1) * n /\ i \in 0 .. n - 1 /\ a + i \in 0 .. n - 1 /\ a + i \in Int /\ -1 \in Int
    BY <1>4
  <2>2. (i - b) % n = (a + i) % n
    <3>1. PICK c : c = a + i
      OBVIOUS
    <3>2. (c + (-1) * n) % n = c % n
      BY <2>1, <3>1, RemRounds
    <3> QED BY <2>1, <3>1, <3>2
  <2>3. (a + i) % n = a + i
    BY <2>1, RemSmall
  <2> QED BY <2>1, <2>2, <2>3
<1>7. hi = [i \in 0 .. b - 1 |-> y[a + i]] /\ lo = [i \in 0 .. a - 1 |-> y[i]]
  OBVIOUS
<1> HIDE DEF lo, hi
<1>8. Ints(lo, a) /\ Ints(f, b) /\ Eq(Sum(f, n), Sum(f, b) + Sum(lo, a))
  <2>1. Ints(f, b + a)
    BY <1>3, <1>4
  <2>2. Ints(lo, a) /\ Ints(f, b) /\ Eq(Sum(f, b + a), Sum(f, b) + Sum(lo, a))
    BY ONLY <1>4, <1>5, <2>1, a \in Nat, SumSplit
  <2> QED BY <1>4, <2>2
<1>9. Ints(hi, b) /\ Ints(y, a) /\ Eq(Sum(y, n), Sum(y, a) + Sum(hi, b))
  <2>1. \A i \in 0 .. b - 1 : hi[i] = y[a + i]
    BY <1>7
  <2>2. Ints(y, a + b)
    BY <1>4
  <2>3. Ints(hi, b) /\ Ints(y, a) /\ Eq(Sum(y, a + b), Sum(y, a) + Sum(hi, b))
    BY ONLY <1>4, <2>1, <2>2, a \in Nat, SumSplit
  <2> QED BY <1>4, <2>3
<1>10. Sum(f, b) = Sum(hi, b)
  BY <1>4, <1>6, <1>8, <1>9, SumEq, EqBasics
<1>11. Sum(lo, a) = Sum(y, a)
  <2>1. \A i \in 0 .. a - 1 : Eq(lo[i], y[i])
    BY <1>7, EqBasics
  <2> QED BY <1>8, <1>9, <2>1, SumEq
<1>12. PICK u, v : u = Sum(hi, b) /\ v = Sum(y, a)
  OBVIOUS
<1>13. u \in Int /\ v \in Int /\ u + v = v + u
  <2>1. u \in Int /\ v \in Int
    BY <1>4, <1>8, <1>9, <1>12, SumIs
  <2> QED BY <2>1
<1> QED BY <1>3, <1>8, <1>9, <1>10, <1>11, <1>12, <1>13, EqBasics

-----------------------------------------------------------------------------
(* The transforms and their inverses.                                      *)

Sgn(d) == IF d % 2 = 0 THEN 1 ELSE -1

LEMMA SgnIs ==
  ASSUME NEW d \in Int
  PROVE  Sgn(d) \in Int /\ Sgn(-d) = Sgn(d)
<1>1. d % 2 = 0 <=> (-d) % 2 = 0
  OBVIOUS
<1> QED BY <1>1 DEF Sgn

LEMMA TrigOpposite ==
  ASSUME NEW l \in Lengths, NEW n \in Transforms, NEW k \in Int
  PROVE  Eq(CC(n, -k), CC(n, k)) /\ Eq(SS(n, -k), -SS(n, k))
<1>0. -k \in Int /\ -(-k) = k
  OBVIOUS
<1>1. PICK a, b, i, x, y, s, t : /\ a = W(n, k) /\ b = W(n, -k) /\ i = 2 * W(n, n \div 4)
                                 /\ x = CC(n, k) /\ y = CC(n, -k) /\ s = SS(n, k) /\ t = SS(n, -k)
  OBVIOUS
<1>2. n \in Nat \ {0} /\ Divisor(n) /\ n \div 4 \in Int
  BY TransformIs
<1>3. a \in Int /\ b \in Int /\ i \in Int /\ ~Eq(i, 0)
  <2>1. PICK j : j = W(n, n \div 4)
    OBVIOUS
  <2>2. j \in Int /\ j \in Units
    BY <1>2, <2>1, RootIs
  <2>3. ~Eq(j, 0) /\ ~Eq(2, 0)
    BY <2>2, UnitIs, UnitsOf
  <2>4. ~Eq(2 * j, 0)
    BY <2>2, <2>3, NoDivisors
  <2>5. a \in Int /\ b \in Int
    BY <1>0, <1>1, <1>2, RootIs
  <2> QED BY <1>1, <2>1, <2>2, <2>4, <2>5
<1>4. x \in Int /\ y \in Int /\ s \in Int /\ t \in Int
  BY <1>0, <1>1, TrigIs
<1>5. Eq(2 * x, a + b) /\ Eq(i * s, a - b)
  BY <1>1, TrigIs
<1>6. Eq(2 * y, b + a) /\ Eq(i * t, b - a)
  BY <1>0, <1>1, TrigIs
<1>7. Eq(y, x)
  <2>1. b + a = a + b
    BY <1>3
  <2>2. Eq(2 * y, 2 * x)
    BY <1>5, <1>6, <2>1, EqBasics
  <2> QED BY <1>4, <2>2, UnitsOf, Cancel
<1>8. Eq(t, -s)
  <2>1. PICK u, v, w, m : u = i * s /\ v = a - b /\ w = i * t /\ m = -s
    OBVIOUS
  <2>2. u \in Int /\ v \in Int /\ w \in Int /\ m \in Int /\ b - a = -v /\ i * m = -u
    BY ONLY <1>3, <1>4, <2>1
  <2>3. Eq(u, v)
    BY <1>5, <2>1
  <2>4. Eq(-u, -v)
    BY <2>2, <2>3, EqLaws
  <2>5. Eq(i * t, i * m)
    BY <1>6, <2>2, <2>4, EqBasics
  <2>6. Eq(t, m)
    BY <1>3, <1>4, <2>2, <2>5, Cancel
  <2> QED BY <2>1, <2>6
<1> QED BY <1>1, <1>7, <1>8

LEMMA TrigRounds ==
  ASSUME NEW n \in Transforms, NEW j, NEW k, j % n = k % n
  PROVE  CC(n, j) = CC(n, k) /\ SS(n, j) = SS(n, k)
BY DEF CC, SS

LEMMA RootAtHalf ==
  ASSUME NEW l \in Lengths, NEW n \in Transforms, NEW d \in Int
  PROVE  Eq(W(n, d * (n \div 2)), Sgn(d))
<1>1. PICK g \in Nat \ {0} : n = 8 * g /\ n \div 2 = 4 * g
  BY TransformIs
<1>2. n \in Nat \ {0} /\ Divisor(n)
  BY TransformIs
<1>3. PICK e \in Int, r \in {0, 1} : d = 2 * e + r /\ r = d % 2
  <2>1. d \div 2 \in Int /\ d % 2 \in {0, 1} /\ d = 2 * (d \div 2) + (d % 2)
    OBVIOUS
  <2> QED BY <2>1
<1>4. PICK h \in Int : h = n \div 2 /\ n = 2 * h
  BY <1>1
<1>5. PICK x, y : x = d * h /\ y = r * h
  OBVIOUS
<1>6. x = y + e * n /\ y \in Int /\ x \in Int
  <2>1. d = 2 * e + r /\ r \in Int
    BY <1>3
  <2>2. x = (2 * e + r) * h /\ e * n = e * (2 * h) /\ y = r * h
    BY <1>4, <1>5, <2>1
  <2>3. (2 * e + r) * h = r * h + e * (2 * h) /\ r * h \in Int /\ (2 * e + r) * h \in Int
    BY ONLY <2>1, e \in Int, h \in Int
  <2> QED BY ONLY <2>2, <2>3
<1>7. x % n = y % n
  BY <1>2, <1>6, RemRounds
<1>8. W(n, x) = W(n, y)
  BY <1>2, <1>6, <1>7, RootsRound
<1>9. CASE r = 0
  <2>1. y = 0 /\ Sgn(d) = 1
    <3>1. y = 0
      BY ONLY <1>5, <1>9, h \in Int
    <3> QED BY <1>3, <1>9, <3>1 DEF Sgn
  <2> QED BY <1>2, <1>4, <1>5, <1>8, <2>1, RootIs, EqBasics
<1>10. CASE r = 1
  <2>1. y = h /\ Sgn(d) = -1
    <3>1. y = h
      BY ONLY <1>5, <1>10, h \in Int
    <3> QED BY <1>3, <1>10, <3>1 DEF Sgn
  <2> QED BY <1>4, <1>5, <1>8, <2>1, Half1
<1> QED BY <1>9, <1>10

LEMMA TrigAtHalf ==
  ASSUME NEW l \in Lengths, NEW n \in Transforms, NEW d \in Int
  PROVE  Eq(CC(n, d * (n \div 2)), Sgn(d)) /\ Eq(SS(n, d * (n \div 2)), 0)
<1>1. n \in Nat \ {0} /\ Divisor(n) /\ n \div 4 \in Int /\ n \div 2 \in Int
  BY TransformIs
<1>2. PICK h : h = n \div 2
  OBVIOUS
<1>3. PICK k : k = d * h
  OBVIOUS
<1>4. k \in Int /\ -k = (-d) * h /\ -d \in Int /\ -k \in Int
  BY ONLY <1>1, <1>2, <1>3, d \in Int
<1>5. PICK a, b, i, x, s, c : /\ a = W(n, k) /\ b = W(n, -k) /\ i = 2 * W(n, n \div 4)
                              /\ x = CC(n, k) /\ s = SS(n, k) /\ c = Sgn(d)
  OBVIOUS
<1>6. Eq(a, c) /\ Eq(b, c) /\ c \in Int /\ a \in Int /\ b \in Int
  <2>1. Eq(W(n, d * h), Sgn(d)) /\ Eq(W(n, (-d) * h), Sgn(-d))
    BY <1>2, <1>4, RootAtHalf
  <2> QED BY <1>1, <1>3, <1>4, <1>5, <2>1, SgnIs, RootIs
<1>7. Eq(2 * x, a + b) /\ Eq(i * s, a - b) /\ x \in Int /\ s \in Int
  BY <1>4, <1>5, TrigIs
<1>8. Eq(a + b, c + c) /\ Eq(a - b, c - c)
  BY <1>6, EqPlus
<1>9. Eq(x, c)
  <2>1. c + c = 2 * c
    BY <1>6
  <2>2. Eq(2 * x, 2 * c)
    BY <1>7, <1>8, <2>1, EqBasics
  <2> QED BY <1>6, <1>7, <2>2, UnitsOf, Cancel
<1>10. Eq(s, 0)
  <2>1. PICK j : j = W(n, n \div 4)
    OBVIOUS
  <2>2. j \in Int /\ j \in Units
    BY <1>1, <2>1, RootIs
  <2>3. ~Eq(j, 0) /\ ~Eq(2, 0)
    BY <2>2, UnitIs, UnitsOf
  <2>4. ~Eq(i, 0) /\ i \in Int
    BY <1>5, <2>1, <2>2, <2>3, NoDivisors
  <2>5. c - c = 0
    BY <1>6
  <2>6. Eq(i * s, 0)
    BY <1>7, <1>8, <2>5, EqBasics
  <2> QED BY <1>7, <2>4, <2>6, NoDivisors
<1> QED BY <1>2, <1>3, <1>5, <1>9, <1>10

LEMMA TrigAtZero ==
  ASSUME NEW l \in Lengths, NEW n \in Transforms
  PROVE  Eq(CC(n, 0), 1) /\ Eq(SS(n, 0), 0)
<1>1. n \div 2 \in Int
  BY TransformIs
<1>2. 0 * (n \div 2) = 0 /\ 0 \in Int
  BY ONLY <1>1
<1>3. Sgn(0) = 1
  BY DEF Sgn
<1>4. Eq(CC(n, 0 * (n \div 2)), Sgn(0)) /\ Eq(SS(n, 0 * (n \div 2)), 0)
  BY <1>2, TrigAtHalf
<1> QED BY <1>2, <1>3, <1>4

\* cos(a - b) and the sum of what stands opposite.
LEMMA TrigDiffers ==
  ASSUME NEW l \in Lengths, NEW n \in Transforms, NEW j \in Int, NEW k \in Int
  PROVE  Eq(CC(n, j - k), CC(n, j) * CC(n, k) + SS(n, j) * SS(n, k))
<1>1. -k \in Int /\ j - k = j + (-k)
  OBVIOUS
<1>2. PICK x, s, y, t, yy, tt : /\ x = CC(n, j) /\ s = SS(n, j) /\ y = CC(n, k) /\ t = SS(n, k)
                                /\ yy = CC(n, -k) /\ tt = SS(n, -k)
  OBVIOUS
<1>3. /\ x \in Int /\ s \in Int /\ y \in Int /\ t \in Int /\ yy \in Int /\ tt \in Int
      /\ Eq(yy, y) /\ Eq(tt, -t)
  BY <1>1, <1>2, TrigIs, TrigOpposite
<1>4. Eq(CC(n, j - k), x * yy - s * tt)
  BY <1>1, <1>2, TrigAdds
<1>5. PICK u, v, m : u = x * yy - s * tt /\ v = x * y + s * t /\ m = -t
  OBVIOUS
<1>6. u \in Int /\ v \in Int /\ m \in Int /\ -s \in Int /\ u - v = x * (yy - y) + (-s) * (tt - m)
  BY ONLY <1>3, <1>5
<1>7. Eq(tt, m)
  BY <1>3, <1>5
<1>8. Eq(u, v)
  BY ONLY <1>3, <1>6, <1>7, Combine
<1> QED BY <1>2, <1>4, <1>5, <1>8, EqBasics

\* A geometric series of cosines.
LEMMA Waves ==
  ASSUME NEW l \in Lengths, NEW n \in Transforms, NEW d \in Int, NEW m \in Nat, NEW f, Ints(f, m),
         \A i \in 0 .. m - 1 : f[i] = CC(n, d * (i + 1))
  PROVE  Eq((W(n, d) - 1) * (1 + 2 * Sum(f, m)), W(n, d * (m + 1)) - W(n, -(d * m)))
<1>0. n \in Nat \ {0} /\ Divisor(n)
  BY TransformIs
<1>1. PICK v : v = W(n, d) - 1
  OBVIOUS
<1>2. v \in Int /\ W(n, d) \in Int /\ W(n, d) = v + 1
  <2>1. W(n, d) \in Int
    BY <1>0, RootIs
  <2> QED BY <1>1, <2>1
<1> DEFINE A(k) == W(n, d * k)
           B(k) == W(n, -(d * k))
           S == {k \in Nat : k <= m => Eq(v * (1 + 2 * Sum(f, k)), A(k + 1) - B(k))}
<1>3. ASSUME NEW k \in Nat PROVE A(k) \in Int /\ B(k) \in Int /\ Eq(A(k + 1), W(n, d) * A(k)) /\ Eq(B(k), W(n, d) * B(k + 1))
  <2>1. PICK x, y, xx, yy : x = d * k /\ y = -(d * k) /\ xx = d * (k + 1) /\ yy = -(d * (k + 1))
    OBVIOUS
  <2>2. x \in Int /\ y \in Int /\ xx \in Int /\ yy \in Int /\ xx = d + x /\ y = d + yy
    BY ONLY <2>1, k \in Nat, d \in Int
  <2>3. Eq(W(n, d + x), W(n, d) * W(n, x)) /\ Eq(W(n, d + yy), W(n, d) * W(n, yy))
    BY <1>0, <2>2, RootsAdd
  <2>4. W(n, x) \in Int /\ W(n, y) \in Int
    BY <1>0, <2>2, RootIs
  <2> QED BY <2>1, <2>2, <2>3, <2>4
<1>4. \A k \in Nat : Eq(2 * CC(n, d * k), A(k) + B(k))
  <2> TAKE k \in Nat
  <2>1. d * k \in Int
    BY ONLY k \in Nat, d \in Int
  <2> QED BY <2>1, TrigIs
<1>5. 0 \in S
  <2>1. Sum(f, 0) = 0
    BY SumNone
  <2>2. d * (0 + 1) = d /\ -(d * 0) = 0
    BY ONLY d \in Int
  <2>3. A(0 + 1) = W(n, d) /\ B(0) = 1
    BY <1>0, <2>2, RootIs
  <2>4. v * (1 + 2 * 0) = W(n, d) - 1
    BY ONLY <1>2
  <2> QED BY <2>1, <2>3, <2>4, EqBasics
<1>6. ASSUME NEW k \in Nat, k \in S PROVE k + 1 \in S
  <2>1. SUFFICES ASSUME k + 1 <= m PROVE Eq(v * (1 + 2 * Sum(f, k + 1)), A((k + 1) + 1) - B(k + 1))
    OBVIOUS
  <2>2. Ints(f, k + 1) /\ k \in 0 .. m - 1
    BY <2>1 DEF Ints
  <2>3. PICK s, ss, c, a, b, aa, bb, o : /\ s = Sum(f, k) /\ ss = Sum(f, k + 1) /\ c = f[k] /\ o = W(n, d)
                                   /\ a = A(k + 1) /\ b = B(k) /\ aa = A((k + 1) + 1) /\ bb = B(k + 1)
    OBVIOUS
  <2>4. /\ s \in Int /\ ss \in Int /\ c \in Int /\ Eq(ss, s + c)
    BY <2>2, <2>3, SumIs, SumGrows
  <2>5. a \in Int /\ b \in Int /\ aa \in Int /\ bb \in Int /\ Eq(aa, o * a) /\ Eq(b, o * bb) /\ o = v + 1
    <3>1. k + 1 \in Nat /\ (k + 1) + 1 \in Nat
      OBVIOUS
    <3>2. A(k + 1) \in Int /\ B(k) \in Int /\ A((k + 1) + 1) \in Int /\ B(k + 1) \in Int
      BY <1>3, <3>1
    <3>3. Eq(A((k + 1) + 1), W(n, d) * A(k + 1)) /\ Eq(B(k), W(n, d) * B(k + 1))
      BY <1>3, <3>1
    <3> QED BY <1>2, <2>3, <3>2, <3>3
  <2>6. Eq(2 * c, a + bb)
    <3>1. c = CC(n, d * (k + 1)) /\ k + 1 \in Nat
      BY <2>2, <2>3
    <3>2. Eq(2 * CC(n, d * (k + 1)), A(k + 1) + B(k + 1))
      BY <1>4, <3>1
    <3> QED BY <2>3, <3>1, <3>2
  <2>7. Eq(v * (1 + 2 * s), a - b)
    BY <1>6, <2>1, <2>3
  <2> HIDE DEF A, B, S
  <2>8. PICK c2, ab, l0, r0, l1, r1, oa, ob, sc, am :
          /\ c2 = 2 * c /\ ab = a + bb /\ l0 = v * (1 + 2 * s) /\ r0 = a - b /\ l1 = v * (1 + 2 * ss)
          /\ r1 = aa - bb /\ oa = o * a /\ ob = o * bb /\ sc = s + c /\ am = l0 + v * c2
    OBVIOUS
  <2>9. /\ c2 \in Int /\ ab \in Int /\ l0 \in Int /\ r0 \in Int /\ l1 \in Int /\ r1 \in Int /\ oa \in Int /\ ob \in Int
        /\ sc \in Int /\ am \in Int /\ 2 * v \in Int
    BY ONLY <1>2, <2>4, <2>5, <2>8
  <2>10. Eq(c2, ab) /\ Eq(l0, r0) /\ Eq(aa, oa) /\ Eq(b, ob) /\ Eq(ss, sc)
    BY <2>4, <2>5, <2>6, <2>7, <2>8
  <2>11. Eq(l1, am)
    <3>1. l1 - am = (2 * v) * (ss - sc) + 0 * (b - ob) /\ 0 \in Int
      BY ONLY <1>2, <2>4, <2>5, <2>8
    <3> QED BY ONLY <2>4, <2>5, <2>9, <2>10, <3>1, Combine
  <2>12. PICK r2 : r2 = r0 + v * ab
    OBVIOUS
  <2>13. r2 \in Int /\ 1 \in Int
    BY ONLY <1>2, <2>9, <2>12
  <2>14. Eq(am, r2)
    <3>1. am - r2 = (l0 - r0) + v * (c2 - ab)
      BY ONLY <1>2, <2>8, <2>9, <2>12
    <3>2. /\ am \in Int /\ r2 \in Int /\ l0 \in Int /\ r0 \in Int /\ v \in Int /\ c2 \in Int /\ ab \in Int
          /\ Eq(l0, r0) /\ Eq(c2, ab)
      BY <1>2, <2>9, <2>10, <2>13
    <3> QED BY ONLY <3>1, <3>2, CombineOne
  <2>15. Eq(r2, r1)
    <3>1. r2 - r1 = (oa - aa) + (ob - b)
      <4>1. r2 = oa + ob - b - bb
        BY ONLY <1>2, <2>5, <2>8, <2>12
      <4> QED BY ONLY <2>5, <2>8, <2>9, <4>1
    <3>2. /\ r2 \in Int /\ r1 \in Int /\ oa \in Int /\ aa \in Int /\ ob \in Int /\ b \in Int
          /\ Eq(oa, aa) /\ Eq(ob, b)
      BY <2>5, <2>9, <2>10, <2>13, EqBasics
    <3> QED BY ONLY <3>1, <3>2, CombineSum
  <2>16. Eq(l1, r1)
    BY <2>11, <2>14, <2>15, EqBasics
  <2> QED BY <2>3, <2>8, <2>16
<1>7. Nat \subseteq S
  <2> HIDE DEF S
  <2> QED BY <1>5, <1>6, Induction
<1>8. Eq(v * (1 + 2 * Sum(f, m)), A(m + 1) - B(m))
  BY <1>7
<1> QED BY <1>1, <1>8

\* What the cosines of all frequencies add up to: the transform's length at
\* a multiple of it, otherwise nothing.
Waveform(n, d) == [i \in 0 .. n \div 2 - 2 |-> CC(n, d * (i + 1))]
Kernel(n, d) == 1 + Sgn(d) + 2 * Sum(Waveform(n, d), n \div 2 - 1)

LEMMA WaveformIs ==
  ASSUME NEW l \in Lengths, NEW n \in Transforms, NEW d \in Int
  PROVE  /\ Ints(Waveform(n, d), n \div 2 - 1) /\ n \div 2 - 1 \in Nat /\ n = 2 * (n \div 2)
         /\ Sum(Waveform(n, d), n \div 2 - 1) \in Int /\ Kernel(n, d) \in Int
<1>1. PICK g \in Nat \ {0} : n = 8 * g /\ n \div 2 = 4 * g
  BY TransformIs
<1>2. PICK m \in Nat : m = n \div 2 - 1 /\ n = 2 * (n \div 2)
  BY <1>1
<1>3. ASSUME NEW i \in 0 .. m - 1 PROVE Waveform(n, d)[i] \in Int
  <2>1. d * (i + 1) \in Int
    BY ONLY d \in Int, i \in 0 .. m - 1
  <2>2. CC(n, d * (i + 1)) \in Int
    BY <2>1, TrigIs
  <2>3. i \in 0 .. n \div 2 - 2
    BY <1>1, <1>2
  <2> QED BY <2>2, <2>3 DEF Waveform
<1>4. Ints(Waveform(n, d), m)
  BY <1>3 DEF Ints
<1>5. Sum(Waveform(n, d), m) \in Int
  BY <1>4, SumIs
<1> QED BY <1>2, <1>4, <1>5, SgnIs DEF Kernel

LEMMA KernelIs ==
  ASSUME NEW l \in Lengths, NEW n \in Transforms, NEW d \in Int
  PROVE  Eq(Kernel(n, d), IF d % n = 0 THEN n ELSE 0)
<1>1. PICK g \in Nat \ {0} : n = 8 * g /\ n \div 2 = 4 * g
  BY TransformIs
<1>2. n \in Nat \ {0} /\ Divisor(n)
  BY TransformIs
<1>3. PICK m \in Nat : m = n \div 2 - 1
  BY <1>1
<1>4. PICK f : f = Waveform(n, d)
  OBVIOUS
<1>5. Ints(f, m) /\ \A i \in 0 .. m - 1 : f[i] = CC(n, d * (i + 1))
  <2>1. Ints(f, m)
    BY <1>3, <1>4, WaveformIs
  <2>2. \A i \in 0 .. m - 1 : i \in 0 .. n \div 2 - 2
    BY <1>1, <1>3
  <2> QED BY <1>4, <2>1, <2>2 DEF Waveform
<1>6. PICK c, s : c = Sgn(d) /\ s = Sum(f, m)
  OBVIOUS
<1>7. c \in Int /\ s \in Int /\ Kernel(n, d) = 1 + c + 2 * s
  BY <1>3, <1>4, <1>5, <1>6, SgnIs, SumIs DEF Kernel
<1>8. CASE d % n = 0
  <2>1. c = 1
    <3>1. PICK q \in Int : d = n * q
      <4>1. d = n * (d \div n) + (d % n) /\ d \div n \in Int
        BY <1>2, RemFacts
      <4>2. PICK q \in Int : q = d \div n
        BY <4>1
      <4>3. d = n * q
        BY ONLY <1>8, <4>1, <4>2, <1>2
      <4> QED BY <4>3
    <3>2. PICK e \in Int : e = 4 * (g * q)
      <4>1. 4 * (g * q) \in Int
        BY ONLY g \in Nat \ {0}, q \in Int
      <4> QED BY <4>1
    <3>3. d = 2 * e
      BY ONLY <1>1, <3>1, <3>2, g \in Nat \ {0}, q \in Int
    <3>4. d % 2 = 0
      BY ONLY <3>3, e \in Int
    <3> QED BY <1>6, <3>4 DEF Sgn
  <2>2. ASSUME NEW i \in 0 .. m - 1 PROVE Eq(f[i], 1)
    <3>1. PICK k : k = i + 1
      OBVIOUS
    <3>2. k \in Int /\ 0 \in Int
      BY <3>1
    <3>3. (k * (d % n)) % n = (k * d) % n
      BY <1>2, <3>2, RemTimes
    <3>4. k * 0 = 0 /\ k * d = d * k
      BY ONLY <3>2, d \in Int
    <3>5. 0 % n = (d * k) % n
      BY <1>8, <3>3, <3>4
    <3>6. CC(n, 0) = CC(n, d * k)
      BY <3>5, TrigRounds
    <3> QED BY <1>5, <3>1, <3>6, TrigAtZero, EqBasics
  <2>3. Eq(s, m * 1)
    BY <1>5, <1>6, <2>2, 1 \in Int, SumConstant
  <2>4. PICK x, y : x = 1 + c + 2 * s /\ y = m * 1
    OBVIOUS
  <2>5. y = m /\ x \in Int /\ n \in Int /\ 2 \in Int /\ n = 2 + 2 * m
    BY <1>1, <1>3, <1>7, <2>4
  <2>6. Eq(2 * s, 2 * m)
    <3>1. Eq(s, m)
      BY <2>3, <2>4, <2>5
    <3>2. PICK two \in Int : two = 2
      OBVIOUS
    <3>3. s \in Int /\ m \in Int
      BY <1>7
    <3>4. Eq(two * s, two * m)
      BY ONLY <3>1, <3>3, two \in Int, EqScaled
    <3> QED BY <3>2, <3>4
  <2>7. PICK u, v : u = 2 * s /\ v = 2 * m
    OBVIOUS
  <2>8. u \in Int /\ v \in Int /\ x - n = u - v
    BY <1>7, <2>1, <2>4, <2>5, <2>7
  <2>9. Eq(x, n)
    <3>1. Eq(u, v)
      BY <2>6, <2>7
    <3> QED BY ONLY <2>5, <2>8, <3>1, CombineSame
  <2> QED BY <1>7, <1>8, <2>4, <2>9
<1>9. CASE d % n # 0
  <2>1. PICK h, w, v : h = n \div 2 /\ w = W(n, d) /\ v = w - 1
    OBVIOUS
  <2>2. h = m + 1 /\ h \in Int /\ w \in Int /\ v \in Int
    BY <1>1, <1>2, <1>3, <2>1, RootIs
  <2>3. Eq(v * (1 + 2 * s), W(n, d * (m + 1)) - W(n, -(d * m)))
    BY <1>5, <1>6, <2>1, Waves
  <2>4. PICK a, b, z, k : a = W(n, d * h) /\ b = W(n, -(d * m)) /\ z = W(n, (-d) * h) /\ k = (-d) * h
    OBVIOUS
  <2>5. -d \in Int /\ k \in Int /\ -(d * m) = d + k /\ -(d * m) \in Int
    BY ONLY <2>2, <2>4, m \in Nat, d \in Int
  <2>6. Eq(a, c) /\ Eq(z, c)
    <3>1. Eq(W(n, d * h), Sgn(d)) /\ Eq(W(n, (-d) * h), Sgn(-d))
      BY <2>1, <2>5, RootAtHalf
    <3> QED BY <1>6, <2>4, <3>1, SgnIs
  <2>7. Eq(b, w * z)
    <3>1. Eq(W(n, d + k), W(n, d) * W(n, k))
      BY <1>2, <2>5, RootsAdd
    <3> QED BY <2>1, <2>4, <2>5, <3>1
  <2>8. a \in Int /\ b \in Int /\ z \in Int
    <3>1. d * h \in Int
      BY ONLY <2>2, d \in Int
    <3> QED BY <1>2, <2>4, <2>5, <3>1, RootIs
  <2>9. PICK x, y, e, wz, wc, o : x = v * (1 + 2 * s) /\ y = a - b /\ e = 1 + c + 2 * s /\ wz = w * z /\ wc = w * c /\ o = v * e
    OBVIOUS
  <2>10. x \in Int /\ y \in Int /\ e \in Int /\ wz \in Int /\ wc \in Int /\ o \in Int
    BY ONLY <1>7, <2>2, <2>8, <2>9
  <2>11. Eq(x, y) /\ Eq(b, wz) /\ Eq(wz, wc)
    <3>1. Eq(x, y) /\ Eq(b, wz)
      BY <2>2, <2>3, <2>4, <2>7, <2>9
    <3>2. Eq(w * z, w * c)
      BY ONLY <1>7, <2>2, <2>6, <2>8, EqScaled
    <3> QED BY <2>9, <3>1, <3>2
  <2>12. Eq(y, c - wc)
    <3>1. Eq(b, wc)
      BY <2>11, EqBasics
    <3>2. Eq(a - b, c - wc)
      BY ONLY <1>7, <2>6, <2>8, <2>10, <3>1, EqPlus
    <3> QED BY <2>9, <3>2
  <2>13. Eq(o, 0)
    <3>1. PICK r, t : r = c - wc /\ t = 0
      OBVIOUS
    <3>2. r \in Int /\ t \in Int /\ Eq(x, r)
      BY <1>7, <2>10, <2>11, <2>12, <3>1, EqBasics
    <3>3. o - t = x - r
      BY ONLY <1>7, <2>1, <2>2, <2>9, <3>1
    <3>4. Eq(o, t)
      BY ONLY <2>10, <3>2, <3>3, CombineSame
    <3> QED BY <3>1, <3>4
  <2>14. ~Eq(v, 0)
    <3>1. SUFFICES ASSUME Eq(v, 0) PROVE FALSE
      OBVIOUS
    <3>2. PICK p, t : p = 1 /\ t = 0
      OBVIOUS
    <3>3. p \in Int /\ t \in Int /\ w - p = v - t /\ Eq(v, t)
      BY <2>1, <2>2, <3>1, <3>2
    <3>4. Eq(w, p)
      BY ONLY <2>2, <3>3, CombineSame
    <3>5. w \in 0 .. P - 1 /\ p \in 0 .. P - 1
      <4>1. w \in Units
        BY <1>2, <2>1, RootIs
      <4> QED BY <4>1, <3>2, PNat DEF Units
    <3>6. w = 1
      BY <3>2, <3>4, <3>5, EqSame
    <3> QED BY <1>2, <1>9, <2>1, <3>6, RootIs
  <2>15. Eq(e, 0)
    BY <2>2, <2>9, <2>10, <2>13, <2>14, NoDivisors
  <2> QED BY <1>7, <1>9, <2>9, <2>15
<1> QED BY <1>8, <1>9

LEMMA SumScaled ==
  ASSUME NEW n \in Nat, NEW f, Ints(f, n), NEW a \in Int, NEW h, Ints(h, n),
         \A i \in 0 .. n - 1 : Eq(h[i], a * f[i])
  PROVE  Eq(Sum(h, n), a * Sum(f, n))
<1>1. PICK z : z = 0
  OBVIOUS
<1>2. z \in Int
  BY <1>1
<1>3. \A i \in 0 .. n - 1 : Eq(h[i], a * f[i] + z * f[i])
  <2> TAKE i \in 0 .. n - 1
  <2>1. f[i] \in Int
    BY DEF Ints
  <2>2. PICK x : x = f[i]
    OBVIOUS
  <2>3. a * x + z * x = a * x
    BY ONLY <1>1, <2>1, <2>2, a \in Int
  <2> QED BY <2>2, <2>3
<1>4. Eq(Sum(h, n), a * Sum(f, n) + z * Sum(f, n))
  BY <1>2, <1>3, SumLinear
<1>5. PICK s \in Int : s = Sum(f, n)
  BY SumIs
<1>6. a * s + z * s = a * s
  BY ONLY <1>1, a \in Int, s \in Int
<1> QED BY <1>4, <1>5, <1>6

\* The real and the imaginary part of the spectrum of x, at frequency k.
ReTerms(n, x, k) == [j \in 0 .. n - 1 |-> x[j] * CC(n, j * k)]
ImTerms(n, x, k) == [j \in 0 .. n - 1 |-> x[j] * SS(n, j * k)]
Re(n, x, k) == Sum(ReTerms(n, x, k), n)
Im(n, x, k) == Sum(ImTerms(n, x, k), n)

\* In FFTW's order.
Spectral(n, x, k) == IF k <= n \div 2 THEN Re(n, x, k) ELSE -Im(n, x, n - k)

LEMMA PartsAre ==
  ASSUME NEW l \in Lengths, NEW n \in Transforms, NEW x, Ints(x, n), NEW k \in Int
  PROVE  /\ n \in Nat /\ Ints(ReTerms(n, x, k), n) /\ Ints(ImTerms(n, x, k), n)
         /\ Re(n, x, k) \in Int /\ Im(n, x, k) \in Int /\ Re(n, x, k) \in Field /\ Im(n, x, k) \in Field
         /\ \A j \in 0 .. n - 1 : ReTerms(n, x, k)[j] = x[j] * CC(n, j * k) /\ ImTerms(n, x, k)[j] = x[j] * SS(n, j * k)
<1>1. n \in Nat
  BY TransformIs
<1>2. ASSUME NEW j \in 0 .. n - 1 PROVE x[j] * CC(n, j * k) \in Int /\ x[j] * SS(n, j * k) \in Int
  <2>1. j * k \in Int
    BY ONLY j \in 0 .. n - 1, k \in Int
  <2>2. x[j] \in Int /\ CC(n, j * k) \in Int /\ SS(n, j * k) \in Int
    BY <2>1, TrigIs DEF Ints
  <2> QED BY ONLY <2>2
<1>3. Ints(ReTerms(n, x, k), n) /\ Ints(ImTerms(n, x, k), n)
  BY <1>2 DEF Ints, ReTerms, ImTerms
<1> QED BY <1>1, <1>3, SumIs DEF Re, Im, ReTerms, ImTerms

LEMMA R2HCIs ==
  ASSUME NEW l \in Lengths, NEW n \in Transforms, NEW x, Ints(x, n), NEW k \in 0 .. n - 1
  PROVE  /\ R2HC(n, x)[k] \in Field /\ R2HC(n, x)[k] \in Int
         /\ Eq(R2HC(n, x)[k], Spectral(n, x, k)) /\ Spectral(n, x, k) \in Int
<1>1. k \in Int /\ n - k \in Int /\ n \in Nat
  BY TransformIs
<1>2. /\ Re(n, x, k) \in Int /\ Im(n, x, n - k) \in Int /\ Re(n, x, k) \in Field
  BY <1>1, PartsAre
<1>3. R2HC(n, x)[k] = IF k <= n \div 2 THEN Re(n, x, k) ELSE (-Im(n, x, n - k)) % P
  BY DEF R2HC, Re, Im, ReTerms, ImTerms, CC, SS
<1>4. PICK u : u = -Im(n, x, n - k)
  OBVIOUS
<1>5. u \in Int
  BY <1>2, <1>4
<1>6. u % P \in Field /\ u % P \in Int /\ Eq(u % P, u)
  BY <1>5, EqRemainder DEF Field
<1> QED BY <1>2, <1>3, <1>4, <1>5, <1>6, EqBasics DEF Spectral

\* v holds the spectrum of x, as FFTW gives it.
Ordered(n, v, x) == \A k \in 0 .. n - 1 : v[k] \in Int /\ Eq(v[k], Spectral(n, x, k))

LEMMA SgnDiffers ==
  ASSUME NEW j \in Int, NEW k \in Int
  PROVE  Sgn(j) * Sgn(k) = Sgn(j - k)
<1>1. PICK d \in Int : d = j - k
  OBVIOUS
<1>2. (d % 2 = 0) <=> (j % 2 = k % 2)
  BY <1>1
<1>3. j % 2 \in {0, 1} /\ k % 2 \in {0, 1}
  OBVIOUS
<1> QED BY <1>1, <1>2, <1>3 DEF Sgn

\* The terms of the inverse transform of v at j.
BackTerms(n, v, j) == [i \in 0 .. n \div 2 - 2 |-> v[i + 1] * CosTable[n][(j * (i + 1)) % n]
                                             - v[n - (i + 1)] * SinTable[n][(j * (i + 1)) % n]]

LEMMA HC2RIs ==
  ASSUME NEW l \in Lengths, NEW n \in Transforms, NEW v, Ints(v, n), NEW j \in 0 .. n - 1
  PROVE  /\ Ints(BackTerms(n, v, j), n \div 2 - 1) /\ n \div 2 - 1 \in Nat /\ n \div 2 \in 0 .. n - 1 /\ 0 \in 0 .. n - 1
         /\ \A i \in 0 .. n \div 2 - 2 : /\ i + 1 \in 0 .. n - 1 /\ n - (i + 1) \in 0 .. n - 1
                                        /\ n - (n - (i + 1)) = i + 1 /\ i + 1 <= n \div 2 /\ ~(n - (i + 1) <= n \div 2)
                                        /\ BackTerms(n, v, j)[i] = v[i + 1] * CC(n, j * (i + 1))
                                                                   - v[n - (i + 1)] * SS(n, j * (i + 1))
         /\ HC2R(n, v)[j] \in Field /\ HC2R(n, v)[j] \in Int
         /\ v[0] \in Int /\ v[n \div 2] \in Int
         /\ Eq(HC2R(n, v)[j], v[0] + Sgn(j) * v[n \div 2] + 2 * Sum(BackTerms(n, v, j), n \div 2 - 1))
<1>1. PICK g \in Nat \ {0} : n = 8 * g /\ n \div 2 = 4 * g
  BY TransformIs
<1>2. n \div 2 - 1 \in Nat /\ n \div 2 \in 0 .. n - 1 /\ 0 \in 0 .. n - 1
  BY <1>1
<1>3. ASSUME NEW i \in 0 .. n \div 2 - 2
      PROVE  /\ i + 1 \in 0 .. n - 1 /\ n - (i + 1) \in 0 .. n - 1
             /\ n - (n - (i + 1)) = i + 1 /\ i + 1 <= n \div 2 /\ ~(n - (i + 1) <= n \div 2)
  BY <1>1
<1>4. ASSUME NEW i \in 0 .. n \div 2 - 2
      PROVE  /\ BackTerms(n, v, j)[i] = v[i + 1] * CC(n, j * (i + 1)) - v[n - (i + 1)] * SS(n, j * (i + 1))
             /\ BackTerms(n, v, j)[i] \in Int
  <2>1. BackTerms(n, v, j)[i] = v[i + 1] * CC(n, j * (i + 1)) - v[n - (i + 1)] * SS(n, j * (i + 1))
    BY DEF BackTerms, CC, SS
  <2>2. PICK k : k = j * (i + 1)
    OBVIOUS
  <2>3. k \in Int
    BY ONLY <2>2, <1>1, j \in 0 .. n - 1, i \in 0 .. n \div 2 - 2
  <2>4. CC(n, k) \in Int /\ SS(n, k) \in Int
    BY <2>3, TrigIs
  <2>5. v[i + 1] \in Int /\ v[n - (i + 1)] \in Int
    BY <1>3 DEF Ints
  <2>6. v[i + 1] * CC(n, k) - v[n - (i + 1)] * SS(n, k) \in Int
    BY ONLY <2>4, <2>5
  <2> QED BY <2>1, <2>2, <2>6
<1>5. Ints(BackTerms(n, v, j), n \div 2 - 1)
  <2>1. (n \div 2 - 1) - 1 = n \div 2 - 2
    BY <1>1
  <2> QED BY <1>4, <2>1 DEF Ints
<1>6. PICK s, c, a, b : s = Sum(BackTerms(n, v, j), n \div 2 - 1) /\ c = Sgn(j) /\ a = v[0] /\ b = v[n \div 2]
  OBVIOUS
<1>7. s \in Int /\ c \in Int /\ a \in Int /\ b \in Int
  <2>1. j \in Int
    BY <1>1
  <2> QED BY <1>2, <1>5, <1>6, <2>1, SumIs, SgnIs DEF Ints
<1>8. PICK t : t = a + c * b + 2 * s
  OBVIOUS
<1>9. t \in Int
  BY ONLY <1>7, <1>8
<1>10. HC2R(n, v)[j] = t % P
  BY <1>6, <1>8 DEF HC2R, Sgn, BackTerms
<1>11. t % P \in Field /\ t % P \in Int /\ Eq(t % P, t)
  BY <1>9, EqRemainder DEF Field
<1> QED BY <1>2, <1>3, <1>4, <1>5, <1>6, <1>7, <1>8, <1>10, <1>11

\* One wave of the inverse transform of a spectrum.
LEMMA BackTermIs ==
  ASSUME NEW l \in Lengths, NEW n \in Transforms, NEW x, Ints(x, n), NEW v, Ints(v, n), Ordered(n, v, x),
         NEW j \in 0 .. n - 1, NEW i \in 0 .. n \div 2 - 2, NEW r,
         r = [a \in 0 .. n - 1 |-> x[a] * CC(n, (a - j) * (i + 1))]
  PROVE  Ints(r, n) /\ Eq(BackTerms(n, v, j)[i], Sum(r, n))
<1>0. n \in Nat /\ j \in Int
  BY TransformIs
<1>1. PICK k : k = i + 1
  OBVIOUS
<1>2. k \in 0 .. n - 1 /\ n - k \in 0 .. n - 1 /\ k \in Int
  BY <1>0, <1>1, HC2RIs
<1>3. PICK f, g, c, s : f = ReTerms(n, x, k) /\ g = ImTerms(n, x, k) /\ c = CC(n, j * k) /\ s = SS(n, j * k)
  OBVIOUS
<1>4. j * k \in Int
  BY ONLY <1>0, <1>2
<1>5. /\ Ints(f, n) /\ Ints(g, n) /\ c \in Int /\ s \in Int
      /\ \A a \in 0 .. n - 1 : f[a] = x[a] * CC(n, a * k) /\ g[a] = x[a] * SS(n, a * k)
  <2>1. c \in Int /\ s \in Int
    BY <1>3, <1>4, TrigIs
  <2>2. Ints(f, n) /\ Ints(g, n)
    BY <1>2, <1>3, PartsAre
  <2>3. \A a \in 0 .. n - 1 : f[a] = x[a] * CC(n, a * k) /\ g[a] = x[a] * SS(n, a * k)
    BY ONLY <1>3 DEF ReTerms, ImTerms
  <2> QED BY <2>1, <2>2, <2>3
<1>6. PICK p, q, u, w : p = Re(n, x, k) /\ q = Im(n, x, k) /\ u = v[k] /\ w = v[n - k]
  OBVIOUS
<1>7. p \in Int /\ q \in Int /\ u \in Int /\ w \in Int /\ Eq(u, p) /\ Eq(w, -q) /\ p = Sum(f, n) /\ q = Sum(g, n)
  <2>1. p \in Int /\ q \in Int /\ p = Sum(f, n) /\ q = Sum(g, n)
    BY <1>2, <1>3, <1>6, PartsAre DEF Re, Im
  <2>2. u \in Int /\ w \in Int /\ Eq(u, Spectral(n, x, k)) /\ Eq(w, Spectral(n, x, n - k))
    BY <1>2, <1>6 DEF Ordered
  <2>3. Spectral(n, x, k) = p /\ Spectral(n, x, n - k) = -q
    <3>1. k <= n \div 2 /\ ~(n - k <= n \div 2) /\ n - (n - k) = k
      BY <1>1, HC2RIs
    <3> QED BY <1>6, <3>1 DEF Spectral
  <2> QED BY <2>1, <2>2, <2>3
<1>8. BackTerms(n, v, j)[i] = u * c - w * s
  BY <1>1, <1>3, <1>6, HC2RIs
<1>9. ASSUME NEW a \in 0 .. n - 1 PROVE r[a] \in Int /\ Eq(r[a], c * f[a] + s * g[a])
  <2>1. PICK y, z, o, t, d : y = x[a] /\ z = CC(n, a * k) /\ o = SS(n, a * k) /\ d = a * k /\ t = CC(n, (a - j) * k)
    OBVIOUS
  <2>2. d \in Int /\ (a - j) * k = d - j * k
    BY ONLY <1>0, <1>2, <2>1, a \in 0 .. n - 1
  <2>3. y \in Int /\ z \in Int /\ o \in Int /\ t \in Int
    <3>1. y \in Int
      BY <2>1 DEF Ints
    <3>2. d - j * k \in Int
      BY <1>4, <2>2
    <3> QED BY <2>1, <2>2, <3>1, <3>2, TrigIs
  <2>4. Eq(t, z * c + o * s)
    <3>1. Eq(CC(n, d - j * k), CC(n, d) * CC(n, j * k) + SS(n, d) * SS(n, j * k))
      BY <1>4, <2>2, TrigDiffers
    <3> QED BY <1>3, <2>1, <2>2, <3>1
  <2>5. PICK e : e = z * c + o * s
    OBVIOUS
  <2>6. e \in Int /\ y * e = c * (y * z) + s * (y * o) /\ y * t \in Int
    BY ONLY <1>5, <2>3, <2>5
  <2>7. Eq(t, e)
    BY <2>4, <2>5
  <2>8. Eq(y * t, y * e)
    BY ONLY <2>3, <2>6, <2>7, EqScaled
  <2>9. r[a] = y * t /\ f[a] = y * z /\ g[a] = y * o
    BY <1>1, <1>5, <2>1
  <2> QED BY <2>6, <2>8, <2>9
<1>10. Ints(r, n)
  BY <1>9 DEF Ints
<1>11. Eq(Sum(r, n), c * p + s * q)
  BY <1>0, <1>5, <1>7, <1>9, <1>10, SumLinear
<1>12. PICK y, z, qq, ms : y = u * c - w * s /\ z = c * p + s * q /\ qq = -q /\ ms = -s
  OBVIOUS
<1>13. y \in Int /\ z \in Int /\ qq \in Int /\ ms \in Int
  BY ONLY <1>5, <1>7, <1>12
<1>14. y - z = c * (u - p) + ms * (w - qq)
  BY ONLY <1>5, <1>7, <1>12
<1>15. Eq(y, z)
  <2>1. u \in Int /\ p \in Int /\ w \in Int /\ c \in Int /\ Eq(u, p) /\ Eq(w, qq)
    BY <1>5, <1>7, <1>12
  <2> QED BY ONLY <1>13, <1>14, <2>1, Combine
<1> QED BY <1>8, <1>10, <1>11, <1>12, <1>15, EqBasics

\* The inverse transform of the spectrum of x is x, n times.
LEMMA Inversion ==
  ASSUME NEW l \in Lengths, NEW n \in Transforms, NEW x, Ints(x, n), NEW v, Ints(v, n), Ordered(n, v, x),
         NEW j \in 0 .. n - 1
  PROVE  HC2R(n, v)[j] \in Field /\ HC2R(n, v)[j] \in Int /\ Eq(HC2R(n, v)[j], n * x[j])
<1>0. n \in Nat /\ j \in Int /\ n \in Nat \ {0}
  BY TransformIs
<1>1. PICK h, m, bt : h = n \div 2 /\ m = h - 1 /\ bt = BackTerms(n, v, j)
  OBVIOUS
<1>2. /\ m \in Nat /\ h \in 0 .. n - 1 /\ 0 \in 0 .. n - 1 /\ h \in Int /\ Ints(bt, m)
      /\ \A i \in 0 .. m - 1 : i \in 0 .. n \div 2 - 2
  <2>1. m \in Nat /\ h \in 0 .. n - 1 /\ 0 \in 0 .. n - 1 /\ Ints(bt, m)
    BY <1>1, HC2RIs
  <2>2. h \in Int
    BY <2>1, <1>0
  <2> QED BY <1>1, <2>1, <2>2
<1> DEFINE row(i) == [a \in 0 .. n - 1 |-> x[a] * CC(n, (a - j) * (i + 1))]
           rows == [i \in 0 .. m - 1 |-> row(i)]
           cols == [a \in 0 .. n - 1 |-> [i \in 0 .. m - 1 |-> x[a] * CC(n, (a - j) * (i + 1))]]
           w == [a \in 0 .. n - 1 |-> x[a] * Sum(Waveform(n, a - j), m)]
           y == [a \in 0 .. n - 1 |-> x[a] * (1 + Sgn(a - j))]
           z == [a \in 0 .. n - 1 |-> x[a] * Kernel(n, a - j)]
<1>3. ASSUME NEW i \in 0 .. m - 1 PROVE Ints(rows[i], n) /\ Eq(bt[i], Sum(rows[i], n))
  <2>1. i \in 0 .. n \div 2 - 2
    BY <1>2
  <2>2. rows[i] = [a \in 0 .. n - 1 |-> x[a] * CC(n, (a - j) * (i + 1))]
    OBVIOUS
  <2>3. PICK r : r = rows[i]
    OBVIOUS
  <2>4. r = [a \in 0 .. n - 1 |-> x[a] * CC(n, (a - j) * (i + 1))]
    BY <2>2, <2>3
  <2>5. Ints(r, n) /\ Eq(BackTerms(n, v, j)[i], Sum(r, n))
    BY ONLY <2>1, <2>4, l \in Lengths, n \in Transforms, Ints(x, n), Ints(v, n), Ordered(n, v, x), j \in 0 .. n - 1,
            BackTermIs
  <2> HIDE DEF rows
  <2> QED BY <1>1, <2>3, <2>5
<1>4. ASSUME NEW a \in 0 .. n - 1
      PROVE  /\ x[a] \in Int /\ a - j \in Int /\ Sum(Waveform(n, a - j), m) \in Int /\ Ints(Waveform(n, a - j), m)
             /\ Kernel(n, a - j) \in Int /\ Sgn(a - j) \in Int
             /\ \A i \in 0 .. m - 1 : Waveform(n, a - j)[i] = CC(n, (a - j) * (i + 1))
  <2>1. x[a] \in Int /\ a - j \in Int
    BY <1>0 DEF Ints
  <2>2. Sum(Waveform(n, a - j), m) \in Int /\ Ints(Waveform(n, a - j), m) /\ Kernel(n, a - j) \in Int
    BY <1>1, <2>1, WaveformIs
  <2>3. \A i \in 0 .. m - 1 : Waveform(n, a - j)[i] = CC(n, (a - j) * (i + 1))
    BY <1>2 DEF Waveform
  <2> QED BY <2>1, <2>2, <2>3, SgnIs
<1>5. ASSUME NEW a \in 0 .. n - 1 PROVE Ints(cols[a], m) /\ Eq(w[a], Sum(cols[a], m)) /\ w[a] \in Int
  <2>1. PICK c, f, b : c = cols[a] /\ f = Waveform(n, a - j) /\ b = x[a]
    OBVIOUS
  <2>2. \A i \in 0 .. m - 1 : c[i] = b * f[i]
    BY <1>4, <2>1
  <2>3. b \in Int /\ Ints(f, m) /\ Sum(f, m) \in Int
    BY <1>4, <2>1
  <2>4. Ints(c, m)
    <3>1. SUFFICES ASSUME NEW i \in 0 .. m - 1 PROVE c[i] \in Int
      BY DEF Ints
    <3>2. f[i] \in Int
      BY <2>3 DEF Ints
    <3>3. b * f[i] \in Int
      BY ONLY <2>3, <3>2
    <3> QED BY <2>2, <3>3
  <2>5. Eq(Sum(c, m), b * Sum(f, m))
    <3>1. \A i \in 0 .. m - 1 : Eq(c[i], b * f[i])
      BY <2>2, EqBasics
    <3> QED BY <1>2, <2>3, <2>4, <3>1, SumScaled
  <2>6. w[a] = b * Sum(f, m)
    BY <2>1
  <2>7. b * Sum(f, m) \in Int
    BY ONLY <2>3
  <2> QED BY <2>1, <2>4, <2>5, <2>6, <2>7, EqBasics
<1>6. Ints(w, n)
  BY <1>5 DEF Ints
<1>7. \A i \in 0 .. m - 1, a \in 0 .. n - 1 : Eq(cols[a][i], rows[i][a])
  BY DEF Eq
<1>8. \A a \in 0 .. n - 1 : w[a] = x[a] * Sum(Waveform(n, a - j), m)
  OBVIOUS
<1> HIDE DEF rows, cols, row, w
<1>9. Eq(Sum(bt, m), Sum(w, n))
  BY <1>0, <1>2, <1>3, <1>5, <1>6, <1>7, SumSwap
<1>10. PICK p, q, c : p = Re(n, x, 0) /\ q = Re(n, x, h) /\ c = Sgn(j)
  OBVIOUS
<1>11. /\ p \in Int /\ q \in Int /\ c \in Int
       /\ v[0] \in Int /\ v[h] \in Int /\ Eq(v[0], p) /\ Eq(v[h], q)
  <2>1. p \in Int /\ q \in Int /\ c \in Int
    BY <1>0, <1>2, <1>10, PartsAre, SgnIs
  <2>2. Spectral(n, x, 0) = p /\ Spectral(n, x, h) = q
    <3>1. 0 <= n \div 2 /\ h <= n \div 2
      BY <1>1, <1>2
    <3> QED BY <1>10, <3>1 DEF Spectral
  <2>3. v[0] \in Int /\ v[h] \in Int /\ Eq(v[0], Spectral(n, x, 0)) /\ Eq(v[h], Spectral(n, x, h))
    BY <1>2 DEF Ordered
  <2> QED BY <2>1, <2>2, <2>3
<1>12. ASSUME NEW a \in 0 .. n - 1 PROVE y[a] \in Int /\ z[a] \in Int
  <2>1. x[a] \in Int /\ Sgn(a - j) \in Int /\ Kernel(n, a - j) \in Int
    BY <1>4
  <2>2. x[a] * (1 + Sgn(a - j)) \in Int /\ x[a] * Kernel(n, a - j) \in Int
    BY ONLY <2>1
  <2> QED BY <2>2
<1>13. \A a \in 0 .. n - 1 : y[a] = x[a] * (1 + Sgn(a - j)) /\ z[a] = x[a] * Kernel(n, a - j)
  OBVIOUS
<1> HIDE DEF y, z
<1>14. Ints(y, n) /\ Ints(z, n)
  BY <1>12 DEF Ints
<1>15. Eq(Sum(y, n), 1 * p + c * q)
  <2>1. PICK f, g : f = ReTerms(n, x, 0) /\ g = ReTerms(n, x, h)
    OBVIOUS
  <2>2. Ints(f, n) /\ Ints(g, n) /\ p = Sum(f, n) /\ q = Sum(g, n)
    BY <1>2, <1>10, <2>1, PartsAre DEF Re
  <2>3. ASSUME NEW a \in 0 .. n - 1 PROVE Eq(y[a], 1 * f[a] + c * g[a])
    <3>1. PICK b, o, s, d, t : b = x[a] /\ o = CC(n, 0) /\ s = CC(n, a * h) /\ d = Sgn(a) /\ t = Sgn(a - j)
      OBVIOUS
    <3>2. a * 0 = 0 /\ a \in Int /\ 0 \in Int /\ a * h \in Int
      BY ONLY <1>0, <1>2, a \in 0 .. n - 1
    <3>3. f[a] = b * o /\ g[a] = b * s /\ y[a] = b * (1 + t)
      BY <1>13, <2>1, <3>1, <3>2 DEF ReTerms
    <3>4. b \in Int /\ o \in Int /\ s \in Int /\ d \in Int /\ t \in Int
      BY <1>4, <3>1, <3>2, TrigIs, SgnIs
    <3>5. Eq(o, 1) /\ Eq(s, d)
      BY <1>1, <3>1, <3>2, TrigAtHalf, TrigAtZero
    <3>6. d * c = t
      BY <1>0, <1>10, <3>1, <3>2, SgnDiffers
    <3>7. PICK one, e, k, bc : one = 1 /\ e = b * (1 + t) /\ k = b * o + c * (b * s) /\ bc = b * c
      OBVIOUS
    <3>8. one \in Int /\ e \in Int /\ k \in Int /\ bc \in Int
      BY ONLY <1>11, <3>4, <3>7
    <3>9. k - e = b * (o - one) + bc * (s - d)
      BY ONLY <1>11, <3>4, <3>6, <3>7
    <3>10. Eq(k, e)
      <4>1. b \in Int /\ o \in Int /\ s \in Int /\ d \in Int /\ Eq(o, one) /\ Eq(s, d)
        BY <3>4, <3>5, <3>7
      <4> QED BY ONLY <3>8, <3>9, <4>1, Combine
    <3>11. 1 * f[a] + c * g[a] = k
      BY ONLY <1>11, <3>3, <3>4, <3>7
    <3> QED BY <3>3, <3>7, <3>10, <3>11, EqBasics
  <2>4. 1 \in Int
    OBVIOUS
  <2> QED BY <1>0, <1>11, <1>14, <2>2, <2>3, <2>4, SumLinear
<1>16. Eq(Sum(z, n), 1 * Sum(y, n) + 2 * Sum(w, n))
  <2>1. ASSUME NEW a \in 0 .. n - 1 PROVE z[a] = 1 * y[a] + 2 * w[a]
    <3>1. PICK b, s, t, k : b = x[a] /\ t = Sgn(a - j) /\ s = Sum(Waveform(n, a - j), m) /\ k = Kernel(n, a - j)
      OBVIOUS
    <3>2. b \in Int /\ s \in Int /\ t \in Int /\ k = 1 + t + 2 * s
      BY <1>1, <1>4, <3>1 DEF Kernel
    <3>3. z[a] = b * k /\ y[a] = b * (1 + t) /\ w[a] = b * s
      BY <1>8, <1>13, <3>1
    <3> QED BY ONLY <3>2, <3>3
  <2>2. \A a \in 0 .. n - 1 : Eq(z[a], 1 * y[a] + 2 * w[a])
    BY <2>1, EqBasics
  <2>3. 1 \in Int /\ 2 \in Int
    OBVIOUS
  <2> QED BY <1>0, <1>6, <1>14, <2>2, <2>3, SumLinear
<1>17. Eq(Sum(z, n), z[j])
  <2>1. ASSUME NEW a \in 0 .. n - 1, a # j PROVE Eq(z[a], 0)
    <3>1. PICK d \in Int : d = a - j
      BY <1>0
    <3>2. d % n # 0
      <4>1. d = n * (d \div n) + (d % n) /\ d \div n \in Int
        BY <1>0, RemFacts
      <4>2. PICK e \in Int : e = d \div n
        BY <4>1
      <4>3. SUFFICES ASSUME d = n * e PROVE FALSE
        <5>1. ASSUME d % n = 0 PROVE d = n * e
          BY ONLY <4>1, <4>2, <5>1, <1>0
        <5> QED BY <4>3, <5>1
      <4>4. d < n /\ -n < d /\ d # 0
        BY <1>0, <2>1, <3>1
      <4>5. n * e < n * 1 /\ n * (-1) < n * e
        BY ONLY <4>3, <4>4, <1>0
      <4>6. e < 1 /\ -1 < e
        BY ONLY <4>5, <1>0, e \in Int
      <4>7. e = 0
        BY <4>6
      <4> QED BY ONLY <4>3, <4>4, <4>7, <1>0
    <3>3. Eq(Kernel(n, d), 0)
      BY <3>2, KernelIs
    <3>4. PICK b, k, o : b = x[a] /\ k = Kernel(n, d) /\ o = 0
      OBVIOUS
    <3>5. b \in Int /\ k \in Int /\ o \in Int /\ Eq(k, o)
      BY <1>4, <3>1, <3>3, <3>4
    <3>6. Eq(b * k, b * o)
      BY ONLY <3>5, EqScaled
    <3>7. b * o = 0 /\ z[a] = b * k
      <4>1. b * o = 0
        BY ONLY <3>4, <3>5
      <4> QED BY <1>13, <3>1, <3>4, <4>1
    <3> QED BY <3>6, <3>7
  <2> QED BY <1>0, <1>14, <2>1, SumSingle
<1>18. Eq(z[j], n * x[j])
  <2>1. j - j = 0 /\ 0 \in Int /\ 0 % n = 0
    BY <1>0, RemSmall
  <2>2. Eq(Kernel(n, 0), n)
    BY <2>1, KernelIs
  <2>3. PICK b, k : b = x[j] /\ k = Kernel(n, 0)
    OBVIOUS
  <2>4. b \in Int /\ k \in Int /\ n \in Int /\ Eq(k, n)
    BY <1>0, <1>4, <2>1, <2>2, <2>3
  <2>5. Eq(b * k, b * n)
    BY ONLY <2>4, EqScaled
  <2>6. b * n = n * b /\ z[j] = b * k
    <3>1. b * n = n * b
      BY ONLY <2>4
    <3> QED BY <1>13, <2>1, <2>3, <3>1
  <2> QED BY <2>3, <2>5, <2>6
<1>19. PICK a0, ah, s, sw, sy, o, u : /\ a0 = v[0] /\ ah = v[h] /\ s = Sum(bt, m) /\ sw = Sum(w, n) /\ sy = Sum(y, n)
                                   /\ o = HC2R(n, v)[j] /\ u = a0 + c * ah + 2 * s
  OBVIOUS
<1>20. o \in Field /\ o \in Int /\ Eq(o, u)
  BY <1>1, <1>10, <1>19, HC2RIs
<1>21. a0 \in Int /\ ah \in Int /\ s \in Int /\ sw \in Int /\ sy \in Int /\ Eq(s, sw)
  BY <1>0, <1>2, <1>6, <1>9, <1>11, <1>14, <1>19, SumIs
<1>22. PICK u1, u2 : u1 = p + c * q + 2 * s /\ u2 = sy + 2 * sw
  OBVIOUS
<1>23. u \in Int /\ u1 \in Int /\ u2 \in Int
  BY ONLY <1>11, <1>19, <1>21, <1>22
<1>24. Eq(u, u1)
  <2>1. u - u1 = (a0 - p) + c * (ah - q)
    BY ONLY <1>11, <1>19, <1>21, <1>22
  <2>2. a0 \in Int /\ p \in Int /\ ah \in Int /\ q \in Int /\ c \in Int /\ Eq(a0, p) /\ Eq(ah, q)
    BY <1>11, <1>19
  <2> QED BY ONLY <1>23, <2>1, <2>2, CombineOne
<1>25. Eq(u1, u2)
  <2>1. PICK r, two : r = 1 * p + c * q /\ two = 2
    OBVIOUS
  <2>2. r \in Int /\ two \in Int
    BY ONLY <1>11, <2>1
  <2>3. u1 - u2 = (r - sy) + two * (s - sw)
    BY ONLY <1>11, <1>21, <1>22, <2>1
  <2>4. Eq(r, sy)
    BY <1>15, <1>19, <2>1, EqBasics
  <2> QED BY ONLY <1>21, <1>23, <2>2, <2>3, <2>4, CombineOne
<1>26. Eq(u2, z[j])
  <2>1. 1 * sy + 2 * sw = u2
    BY ONLY <1>21, <1>22
  <2> QED BY <1>16, <1>17, <1>19, <2>1, EqBasics
<1> QED BY <1>18, <1>19, <1>20, <1>24, <1>25, <1>26, EqBasics

-----------------------------------------------------------------------------
(* Circular convolution.                                                   *)

CycTerms(n, x, h, m) == [b \in 0 .. n - 1 |-> h[b] * x[(m - b) % n]]
Cyc(n, x, h) == [m \in 0 .. n - 1 |-> Sum(CycTerms(n, x, h, m), n)]

LEMMA CycIs ==
  ASSUME NEW n \in Nat \ {0}, NEW x, Ints(x, n), NEW h, Ints(h, n)
  PROVE  /\ Ints(Cyc(n, x, h), n)
         /\ \A m \in 0 .. n - 1 : Ints(CycTerms(n, x, h, m), n) /\ Cyc(n, x, h)[m] = Sum(CycTerms(n, x, h, m), n)
<1>1. ASSUME NEW m \in 0 .. n - 1, NEW b \in 0 .. n - 1
      PROVE  (m - b) % n \in 0 .. n - 1 /\ h[b] * x[(m - b) % n] \in Int
  <2>1. PICK d \in Int : d = m - b
    OBVIOUS
  <2>2. d % n \in 0 .. n - 1
    BY RemFacts
  <2>3. h[b] \in Int /\ x[d % n] \in Int
    BY <2>2 DEF Ints
  <2>4. h[b] * x[d % n] \in Int
    BY ONLY <2>3
  <2> QED BY <2>1, <2>2, <2>4
<1>2. \A m \in 0 .. n - 1 : Ints(CycTerms(n, x, h, m), n)
  BY <1>1 DEF Ints, CycTerms
<1>3. \A m \in 0 .. n - 1 : Sum(CycTerms(n, x, h, m), n) \in Int
  BY <1>2, SumIs
<1> QED BY <1>2, <1>3 DEF Ints, Cyc

Times(n, f, a, b) == \A m \in 0 .. n - 1 : f[m] = a[m] * b[m]
Turns(n, x, e, p, q, X, Y, s) ==
  \A b \in 0 .. n - 1 : /\ s[b] = [m \in 0 .. n - 1 |-> x[m] * e[(m + b) % n]]
                        /\ Eq(Sum(s[b], n), p[b] * X + q[b] * Y)

\* A wave through a circular convolution.
LEMMA CycWave ==
  ASSUME NEW n \in Nat \ {0}, NEW x, Ints(x, n), NEW h, Ints(h, n), NEW e, Ints(e, n),
         NEW p, Ints(p, n), NEW q, Ints(q, n), NEW X \in Int, NEW Y \in Int,
         NEW turned, Turns(n, x, e, p, q, X, Y, turned),
         NEW f, Ints(f, n), Times(n, f, Cyc(n, x, h), e),
         NEW hp, Ints(hp, n), Times(n, hp, h, p),
         NEW hq, Ints(hq, n), Times(n, hq, h, q)
  PROVE  Eq(Sum(f, n), X * Sum(hp, n) + Y * Sum(hq, n))
<1>0. /\ \A b \in 0 .. n - 1 : /\ turned[b] = [m \in 0 .. n - 1 |-> x[m] * e[(m + b) % n]]
                              /\ Eq(Sum(turned[b], n), p[b] * X + q[b] * Y)
      /\ \A m \in 0 .. n - 1 : f[m] = Cyc(n, x, h)[m] * e[m]
      /\ \A b \in 0 .. n - 1 : hp[b] = h[b] * p[b] /\ hq[b] = h[b] * q[b]
  BY DEF Turns, Times
<1> DEFINE rows == [m \in 0 .. n - 1 |-> [b \in 0 .. n - 1 |-> e[m] * (h[b] * x[(m - b) % n])]]
           cols == [b \in 0 .. n - 1 |-> [m \in 0 .. n - 1 |-> e[m] * (h[b] * x[(m - b) % n])]]
           g == [b \in 0 .. n - 1 |-> h[b] * (p[b] * X + q[b] * Y)]
<1>1. ASSUME NEW m \in 0 .. n - 1, NEW b \in 0 .. n - 1
      PROVE  /\ (m - b) % n \in 0 .. n - 1 /\ e[m] \in Int /\ h[b] \in Int /\ x[(m - b) % n] \in Int
             /\ h[b] * x[(m - b) % n] \in Int
             /\ e[m] * (h[b] * x[(m - b) % n]) \in Int
             /\ rows[m][b] = e[m] * (h[b] * x[(m - b) % n])
             /\ cols[b][m] = e[m] * (h[b] * x[(m - b) % n])
  <2>1. PICK d \in Int : d = m - b
    OBVIOUS
  <2>2. d % n \in 0 .. n - 1
    BY RemFacts
  <2>3. h[b] \in Int /\ x[d % n] \in Int /\ e[m] \in Int
    BY <2>2 DEF Ints
  <2>4. h[b] * x[d % n] \in Int /\ e[m] * (h[b] * x[d % n]) \in Int
    BY ONLY <2>3
  <2> QED BY <2>1, <2>2, <2>3, <2>4
<1>2. \A b \in 0 .. n - 1 : g[b] = h[b] * (p[b] * X + q[b] * Y)
  OBVIOUS
<1> HIDE DEF rows, cols, g
<1>3. \A m, b \in 0 .. n - 1 : Eq(cols[b][m], rows[m][b])
  BY <1>1, EqBasics
<1>4. ASSUME NEW m \in 0 .. n - 1 PROVE Ints(rows[m], n) /\ Eq(f[m], Sum(rows[m], n))
  <2>1. Ints(rows[m], n)
    <3>1. \A b \in 0 .. n - 1 : rows[m][b] \in Int
      BY ONLY <1>1, m \in 0 .. n - 1
    <3> QED BY ONLY <3>1 DEF Ints
  <2>2. PICK t, a, r : t = CycTerms(n, x, h, m) /\ a = e[m] /\ r = rows[m]
    OBVIOUS
  <2>3. Ints(t, n) /\ Ints(r, n) /\ a \in Int
    BY <2>1, <2>2, CycIs DEF Ints
  <2>4. \A b \in 0 .. n - 1 : Eq(r[b], a * t[b])
    <3> TAKE b \in 0 .. n - 1
    <3>1. t[b] = h[b] * x[(m - b) % n]
      BY <2>2 DEF CycTerms
    <3>2. r[b] = a * t[b]
      BY <1>1, <2>2, <3>1
    <3> QED BY <3>2, EqBasics
  <2>5. Eq(Sum(r, n), a * Sum(t, n))
    BY <2>3, <2>4, SumScaled
  <2>6. f[m] = Sum(t, n) * a /\ Sum(t, n) \in Int
    <3>1. Cyc(n, x, h)[m] = Sum(t, n)
      BY ONLY <2>2, n \in Nat \ {0}, Ints(x, n), Ints(h, n), m \in 0 .. n - 1, CycIs
    <3>2. f[m] = Cyc(n, x, h)[m] * e[m]
      BY <1>0
    <3>3. Sum(t, n) \in Int
      BY <2>3, SumIs
    <3> QED BY ONLY <2>2, <3>1, <3>2, <3>3
  <2>7. Sum(t, n) * a = a * Sum(t, n)
    BY ONLY <2>3, <2>6
  <2> QED BY <2>1, <2>2, <2>5, <2>6, <2>7, EqBasics
<1>5. ASSUME NEW b \in 0 .. n - 1 PROVE p[b] \in Int /\ q[b] \in Int /\ h[b] \in Int /\ p[b] * X + q[b] * Y \in Int /\ g[b] \in Int
  <2>1. p[b] \in Int /\ q[b] \in Int /\ h[b] \in Int
    BY DEF Ints
  <2>2. p[b] * X + q[b] * Y \in Int
    BY ONLY <2>1, X \in Int, Y \in Int
  <2>3. h[b] * (p[b] * X + q[b] * Y) \in Int
    BY ONLY <2>1, <2>2
  <2> QED BY <1>2, <2>1, <2>2, <2>3
<1>6. ASSUME NEW b \in 0 .. n - 1 PROVE Ints(cols[b], n) /\ Eq(g[b], Sum(cols[b], n))
  <2>1. Ints(cols[b], n)
    BY <1>1 DEF Ints
  <2>2. PICK y, c, a, v : y = turned[b] /\ c = cols[b] /\ a = h[b] /\ v = p[b] * X + q[b] * Y
    OBVIOUS
  <2> DEFINE s == [m \in 0 .. n - 1 |-> y[(m - b) % n]]
  <2>3. y = [m \in 0 .. n - 1 |-> x[m] * e[(m + b) % n]] /\ Eq(Sum(y, n), v) /\ a \in Int /\ v \in Int /\ Ints(c, n)
    BY <1>0, <1>5, <2>1, <2>2
  <2>4. Ints(y, n)
    <3>1. SUFFICES ASSUME NEW m \in 0 .. n - 1 PROVE x[m] * e[(m + b) % n] \in Int
      BY <2>3 DEF Ints
    <3>2. PICK d \in Int : d = m + b
      OBVIOUS
    <3>3. d % n \in 0 .. n - 1
      BY RemFacts
    <3>4. x[m] \in Int /\ e[d % n] \in Int
      BY <3>3 DEF Ints
    <3>5. x[m] * e[d % n] \in Int
      BY ONLY <3>4
    <3> QED BY <3>2, <3>5
  <2>5. \A m \in 0 .. n - 1 : s[m] = y[(m - b) % n]
    OBVIOUS
  <2> HIDE DEF s
  <2>6. Ints(s, n) /\ Eq(Sum(s, n), Sum(y, n))
    BY <2>4, <2>5, SumRotate
  <2>7. ASSUME NEW m \in 0 .. n - 1 PROVE c[m] = a * s[m]
    <3>1. PICK d \in Int, o \in Int : d = m - b /\ o = d % n
      OBVIOUS
    <3>2. o \in 0 .. n - 1
      BY <3>1, RemFacts
    <3>3. (o + b) % n = m
      <4>1. b \in Int
        OBVIOUS
      <4>2. ((d % n) + b) % n = (d + b) % n
        BY <4>1, RemTimes
      <4>3. d + b = m
        BY <3>1
      <4> QED BY <3>1, <4>2, <4>3, RemSmall
    <3>4. s[m] = x[o] * e[m]
      BY <2>3, <2>5, <3>1, <3>2, <3>3
    <3>5. c[m] = e[m] * (a * x[o]) /\ x[o] \in Int /\ e[m] \in Int
      BY <1>1, <2>2, <3>1
    <3>6. e[m] * (a * x[o]) = a * (x[o] * e[m])
      BY ONLY <2>3, <3>5
    <3> QED BY <3>4, <3>5, <3>6
  <2>8. Eq(Sum(c, n), a * Sum(s, n))
    <3>1. \A m \in 0 .. n - 1 : Eq(c[m], a * s[m])
      BY <2>7, EqBasics
    <3> QED BY <2>3, <2>6, <3>1, SumScaled
  <2>9. PICK u : u = Sum(s, n)
    OBVIOUS
  <2>10. u \in Int /\ Eq(u, v)
    BY <2>3, <2>6, <2>9, SumIs, EqBasics
  <2>11. Eq(a * u, a * v)
    BY ONLY <2>3, <2>10, EqScaled
  <2>12. g[b] = a * v
    BY <1>2, <2>2
  <2> QED BY <2>1, <2>2, <2>8, <2>9, <2>11, <2>12, EqBasics
<1>7. Ints(g, n)
  BY <1>5 DEF Ints
<1>8. Eq(Sum(f, n), Sum(g, n))
  BY <1>3, <1>4, <1>6, <1>7, SumSwap
<1>9. \A b \in 0 .. n - 1 : Eq(g[b], X * hp[b] + Y * hq[b])
  <2> TAKE b \in 0 .. n - 1
  <2>1. PICK u, v, a : u = p[b] /\ v = q[b] /\ a = h[b]
    OBVIOUS
  <2>2. u \in Int /\ v \in Int /\ a \in Int
    BY <1>5, <2>1
  <2>3. a * (u * X + v * Y) = X * (a * u) + Y * (a * v)
    BY ONLY <2>2, X \in Int, Y \in Int
  <2>4. g[b] = a * (u * X + v * Y) /\ hp[b] = a * u /\ hq[b] = a * v
    BY <1>0, <1>2, <2>1
  <2> QED BY <2>3, <2>4, EqBasics
<1>10. Eq(Sum(g, n), X * Sum(hp, n) + Y * Sum(hq, n))
  BY <1>7, <1>9, SumLinear
<1> QED BY <1>8, <1>10, EqBasics

\* The tables one period on, turned by b.
LEMMA TrigTurned ==
  ASSUME NEW l \in Lengths, NEW n \in Transforms, NEW k \in Int, NEW m \in 0 .. n - 1, NEW b \in 0 .. n - 1
  PROVE  /\ (m + b) % n \in 0 .. n - 1 /\ m * k \in Int /\ b * k \in Int
         /\ Eq(CC(n, ((m + b) % n) * k), CC(n, m * k) * CC(n, b * k) - SS(n, m * k) * SS(n, b * k))
         /\ Eq(SS(n, ((m + b) % n) * k), SS(n, m * k) * CC(n, b * k) + CC(n, m * k) * SS(n, b * k))
<1>0. n \in Nat \ {0}
  BY TransformIs
<1>1. PICK d, c \in Int : d = m + b /\ c = d % n
  <2>1. m + b \in Int /\ (m + b) % n \in Int
    BY <1>0
  <2> QED BY <2>1
<1>2. c \in 0 .. n - 1 /\ d \in Int
  BY <1>0, <1>1, RemFacts
<1>3. PICK u, v : u = m * k /\ v = b * k
  OBVIOUS
<1>4. u \in Int /\ v \in Int /\ d * k = u + v /\ c * k = k * c /\ d * k = k * d
  BY ONLY <1>0, <1>1, <1>2, <1>3, k \in Int, m \in 0 .. n - 1, b \in 0 .. n - 1
<1>5. (c * k) % n = (u + v) % n
  <2>1. (k * (d % n)) % n = (k * d) % n
    BY <1>0, <1>2, RemTimes
  <2> QED BY <1>1, <1>4, <2>1
<1>6. CC(n, c * k) = CC(n, u + v) /\ SS(n, c * k) = SS(n, u + v)
  BY <1>5, TrigRounds
<1>7. /\ Eq(CC(n, u + v), CC(n, u) * CC(n, v) - SS(n, u) * SS(n, v))
      /\ Eq(SS(n, u + v), SS(n, u) * CC(n, v) + CC(n, u) * SS(n, v))
  BY <1>4, TrigAdds
<1> QED BY <1>1, <1>2, <1>3, <1>4, <1>6, <1>7

\* The spectrum of a circular convolution is the product of the spectra.
LEMMA CycParts ==
  ASSUME NEW l \in Lengths, NEW n \in Transforms, NEW x, Ints(x, n), NEW h, Ints(h, n), NEW k \in Int
  PROVE  /\ Eq(Re(n, Cyc(n, x, h), k), Re(n, x, k) * Re(n, h, k) - Im(n, x, k) * Im(n, h, k))
         /\ Eq(Im(n, Cyc(n, x, h), k), Im(n, x, k) * Re(n, h, k) + Re(n, x, k) * Im(n, h, k))
<1>0. n \in Nat \ {0} /\ n \in Nat
  BY TransformIs
<1> DEFINE ec == [m \in 0 .. n - 1 |-> CC(n, m * k)]
           es == [m \in 0 .. n - 1 |-> SS(n, m * k)]
           tc == [b \in 0 .. n - 1 |-> [m \in 0 .. n - 1 |-> x[m] * ec[(m + b) % n]]]
           ts == [b \in 0 .. n - 1 |-> [m \in 0 .. n - 1 |-> x[m] * es[(m + b) % n]]]
<1>1. PICK y : y = Cyc(n, x, h)
  OBVIOUS
<1>2. Ints(y, n)
  BY <1>0, <1>1, CycIs
<1>3. PICK X, Y, U, V, Z : X = Re(n, x, k) /\ Y = Im(n, x, k) /\ U = Re(n, h, k) /\ V = Im(n, h, k) /\ Z = -Y
  OBVIOUS
<1>4. X \in Int /\ Y \in Int /\ U \in Int /\ V \in Int /\ Z \in Int
  <2>1. X \in Int /\ Y \in Int /\ U \in Int /\ V \in Int
    BY <1>3, PartsAre
  <2> QED BY <1>3, <2>1
<1>5. PICK fc, fs, gc, gs, hc, hs : /\ fc = ReTerms(n, x, k) /\ fs = ImTerms(n, x, k)
                                    /\ gc = ReTerms(n, y, k) /\ gs = ImTerms(n, y, k)
                                    /\ hc = ReTerms(n, h, k) /\ hs = ImTerms(n, h, k)
  OBVIOUS
<1>6. /\ Ints(fc, n) /\ Ints(fs, n) /\ X = Sum(fc, n) /\ Y = Sum(fs, n)
      /\ Ints(gc, n) /\ Ints(gs, n) /\ Ints(hc, n) /\ Ints(hs, n) /\ U = Sum(hc, n) /\ V = Sum(hs, n)
      /\ Re(n, y, k) = Sum(gc, n) /\ Im(n, y, k) = Sum(gs, n)
  <2>1. Ints(fc, n) /\ Ints(fs, n)
    BY <1>5, PartsAre
  <2>2. Ints(gc, n) /\ Ints(gs, n)
    BY <1>2, <1>5, PartsAre
  <2>3. Ints(hc, n) /\ Ints(hs, n)
    BY <1>5, PartsAre
  <2> QED BY <1>3, <1>5, <2>1, <2>2, <2>3 DEF Re, Im
<1>7. ASSUME NEW m \in 0 .. n - 1 PROVE m * k \in Int /\ ec[m] \in Int /\ es[m] \in Int
  <2>1. m * k \in Int
    BY ONLY <1>0, m \in 0 .. n - 1, k \in Int
  <2>2. CC(n, m * k) \in Int /\ SS(n, m * k) \in Int
    BY <2>1, TrigIs
  <2> QED BY <2>1, <2>2
<1>8. Ints(ec, n) /\ Ints(es, n)
  BY <1>7 DEF Ints
<1>9. /\ \A m \in 0 .. n - 1 : ec[m] = CC(n, m * k) /\ es[m] = SS(n, m * k)
      /\ \A m \in 0 .. n - 1 : gc[m] = y[m] * ec[m] /\ gs[m] = y[m] * es[m]
      /\ \A m \in 0 .. n - 1 : hc[m] = h[m] * ec[m] /\ hs[m] = h[m] * es[m]
      /\ \A m \in 0 .. n - 1 : fc[m] = x[m] * ec[m] /\ fs[m] = x[m] * es[m]
  BY <1>5 DEF ReTerms, ImTerms
<1>10. \A b \in 0 .. n - 1 : /\ tc[b] = [m \in 0 .. n - 1 |-> x[m] * ec[(m + b) % n]]
                             /\ ts[b] = [m \in 0 .. n - 1 |-> x[m] * es[(m + b) % n]]
  OBVIOUS
<1> HIDE DEF ec, es, tc, ts
<1>11. ASSUME NEW b \in 0 .. n - 1
       PROVE  /\ Eq(Sum(tc[b], n), ec[b] * X + es[b] * Z)
              /\ Eq(Sum(ts[b], n), ec[b] * Y + es[b] * X)
  <2>1. PICK p, q, r, s, t : p = ec[b] /\ q = es[b] /\ r = -q /\ s = tc[b] /\ t = ts[b]
    OBVIOUS
  <2>2. p \in Int /\ q \in Int /\ r \in Int
    <3>1. p \in Int /\ q \in Int
      BY <1>7, <2>1
    <3> QED BY <2>1, <3>1
  <2>3. ASSUME NEW m \in 0 .. n - 1
        PROVE  /\ s[m] \in Int /\ t[m] \in Int
               /\ Eq(s[m], p * fc[m] + r * fs[m]) /\ Eq(t[m], p * fs[m] + q * fc[m])
    <3>1. PICK o, a, c, d, u, v : /\ o = (m + b) % n /\ a = x[m] /\ c = ec[m] /\ d = es[m] /\ u = ec[o] /\ v = es[o]
      OBVIOUS
    <3>2. o \in 0 .. n - 1
      BY <3>1, TrigTurned
    <3>3. a \in Int /\ c \in Int /\ d \in Int /\ u \in Int /\ v \in Int
      BY <1>7, <3>1, <3>2 DEF Ints
    <3>4. Eq(u, c * p - d * q) /\ Eq(v, d * p + c * q)
      <4>1. /\ Eq(CC(n, o * k), CC(n, m * k) * CC(n, b * k) - SS(n, m * k) * SS(n, b * k))
            /\ Eq(SS(n, o * k), SS(n, m * k) * CC(n, b * k) + CC(n, m * k) * SS(n, b * k))
        BY <3>1, TrigTurned
      <4> QED BY <1>9, <2>1, <3>1, <3>2, <4>1
    <3>5. PICK uu, vv : uu = c * p - d * q /\ vv = d * p + c * q
      OBVIOUS
    <3>6. /\ uu \in Int /\ vv \in Int /\ a * u \in Int /\ a * v \in Int
          /\ a * uu = p * (a * c) + r * (a * d) /\ a * vv = p * (a * d) + q * (a * c)
      <4>1. r = -q
        BY <2>1
      <4>2. uu \in Int /\ vv \in Int /\ a * u \in Int /\ a * v \in Int
        BY ONLY <2>2, <3>3, <3>5
      <4>3. a * uu = p * (a * c) + r * (a * d)
        BY ONLY <2>2, <3>3, <3>5, <4>1
      <4>4. a * vv = p * (a * d) + q * (a * c)
        BY ONLY <2>2, <3>3, <3>5
      <4> QED BY <4>2, <4>3, <4>4
    <3>7. Eq(u, uu) /\ Eq(v, vv)
      BY <3>4, <3>5
    <3>8. Eq(a * u, a * uu) /\ Eq(a * v, a * vv)
      BY ONLY <3>3, <3>6, <3>7, EqScaled
    <3>9. s[m] = a * u /\ t[m] = a * v /\ fc[m] = a * c /\ fs[m] = a * d
      <4>1. /\ s = [i \in 0 .. n - 1 |-> x[i] * ec[(i + b) % n]]
            /\ t = [i \in 0 .. n - 1 |-> x[i] * es[(i + b) % n]]
        BY <1>10, <2>1
      <4>2. s[m] = x[m] * ec[(m + b) % n] /\ t[m] = x[m] * es[(m + b) % n]
        BY ONLY <4>1, m \in 0 .. n - 1
      <4>3. fc[m] = x[m] * ec[m] /\ fs[m] = x[m] * es[m]
        BY <1>9
      <4> QED BY ONLY <3>1, <4>2, <4>3
    <3> QED BY <3>6, <3>8, <3>9
  <2>4. Ints(s, n) /\ Ints(t, n)
    BY <2>3 DEF Ints
  <2>5. Eq(Sum(s, n), p * X + r * Y)
    BY <1>0, <1>6, <2>2, <2>3, <2>4, SumLinear
  <2>6. Eq(Sum(t, n), p * Y + q * X)
    BY <1>0, <1>6, <2>2, <2>3, <2>4, SumLinear
  <2>7. r * Y = q * Z
    BY ONLY <1>3, <1>4, <2>1, <2>2
  <2> QED BY <2>1, <2>5, <2>6, <2>7
<1>12. Eq(Sum(gc, n), X * Sum(hc, n) + Z * Sum(hs, n))
  <2>1. Turns(n, x, ec, ec, es, X, Z, tc)
    BY <1>10, <1>11 DEF Turns
  <2>2. Times(n, gc, Cyc(n, x, h), ec) /\ Times(n, hc, h, ec) /\ Times(n, hs, h, es)
    BY <1>1, <1>9 DEF Times
  <2>3. Ints(gc, n) /\ Ints(hc, n) /\ Ints(hs, n)
    BY <1>6
  <2> QED BY ONLY <1>0, <1>4, <1>8, <2>1, <2>2, <2>3, Ints(x, n), Ints(h, n), CycWave
<1>13. Eq(Sum(gs, n), Y * Sum(hc, n) + X * Sum(hs, n))
  <2>1. Turns(n, x, es, ec, es, Y, X, ts)
    BY <1>10, <1>11 DEF Turns
  <2>2. Times(n, gs, Cyc(n, x, h), es) /\ Times(n, hc, h, ec) /\ Times(n, hs, h, es)
    BY <1>1, <1>9 DEF Times
  <2>3. Ints(gs, n) /\ Ints(hc, n) /\ Ints(hs, n)
    BY <1>6
  <2> QED BY ONLY <1>0, <1>4, <1>8, <2>1, <2>2, <2>3, Ints(x, n), Ints(h, n), CycWave
<1>14. X * U + Z * V = X * U - Y * V
  BY ONLY <1>3, <1>4
<1> QED BY <1>1, <1>3, <1>6, <1>12, <1>13, <1>14

-----------------------------------------------------------------------------
(* The spectra of sums and multiples.                                      *)

LEMMA PartsLinear ==
  ASSUME NEW l \in Lengths, NEW n \in Transforms, NEW x, Ints(x, n), NEW y, Ints(y, n), NEW z, Ints(z, n),
         NEW a \in Int, NEW b \in Int, \A i \in 0 .. n - 1 : Eq(z[i], a * x[i] + b * y[i]), NEW k \in Int
  PROVE  /\ Eq(Re(n, z, k), a * Re(n, x, k) + b * Re(n, y, k))
         /\ Eq(Im(n, z, k), a * Im(n, x, k) + b * Im(n, y, k))
<1>0. n \in Nat
  BY TransformIs
<1>1. PICK xr, xi, yr, yi, zr, zi : /\ xr = ReTerms(n, x, k) /\ xi = ImTerms(n, x, k)
                                    /\ yr = ReTerms(n, y, k) /\ yi = ImTerms(n, y, k)
                                    /\ zr = ReTerms(n, z, k) /\ zi = ImTerms(n, z, k)
  OBVIOUS
<1>2. Ints(xr, n) /\ Ints(xi, n) /\ Ints(yr, n) /\ Ints(yi, n) /\ Ints(zr, n) /\ Ints(zi, n)
  <2>1. Ints(xr, n) /\ Ints(xi, n)
    BY <1>1, PartsAre
  <2>2. Ints(yr, n) /\ Ints(yi, n)
    BY <1>1, PartsAre
  <2>3. Ints(zr, n) /\ Ints(zi, n)
    BY <1>1, PartsAre
  <2> QED BY <2>1, <2>2, <2>3
<1>3. ASSUME NEW i \in 0 .. n - 1 PROVE Eq(zr[i], a * xr[i] + b * yr[i]) /\ Eq(zi[i], a * xi[i] + b * yi[i])
  <2>1. PICK c, s, p, q, r, t : c = CC(n, i * k) /\ s = SS(n, i * k) /\ p = x[i] /\ q = y[i] /\ r = z[i] /\ t = a * x[i] + b * y[i]
    OBVIOUS
  <2>2. p \in Int /\ q \in Int /\ r \in Int /\ t = a * p + b * q /\ Eq(r, t)
    BY <2>1 DEF Ints
  <2>3. c \in Int /\ s \in Int /\ t \in Int
    <3>1. i * k \in Int
      BY ONLY <1>0, i \in 0 .. n - 1, k \in Int
    <3>2. t \in Int
      BY ONLY <2>2, a \in Int, b \in Int
    <3> QED BY <2>1, <3>1, <3>2, TrigIs
  <2>4. Eq(r * c, t * c) /\ Eq(r * s, t * s)
    BY <2>2, <2>3, EqScaled
  <2>5. t * c = a * (p * c) + b * (q * c)
    BY ONLY <2>2, <2>3, a \in Int, b \in Int
  <2>6. t * s = a * (p * s) + b * (q * s)
    BY ONLY <2>2, <2>3, a \in Int, b \in Int
  <2>7. zr[i] = r * c /\ zi[i] = r * s /\ xr[i] = p * c /\ xi[i] = p * s /\ yr[i] = q * c /\ yi[i] = q * s
    BY <1>1, <2>1 DEF ReTerms, ImTerms
  <2> QED BY <2>4, <2>5, <2>6, <2>7
<1>4. Eq(Sum(zr, n), a * Sum(xr, n) + b * Sum(yr, n))
  BY <1>0, <1>2, <1>3, SumLinear
<1>5. Eq(Sum(zi, n), a * Sum(xi, n) + b * Sum(yi, n))
  BY <1>0, <1>2, <1>3, SumLinear
<1> QED BY <1>1, <1>4, <1>5 DEF Re, Im

LEMMA SpectralIs ==
  ASSUME NEW l \in Lengths, NEW n \in Transforms, NEW x, Ints(x, n), NEW k \in Int
  PROVE  Spectral(n, x, k) \in Int
<1>1. n \in Int /\ n - k \in Int
  BY TransformIs
<1>2. Re(n, x, k) \in Int /\ Im(n, x, n - k) \in Int
  BY <1>1, PartsAre
<1> QED BY <1>2 DEF Spectral

LEMMA SpectralLinear ==
  ASSUME NEW l \in Lengths, NEW n \in Transforms, NEW x, Ints(x, n), NEW y, Ints(y, n), NEW z, Ints(z, n),
         NEW a \in Int, NEW b \in Int, \A i \in 0 .. n - 1 : Eq(z[i], a * x[i] + b * y[i]), NEW k \in Int
  PROVE  Eq(Spectral(n, z, k), a * Spectral(n, x, k) + b * Spectral(n, y, k))
<1>1. n - k \in Int
  BY TransformIs
<1>2. Eq(Re(n, z, k), a * Re(n, x, k) + b * Re(n, y, k))
  BY PartsLinear
<1>3. Eq(Im(n, z, n - k), a * Im(n, x, n - k) + b * Im(n, y, n - k))
  BY <1>1, PartsLinear
<1>4. CASE k <= n \div 2
  BY <1>2, <1>4 DEF Spectral
<1>5. CASE ~(k <= n \div 2)
  <2>1. PICK p, q, r, t : p = Im(n, x, n - k) /\ q = Im(n, y, n - k) /\ r = Im(n, z, n - k) /\ t = a * p + b * q
    OBVIOUS
  <2>2. p \in Int /\ q \in Int /\ r \in Int
    <3>1. p \in Int
      BY <1>1, <2>1, PartsAre
    <3>2. q \in Int
      BY <1>1, <2>1, PartsAre
    <3>3. r \in Int
      BY <1>1, <2>1, PartsAre
    <3> QED BY <3>1, <3>2, <3>3
  <2>3. t \in Int /\ -t = a * (-p) + b * (-q)
    BY ONLY <2>1, <2>2, a \in Int, b \in Int
  <2>4. Eq(r, t)
    BY <1>3, <2>1
  <2>5. Eq(-r, -t)
    BY ONLY <2>2, <2>3, <2>4, EqLaws
  <2> QED BY <1>5, <2>1, <2>3, <2>5 DEF Spectral
<1> QED BY <1>4, <1>5

LEMMA SpectralEq ==
  ASSUME NEW l \in Lengths, NEW n \in Transforms, NEW x, Ints(x, n), NEW y, Ints(y, n),
         \A i \in 0 .. n - 1 : Eq(y[i], x[i]), NEW k \in Int
  PROVE  Eq(Spectral(n, y, k), Spectral(n, x, k))
<1>1. PICK a, b : a = 1 /\ b = 0
  OBVIOUS
<1>2. a \in Int /\ b \in Int
  BY <1>1
<1>3. \A u \in Int : a * u + b * u = u
  BY ONLY <1>1
<1>4. \A i \in 0 .. n - 1 : Eq(y[i], a * x[i] + b * x[i])
  BY <1>3 DEF Ints
<1>5. Eq(Spectral(n, y, k), a * Spectral(n, x, k) + b * Spectral(n, x, k))
  BY <1>2, <1>4, SpectralLinear
<1>6. Spectral(n, x, k) \in Int
  BY SpectralIs
<1> QED BY <1>3, <1>5, <1>6

\* Entry i of a mix of N vectors.
MixTerms(xs, scales, N, i) == [c \in 0 .. N - 1 |-> xs[c + 1][i] * scales[c + 1]]
Vectors(xs, scales, N, n) == \A c \in 1 .. N : Ints(xs[c], n) /\ scales[c] \in Int

LEMMA MixTermsAre ==
  ASSUME NEW N \in Nat, NEW n \in Nat, NEW xs, NEW scales, Vectors(xs, scales, N, n), NEW i \in 0 .. n - 1
  PROVE  Ints(MixTerms(xs, scales, N, i), N) /\ Sum(MixTerms(xs, scales, N, i), N) \in Int
<1>1. ASSUME NEW c \in 0 .. N - 1 PROVE MixTerms(xs, scales, N, i)[c] \in Int
  <2>1. c + 1 \in 1 .. N
    OBVIOUS
  <2>2. xs[c + 1][i] \in Int /\ scales[c + 1] \in Int
    BY <2>1 DEF Vectors, Ints
  <2>3. xs[c + 1][i] * scales[c + 1] \in Int
    BY ONLY <2>2
  <2> QED BY <2>3 DEF MixTerms
<1>2. Ints(MixTerms(xs, scales, N, i), N)
  BY <1>1 DEF Ints
<1> QED BY <1>2, SumIs

LEMMA SpectralMix ==
  ASSUME NEW l \in Lengths, NEW n \in Transforms, NEW N \in Nat, NEW xs, NEW scales, Vectors(xs, scales, N, n),
         NEW y, Ints(y, n), \A i \in 0 .. n - 1 : Eq(y[i], Sum(MixTerms(xs, scales, N, i), N)),
         NEW k \in Int, NEW f, \A c \in 0 .. N - 1 : f[c] = Spectral(n, xs[c + 1], k) * scales[c + 1]
  PROVE  Ints(f, N) /\ Eq(Spectral(n, y, k), Sum(f, N))
<1>0. n \in Nat
  BY TransformIs
<1> DEFINE Y(m) == [i \in 0 .. n - 1 |-> Sum(MixTerms(xs, scales, N, i), m)]
           S == {m \in Nat : m <= N => Eq(Spectral(n, Y(m), k), Sum(f, m))}
<1>1. ASSUME NEW m \in Nat, m <= N, NEW i \in 0 .. n - 1
      PROVE  Ints(MixTerms(xs, scales, N, i), m) /\ Y(m)[i] \in Int /\ Y(m)[i] = Sum(MixTerms(xs, scales, N, i), m)
  <2>1. Ints(MixTerms(xs, scales, N, i), N)
    BY <1>0, MixTermsAre
  <2>2. Ints(MixTerms(xs, scales, N, i), m)
    BY <1>1, <2>1 DEF Ints
  <2> QED BY <2>2, SumIs
<1>2. ASSUME NEW m \in Nat, m <= N PROVE Ints(Y(m), n)
  BY <1>1, <1>2 DEF Ints
<1>3. ASSUME NEW c \in 0 .. N - 1
      PROVE  /\ Ints(xs[c + 1], n) /\ scales[c + 1] \in Int /\ f[c] \in Int /\ Spectral(n, xs[c + 1], k) \in Int
             /\ f[c] = Spectral(n, xs[c + 1], k) * scales[c + 1]
  <2>1. Ints(xs[c + 1], n) /\ scales[c + 1] \in Int
    BY DEF Vectors
  <2>2. Spectral(n, xs[c + 1], k) \in Int
    BY <2>1, SpectralIs
  <2>3. Spectral(n, xs[c + 1], k) * scales[c + 1] \in Int
    BY ONLY <2>1, <2>2
  <2> QED BY <2>1, <2>2, <2>3
<1>4. Ints(f, N)
  BY <1>3 DEF Ints
<1>5. \A m \in Nat : \A i \in 0 .. n - 1 : Y(m)[i] = Sum(MixTerms(xs, scales, N, i), m)
  OBVIOUS
<1> HIDE DEF Y
<1>6. 0 \in S
  <2>1. Ints(Y(0), n) /\ 0 \in Nat
    BY <1>2
  <2>2. PICK z : z = 0
    OBVIOUS
  <2>3. z \in Int /\ \A u \in Int : z * u + z * u = z
    BY ONLY <2>2
  <2>4. \A i \in 0 .. n - 1 : Eq(Y(0)[i], z * Y(0)[i] + z * Y(0)[i])
    <3> TAKE i \in 0 .. n - 1
    <3>1. Y(0)[i] = z
      BY <1>5, <2>2, SumNone
    <3>2. z * Y(0)[i] + z * Y(0)[i] = z
      BY <2>3, <3>1
    <3> QED BY <3>1, <3>2, EqBasics
  <2>5. PICK u : u = Spectral(n, Y(0), k)
    OBVIOUS
  <2>6. u \in Int
    BY <2>1, <2>5, SpectralIs
  <2>7. Eq(u, z * u + z * u)
    BY <2>1, <2>3, <2>4, <2>5, SpectralLinear
  <2>8. Eq(u, z)
    BY <2>3, <2>6, <2>7
  <2>9. Sum(f, 0) = z
    BY <2>2, SumNone
  <2> QED BY <2>5, <2>8, <2>9
<1>7. ASSUME NEW m \in Nat, m \in S PROVE m + 1 \in S
  <2>1. SUFFICES ASSUME m + 1 <= N PROVE Eq(Spectral(n, Y(m + 1), k), Sum(f, m + 1))
    OBVIOUS
  <2>2. m \in 0 .. N - 1 /\ m <= N /\ m + 1 \in Nat
    BY <2>1
  <2>3. PICK x, a, one, y0, y1 : x = xs[m + 1] /\ a = scales[m + 1] /\ one = 1 /\ y0 = Y(m) /\ y1 = Y(m + 1)
    OBVIOUS
  <2>4. Ints(x, n) /\ a \in Int /\ one \in Int /\ Ints(y0, n) /\ Ints(y1, n)
    BY <1>2, <1>3, <2>1, <2>2, <2>3
  <2>5. ASSUME NEW i \in 0 .. n - 1 PROVE Eq(y1[i], one * y0[i] + a * x[i])
    <3>1. PICK t : t = MixTerms(xs, scales, N, i)
      OBVIOUS
    <3>2. Ints(t, m + 1) /\ y1[i] = Sum(t, m + 1) /\ y0[i] = Sum(t, m) /\ y0[i] \in Int
      BY <1>1, <1>5, <2>1, <2>2, <2>3, <3>1
    <3>3. Eq(Sum(t, m + 1), Sum(t, m) + t[m])
      BY <3>2, SumGrows
    <3>4. t[m] = x[i] * a /\ x[i] \in Int
      BY <2>2, <2>3, <2>4, <3>1 DEF MixTerms, Ints
    <3>5. y0[i] + x[i] * a = one * y0[i] + a * x[i]
      BY ONLY <2>3, <2>4, <3>2, <3>4
    <3> QED BY <3>2, <3>3, <3>4, <3>5
  <2>6. Eq(Spectral(n, y1, k), one * Spectral(n, y0, k) + a * Spectral(n, x, k))
    BY ONLY <2>4, <2>5, l \in Lengths, n \in Transforms, k \in Int, SpectralLinear
  <2>7. PICK u, v, w : u = Spectral(n, y0, k) /\ v = Spectral(n, x, k) /\ w = Sum(f, m)
    OBVIOUS
  <2>8. u \in Int /\ v \in Int /\ w \in Int /\ Eq(u, w)
    <3>1. Ints(f, m)
      BY <1>4, <2>2 DEF Ints
    <3>2. w \in Int
      BY <2>7, <3>1, SumIs
    <3>3. u \in Int
      BY <2>4, <2>7, SpectralIs
    <3>4. v \in Int
      BY <2>4, <2>7, SpectralIs
    <3>5. Eq(u, w)
      BY <1>7, <2>2, <2>3, <2>7
    <3> QED BY <3>2, <3>3, <3>4, <3>5
  <2>9. Ints(f, m + 1)
    BY <1>4, <2>1 DEF Ints
  <2>10. Eq(Sum(f, m + 1), w + f[m])
    BY <2>7, <2>9, SumGrows
  <2>11. PICK p : p = f[m]
    OBVIOUS
  <2>12. p \in Int /\ p = v * a
    BY <1>3, <2>2, <2>3, <2>7, <2>11
  <2>13. Eq(u + p, w + p)
    BY ONLY <2>8, <2>12, EqMoved
  <2>14. one * u + a * v = u + p
    BY ONLY <2>3, <2>4, <2>8, <2>12
  <2> QED BY <2>3, <2>6, <2>7, <2>10, <2>11, <2>13, <2>14, EqBasics
<1>8. Nat \subseteq S
  <2> HIDE DEF S
  <2> QED BY <1>6, <1>7, Induction
<1>9. Eq(Spectral(n, Y(N), k), Sum(f, N))
  BY <1>8
<1>10. Eq(Spectral(n, y, k), Spectral(n, Y(N), k))
  <2>1. Ints(Y(N), n)
    BY <1>2
  <2>2. \A i \in 0 .. n - 1 : Eq(y[i], Y(N)[i])
    BY <1>5
  <2> QED BY <2>1, <2>2, SpectralEq
<1> QED BY <1>4, <1>9, <1>10, EqBasics

-----------------------------------------------------------------------------
(* Cbufs.                                                                  *)

\* Where in the spectrum entry p of a cbuf comes from, by the length.
At(l, p) ==
  IF p % 8 < 4 THEN 4 * (p \div 8) + (p % 8)
  ELSE IF 4 * (p \div 8) + (p % 8) - 4 = 0 THEN l ELSE 2 * l - (4 * (p \div 8) + (p % 8) - 4)

\* v is a cbuf of the spectrum of x.
InCbuf(l, v, x) == \A p \in 0 .. 2 * l - 1 : v[p] \in Int /\ Eq(v[p], Spectral(2 * l, x, At(l, p)))

LEMMA LengthPos ==
  ASSUME NEW l \in Lengths
  PROVE  l \in Nat \ {0} /\ 0 \in 0 .. l - 1
<1>1. l \in Nat /\ l >= 4
  BY SpectrumAssumption
<1> QED BY ONLY <1>1

LEMMA LengthIs ==
  ASSUME NEW l \in Lengths
  PROVE  /\ l \in Nat /\ l \in Int /\ 2 * l \in Transforms /\ 2 * l \in Nat \ {0} /\ 2 * l \in Nat /\ (2 * l) \div 2 = l
         /\ \E g \in Nat \ {0} : l = 4 * g
<1>1. l \in Nat /\ l >= 4 /\ l % 4 = 0
  BY SpectrumAssumption
<1>2. 2 * l \in Transforms
  BY DEF Transforms
<1>3. (2 * l) \div 2 = l /\ 2 * l \in Nat \ {0}
  BY ONLY <1>1
<1>4. PICK g \in Int : g = l \div 4
  BY <1>1
<1>5. l = 4 * g /\ g \in Nat \ {0}
  BY ONLY <1>1, <1>4
<1> QED BY <1>1, <1>2, <1>3, <1>5

LEMMA AtIs ==
  ASSUME NEW l \in Lengths, NEW p \in 0 .. 2 * l - 1
  PROVE  At(l, p) \in 0 .. 2 * l - 1 /\ At(l, p) \in Int
<1>1. PICK g \in Nat \ {0} : l = 4 * g
  BY LengthIs
<1>2. PICK q, e \in Int : q = p \div 8 /\ e = p % 8
  BY <1>1
<1>3. p = 8 * q + e /\ e \in 0 .. 7 /\ q >= 0 /\ q < g
  BY ONLY <1>1, <1>2, p \in 0 .. 2 * l - 1, q \in Int, e \in Int
<1>4. At(l, p) = IF e < 4 THEN 4 * q + e ELSE IF 4 * q + e - 4 = 0 THEN l ELSE 2 * l - (4 * q + e - 4)
  BY <1>2 DEF At
<1> QED BY ONLY <1>1, <1>3, <1>4

LEMMA GatheredIs ==
  ASSUME length \in Lengths, NEW p \in Whole
  PROVE  Gathered(p) = At(length, p) /\ Whole = 0 .. 2 * length - 1 /\ p \in 0 .. 2 * length - 1
BY DEF Gathered, At, Whole, NFft

\* The two orders are inverse to each other.
LEMMA ScatteredIs ==
  ASSUME length \in Lengths, NEW i \in 0 .. 2 * length - 1
  PROVE  Scattered(i) \in 0 .. 2 * length - 1 /\ At(length, Scattered(i)) = i
<1>1. PICK g \in Nat \ {0} : length = 4 * g
  BY LengthIs
<1>5. i \in Int /\ length \in Int /\ 2 * length \in Int
  BY <1>1
<1>2. CASE i < length
  <2>1. PICK q, e \in Int : q = i \div 4 /\ e = i % 4
    BY <1>1
  <2>2. i = 4 * q + e /\ e \in 0 .. 3 /\ q \in 0 .. g - 1
    BY ONLY <1>1, <1>2, <2>1, i \in 0 .. 2 * length - 1, q \in Int, e \in Int
  <2>3. PICK p \in Int : p = 8 * q + e
    OBVIOUS
  <2>4. Scattered(i) = p
    BY <1>2, <2>1, <2>3 DEF Scattered
  <2>5. p \in 0 .. 2 * length - 1 /\ p \div 8 = q /\ p % 8 = e
    BY ONLY <1>1, <2>2, <2>3, p \in Int
  <2>6. At(length, p) = 4 * q + e
    BY <2>2, <2>5 DEF At
  <2> QED BY <2>2, <2>4, <2>5, <2>6
<1>3. CASE i = length
  <2>1. Scattered(i) = 4
    BY <1>3 DEF Scattered
  <2>2. At(length, 4) = length
    BY DEF At
  <2> QED BY <1>1, <1>3, <2>1, <2>2
<1>4. CASE i > length
  <2>1. PICK m \in Int : m = 2 * length - i
    <3>1. 2 * length - i \in Int
      BY ONLY <1>5
    <3> QED BY <3>1
  <2>2. PICK q, e \in Int : q = m \div 4 /\ e = m % 4
    BY <2>1
  <2>3. m = 4 * q + e /\ e \in 0 .. 3 /\ q \in 0 .. g - 1 /\ m > 0
    BY ONLY <1>1, <1>4, <2>1, <2>2, i \in 0 .. 2 * length - 1, q \in Int, e \in Int, m \in Int
  <2>4. PICK p \in Int : p = 8 * q + e + 4
    OBVIOUS
  <2>5. Scattered(i) = p
    <3>1. ~(i < length) /\ i # length
      BY <1>1, <1>4
    <3> QED BY <2>1, <2>2, <2>4, <3>1 DEF Scattered, NFft
  <2>6. p \in 0 .. 2 * length - 1 /\ p \div 8 = q /\ p % 8 = e + 4
    BY ONLY <1>1, <2>3, <2>4, p \in Int, q \in Int
  <2>7. At(length, p) = 2 * length - m
    <3>1. ~(e + 4 < 4) /\ 4 * q + (e + 4) - 4 = m /\ m # 0
      BY ONLY <2>3, q \in Int
    <3> QED BY <2>6, <3>1 DEF At
  <2>8. 2 * length - m = i
    BY <1>1, <2>1
  <2> QED BY <2>5, <2>6, <2>7, <2>8
<1> QED BY <1>2, <1>3, <1>4, <1>5

\* A cbuf holds real and imaginary parts in pairs: entry p belongs to the
\* pair at r, of frequency k.
LEMMA Slots ==
  ASSUME NEW l \in Lengths, NEW p \in 0 .. 2 * l - 1
  PROVE  \E r, k \in Int :
           /\ r \in 0 .. 2 * l - 1 /\ r + 4 \in 0 .. 2 * l - 1 /\ r % 8 < 4 /\ k \in 0 .. l - 1
           /\ r = 8 * (p \div 8) + (p % 4) /\ (r = 0 <=> k = 0) /\ k % 2 = r % 2
           /\ (p % 8 < 4 => p = r) /\ (~(p % 8 < 4) => p = r + 4 /\ p - 4 = r)
           /\ At(l, r) = k /\ At(l, r + 4) = IF k = 0 THEN l ELSE 2 * l - k
<1>1. PICK g \in Nat \ {0} : l = 4 * g
  BY LengthIs
<1>2. PICK q, e \in Int : q = p \div 8 /\ e = p % 4
  BY <1>1
<1>3. PICK f \in Int : f = p % 8
  BY <1>1
<1>4. p = 8 * q + f /\ f \in 0 .. 7 /\ q \in 0 .. g - 1 /\ e = (IF f < 4 THEN f ELSE f - 4) /\ e \in 0 .. 3
  BY ONLY <1>1, <1>2, <1>3, p \in 0 .. 2 * l - 1, q \in Int, e \in Int, f \in Int
<1>5. PICK r, k \in Int : r = 8 * q + e /\ k = 4 * q + e
  OBVIOUS
<1>6. /\ r \in 0 .. 2 * l - 1 /\ r + 4 \in 0 .. 2 * l - 1 /\ k \in 0 .. l - 1 /\ (r = 0 <=> k = 0)
      /\ r \div 8 = q /\ r % 8 = e /\ (r + 4) \div 8 = q /\ (r + 4) % 8 = e + 4
  BY ONLY <1>1, <1>4, <1>5, r \in Int, k \in Int, q \in Int, e \in Int
<1>7. k % 2 = r % 2
  BY ONLY <1>4, <1>5, r \in Int, k \in Int, q \in Int, e \in Int
<1>8. (f < 4 => p = r) /\ (~(f < 4) => p = r + 4 /\ p - 4 = r)
  BY ONLY <1>4, <1>5, q \in Int
<1>9. At(l, r) = k
  BY <1>4, <1>5, <1>6 DEF At
<1>10. At(l, r + 4) = IF k = 0 THEN l ELSE 2 * l - k
  <2>1. ~(e + 4 < 4) /\ 4 * q + (e + 4) - 4 = k
    BY ONLY <1>4, <1>5, q \in Int
  <2> QED BY <1>6, <2>1 DEF At
<1> QED BY <1>2, <1>3, <1>4, <1>5, <1>6, <1>7, <1>8, <1>9, <1>10

\* The parts in a cbuf.
LEMMA InSlots ==
  ASSUME NEW l \in Lengths, NEW v, NEW x, Ints(x, 2 * l), InCbuf(l, v, x), NEW r \in Int, NEW k \in Int,
         r \in 0 .. 2 * l - 1, r + 4 \in 0 .. 2 * l - 1, k \in 0 .. l - 1,
         At(l, r) = k, At(l, r + 4) = IF k = 0 THEN l ELSE 2 * l - k
  PROVE  /\ v[r] \in Int /\ v[r + 4] \in Int /\ Eq(v[r], Re(2 * l, x, k))
         /\ Eq(v[r + 4], IF k = 0 THEN Re(2 * l, x, l) ELSE -Im(2 * l, x, k))
<1>1. PICK g \in Nat \ {0} : l = 4 * g
  BY LengthIs
<1>2. (2 * l) \div 2 = l /\ l \in Int
  BY LengthIs
<1>3. /\ v[r] \in Int /\ v[r + 4] \in Int
      /\ Eq(v[r], Spectral(2 * l, x, At(l, r))) /\ Eq(v[r + 4], Spectral(2 * l, x, At(l, r + 4)))
  BY DEF InCbuf
<1>4. Spectral(2 * l, x, k) = Re(2 * l, x, k)
  <2>1. k <= (2 * l) \div 2
    BY <1>1, <1>2
  <2> QED BY <2>1 DEF Spectral
<1>5. CASE k = 0
  <2>1. Spectral(2 * l, x, l) = Re(2 * l, x, l)
    <3>1. l <= (2 * l) \div 2
      BY <1>1, <1>2
    <3> QED BY <3>1 DEF Spectral
  <2> QED BY <1>3, <1>4, <1>5, <2>1
<1>6. CASE k # 0
  <2>1. Spectral(2 * l, x, 2 * l - k) = -Im(2 * l, x, k)
    <3>1. ~(2 * l - k <= (2 * l) \div 2) /\ 2 * l - (2 * l - k) = k
      BY <1>1, <1>2, <1>6
    <3> QED BY <3>1 DEF Spectral
  <2> QED BY <1>3, <1>4, <1>6, <2>1
<1> QED BY <1>5, <1>6

-----------------------------------------------------------------------------
(* The kernels.                                                            *)

\* The first and the last imaginary part are zero.
LEMMA Unpaired ==
  ASSUME NEW l \in Lengths, NEW x, Ints(x, 2 * l)
  PROVE  Eq(Im(2 * l, x, 0), 0) /\ Eq(Im(2 * l, x, l), 0)
<1>1. l \in Int /\ 2 * l \in Transforms /\ 2 * l \in Nat /\ (2 * l) \div 2 = l
  BY LengthIs
<1>2. ASSUME NEW k \in Int, \A j \in Int : Eq(SS(2 * l, j * k), 0)
      PROVE  Eq(Im(2 * l, x, k), 0)
  <2> DEFINE n == 2 * l
             f == ImTerms(n, x, k)
  <2>1. Ints(f, n) /\ n \in Nat
    BY <1>1, PartsAre
  <2>2. ASSUME NEW j \in 0 .. n - 1
        PROVE  Eq(f[j], 0)
    <3>1. PICK a, s \in Int : a = x[j] /\ s = SS(n, j * k)
      <4>1. x[j] \in Int /\ j * k \in Int
        BY DEF Ints
      <4>2. SS(n, j * k) \in Int
        BY <1>1, <4>1, TrigIs
      <4> QED BY <4>1, <4>2
    <3>2. Eq(s, 0) /\ f[j] = a * s
      BY <1>2, <3>1 DEF ImTerms
    <3>3. Eq(a * s, a * 0)
      BY 0 \in Int, <3>1, <3>2, EqScaled
    <3> QED BY <3>2, <3>3
  <2>3. Eq(Sum(f, n), n * 0)
    <3> HIDE DEF f
    <3> QED BY <2>1, <2>2, SumConstant
  <2>4. n * 0 = 0
    BY <2>1
  <2> QED BY <2>3, <2>4 DEF Im
<1>3. \A j \in Int : Eq(SS(2 * l, j * 0), 0)
  <2>1. Eq(SS(2 * l, 0), 0)
    BY <1>1, TrigAtZero
  <2> QED BY <2>1
<1>4. \A j \in Int : Eq(SS(2 * l, j * l), 0)
  BY <1>1, TrigAtHalf
<1>5. Eq(Im(2 * l, x, 0), 0)
  BY 0 \in Int, <1>2, <1>3
<1>6. Eq(Im(2 * l, x, l), 0)
  BY <1>1, <1>2, <1>4
<1> QED BY <1>5, <1>6

\* What stands in the pair at r of a cbuf of x.
LEMMA SlotSpectral ==
  ASSUME NEW l \in Lengths, NEW x, NEW k \in 0 .. l - 1
  PROVE  /\ Spectral(2 * l, x, k) = Re(2 * l, x, k)
         /\ Spectral(2 * l, x, l) = Re(2 * l, x, l)
         /\ k # 0 => Spectral(2 * l, x, 2 * l - k) = -Im(2 * l, x, k)
<1>1. (2 * l) \div 2 = l /\ l \in Int
  BY LengthIs
<1>2. k <= (2 * l) \div 2 /\ l <= (2 * l) \div 2
  BY <1>1
<1>3. k # 0 => ~(2 * l - k <= (2 * l) \div 2) /\ 2 * l - (2 * l - k) = k
  BY <1>1
<1> QED BY <1>2, <1>3 DEF Spectral

LEMMA FromSlots ==
  ASSUME NEW l \in Lengths, NEW v, NEW x, NEW p \in 0 .. 2 * l - 1, NEW r \in Int, NEW k \in Int,
         k \in 0 .. l - 1, p = r \/ p = r + 4,
         At(l, r) = k, At(l, r + 4) = IF k = 0 THEN l ELSE 2 * l - k,
         p = r => v[r] \in Int /\ Eq(v[r], Re(2 * l, x, k)),
         p = r + 4 => v[r + 4] \in Int /\ Eq(v[r + 4], IF k = 0 THEN Re(2 * l, x, l) ELSE -Im(2 * l, x, k))
  PROVE  v[p] \in Int /\ Eq(v[p], Spectral(2 * l, x, At(l, p)))
<1>1. CASE p = r
  BY <1>1, SlotSpectral
<1>2. CASE p = r + 4
  <2>1. CASE k = 0
    BY <1>2, <2>1, SlotSpectral
  <2>2. CASE k # 0
    BY <1>2, <2>2, SlotSpectral
  <2> QED BY <2>1, <2>2
<1> QED BY <1>1, <1>2

\* The terms of a product of spectra, of factors u + iv and w + iz whose
\* imaginary parts are stored negated.
Factors(a, b, c, d, u, v, w, z) ==
  /\ a \in Int /\ b \in Int /\ c \in Int /\ d \in Int
  /\ u \in Int /\ v \in Int /\ w \in Int /\ z \in Int
  /\ Eq(a, u) /\ Eq(b, -v) /\ Eq(c, w) /\ Eq(d, -z)

LEMMA ProductTerms ==
  ASSUME NEW a, NEW b, NEW c, NEW d, NEW u, NEW v, NEW w, NEW z, Factors(a, b, c, d, u, v, w, z)
  PROVE  Eq(a * c, u * w) /\ Eq(a * c - b * d, u * w - v * z) /\ Eq(a * d + b * c, -(v * w + u * z))
<1>0. /\ a \in Int /\ b \in Int /\ c \in Int /\ d \in Int
      /\ u \in Int /\ v \in Int /\ w \in Int /\ z \in Int
      /\ Eq(a, u) /\ Eq(b, -v) /\ Eq(c, w) /\ Eq(d, -z)
  BY DEF Factors
<1>1. -v \in Int /\ -z \in Int
  BY <1>0
<1>2. Eq(a * c, u * w) /\ Eq(b * d, (-v) * (-z)) /\ Eq(a * d, u * (-z)) /\ Eq(b * c, (-v) * w)
  BY <1>0, <1>1, EqTimes
<1>3. PICK ac, bd, ad, bc, uw, vz, uz, vw \in Int :
        /\ ac = a * c /\ bd = b * d /\ ad = a * d /\ bc = b * c
        /\ uw = u * w /\ vz = v * z /\ uz = u * z /\ vw = v * w
  BY <1>0
<1>4. (-v) * (-z) = vz /\ u * (-z) = -uz /\ (-v) * w = -vw
  BY ONLY <1>0, <1>3
<1>5. Eq(ac, uw) /\ Eq(bd, vz) /\ Eq(ad, -uz) /\ Eq(bc, -vw) /\ -uz \in Int /\ -vw \in Int
  BY <1>2, <1>3, <1>4
<1>6. Eq(ac - bd, uw - vz)
  BY <1>5, EqPlus
<1>7. Eq(ad + bc, -uz + -vw)
  BY <1>5, EqPlus
<1>8. -uz + -vw = -(vw + uz)
  OBVIOUS
<1> QED BY <1>3, <1>5, <1>6, <1>7, <1>8

\* What the kernels compute in the pair at r.
LEMMA ProductIn ==
  ASSUME length \in Lengths, NEW b, NEW c, NEW r \in Int, r \in 0 .. 2 * length - 1, r + 4 \in 0 .. 2 * length - 1, r % 8 < 4
  PROVE  /\ Product(b, c)[r] = (IF r = 0 THEN b[r] * c[r] ELSE b[r] * c[r] - b[r + 4] * c[r + 4]) % P
         /\ Product(b, c)[r + 4] = (IF r = 0 THEN b[r + 4] * c[r + 4] ELSE b[r] * c[r + 4] + b[r + 4] * c[r]) % P
<1>1. Whole = 0 .. 2 * length - 1
  BY DEF Whole, NFft
<1>2. (r \in {0, 4} <=> r = 0) /\ (r + 4 \in {0, 4} <=> r = 0) /\ ~((r + 4) % 8 < 4) /\ (r + 4) - 4 = r
  OBVIOUS
<1> QED BY <1>1, <1>2 DEF Product

LEMMA ProductTyped ==
  ASSUME length \in Lengths, NEW b, NEW c, Ints(b, 2 * length), Ints(c, 2 * length)
  PROVE  Product(b, c) \in [Whole -> Field] /\ Ints(Product(b, c), 2 * length)
<1>1. Whole = 0 .. 2 * length - 1 /\ 2 * length \in Nat
  BY LengthIs DEF Whole, NFft
<1>2. ASSUME NEW p \in Whole
      PROVE  Product(b, c)[p] \in Field /\ Product(b, c)[p] \in Int
  <2>1. p \in 0 .. 2 * length - 1
    BY <1>1
  <2>2. PICK r, k \in Int :
           /\ r \in 0 .. 2 * length - 1 /\ r + 4 \in 0 .. 2 * length - 1 /\ r % 8 < 4
           /\ (p % 8 < 4 => p = r) /\ (~(p % 8 < 4) => p = r + 4 /\ p - 4 = r)
    BY <2>1, Slots
  <2>3. PICK u, v, w, z \in Int : u = b[r] /\ v = b[r + 4] /\ w = c[r] /\ z = c[r + 4]
    BY <2>2 DEF Ints
  <2>4. PICK e \in Int : Product(b, c)[p] = e % P
    <3>1. CASE p = r
      <4>1. (IF r = 0 THEN u * w ELSE u * w - v * z) \in Int
        OBVIOUS
      <4> QED BY <2>2, <2>3, <3>1, <4>1, ProductIn
    <3>2. CASE p = r + 4
      <4>1. (IF r = 0 THEN v * z ELSE u * z + v * w) \in Int
        OBVIOUS
      <4> QED BY <2>2, <2>3, <3>2, <4>1, ProductIn
    <3> QED BY <2>2, <3>1, <3>2
  <2> QED BY <2>4, EqRemainder DEF Field
<1>3. Product(b, c) = [p \in Whole |-> Product(b, c)[p]]
  BY DEF Product
<1> QED BY <1>1, <1>2, <1>3 DEF Ints

LEMMA ProductIs ==
  ASSUME length \in Lengths, NEW x, NEW h, Ints(x, 2 * length), Ints(h, 2 * length),
         NEW b, NEW c, InCbuf(length, b, x), InCbuf(length, c, h)
  PROVE  Ints(Cyc(2 * length, x, h), 2 * length) /\ InCbuf(length, Product(b, c), Cyc(2 * length, x, h))
<1> DEFINE n == 2 * length
           y == Cyc(n, x, h)
<1>1. n \in Transforms /\ n \in Nat \ {0} /\ length \in Int
  BY LengthIs
<1>2. Ints(y, n)
  BY <1>1, CycIs
<1>3. ASSUME NEW p \in 0 .. 2 * length - 1
      PROVE  Product(b, c)[p] \in Int /\ Eq(Product(b, c)[p], Spectral(2 * length, y, At(length, p)))
  <2>1. PICK r, k \in Int :
           /\ r \in 0 .. 2 * length - 1 /\ r + 4 \in 0 .. 2 * length - 1 /\ r % 8 < 4 /\ k \in 0 .. length - 1
           /\ r = 8 * (p \div 8) + (p % 4) /\ (r = 0 <=> k = 0) /\ k % 2 = r % 2
           /\ (p % 8 < 4 => p = r) /\ (~(p % 8 < 4) => p = r + 4 /\ p - 4 = r)
           /\ At(length, r) = k /\ At(length, r + 4) = IF k = 0 THEN length ELSE 2 * length - k
    BY ONLY length \in Lengths, p \in 0 .. 2 * length - 1, Slots
  <2>2. /\ b[r] \in Int /\ b[r + 4] \in Int /\ Eq(b[r], Re(n, x, k))
        /\ Eq(b[r + 4], IF k = 0 THEN Re(n, x, length) ELSE -Im(n, x, k))
    BY <2>1, InSlots
  <2>3. /\ c[r] \in Int /\ c[r + 4] \in Int /\ Eq(c[r], Re(n, h, k))
        /\ Eq(c[r + 4], IF k = 0 THEN Re(n, h, length) ELSE -Im(n, h, k))
    BY <2>1, InSlots
  <2>4. PICK rx, ix, rh, ih, hx, hh, jx, jh \in Int :
           /\ rx = Re(n, x, k) /\ ix = Im(n, x, k) /\ rh = Re(n, h, k) /\ ih = Im(n, h, k)
           /\ hx = Re(n, x, length) /\ hh = Re(n, h, length) /\ jx = Im(n, x, length) /\ jh = Im(n, h, length)
    BY <1>1, PartsAre
  <2>5. PICK u, v, w, z \in Int : u = b[r] /\ v = b[r + 4] /\ w = c[r] /\ z = c[r + 4]
    BY <2>2, <2>3
  <2>6. PICK rr, rl, ii \in Int :
          /\ rr = Re(n, y, k) /\ rl = Re(n, y, length) /\ ii = Im(n, y, k)
          /\ Eq(rr, rx * rh - ix * ih) /\ Eq(ii, ix * rh + rx * ih) /\ Eq(rl, hx * hh - jx * jh)
    <3>1. Eq(Re(n, y, k), rx * rh - ix * ih) /\ Eq(Im(n, y, k), ix * rh + rx * ih)
      BY <1>1, <2>4, CycParts
    <3>2. Eq(Re(n, y, length), hx * hh - jx * jh)
      BY <1>1, <2>4, CycParts
    <3>3. Re(n, y, k) \in Int /\ Im(n, y, k) \in Int /\ Re(n, y, length) \in Int
      <4> HIDE DEF y
      <4> QED BY <1>1, <1>2, PartsAre
    <3> QED BY <3>1, <3>2, <3>3
  <2>7. /\ Product(b, c)[r] = (IF r = 0 THEN u * w ELSE u * w - v * z) % P
        /\ Product(b, c)[r + 4] = (IF r = 0 THEN v * z ELSE u * z + v * w) % P
    BY <2>1, <2>5, ProductIn
  <2>8. p = r \/ p = r + 4
    BY <2>1
  <2> HIDE DEF n, y
  <2>9. CASE k = 0
    <3>1. Eq(u, rx) /\ Eq(v, hx) /\ Eq(w, rh) /\ Eq(z, hh) /\ r = 0
      BY <2>1, <2>2, <2>3, <2>4, <2>5, <2>9
    <3>2. Eq(ix, 0) /\ Eq(jx, 0)
      BY <2>4, <2>9, Unpaired DEF n
    <3>3. Eq(ix * ih, 0 * ih) /\ Eq(jx * jh, 0 * jh)
      BY 0 \in Int, <3>2, EqScaled
    <3>4. Eq(u * w, rx * rh) /\ Eq(v * z, hx * hh)
      BY <3>1, EqTimes
    <3>5. PICK uw, vz, xh, pp, qq, q0, p0, hhx \in Int :
             /\ uw = u * w /\ vz = v * z /\ xh = rx * rh /\ hhx = hx * hh
             /\ pp = ix * ih /\ qq = jx * jh /\ p0 = 0 * ih /\ q0 = 0 * jh
      OBVIOUS
    <3>6. p0 = 0 /\ q0 = 0
      BY <3>5
    <3>7. Eq(xh - pp, xh - p0) /\ Eq(hhx - qq, hhx - q0)
      BY <3>3, <3>5, EqMoved
    <3>8. xh - p0 = xh /\ hhx - q0 = hhx
      BY <3>6
    <3>9. Eq(rr, xh) /\ Eq(rl, hhx)
      BY <2>6, <3>5, <3>7, <3>8, EqBasics
    <3>10. Eq(uw % P, rr) /\ Eq(vz % P, rl) /\ uw % P \in Int /\ vz % P \in Int
      BY <3>4, <3>5, <3>9, EqBasics, EqRemainder
    <3>11. Product(b, c)[r] = uw % P /\ Product(b, c)[r + 4] = vz % P
      BY <2>7, <3>1, <3>5
    <3>12. Product(b, c)[r] \in Int /\ Eq(Product(b, c)[r], Re(2 * length, y, k))
      BY <2>6, <3>10, <3>11 DEF n
    <3>13. /\ Product(b, c)[r + 4] \in Int
           /\ Eq(Product(b, c)[r + 4], IF k = 0 THEN Re(2 * length, y, length) ELSE -Im(2 * length, y, k))
      BY <2>6, <2>9, <3>10, <3>11 DEF n
    <3> QED
      BY <2>1, <2>8, <3>12, <3>13, FromSlots
  <2>10. CASE k # 0
    <3>1. Eq(u, rx) /\ Eq(v, -ix) /\ Eq(w, rh) /\ Eq(z, -ih) /\ r # 0
      BY <2>1, <2>2, <2>3, <2>4, <2>5, <2>10
    <3>2. Eq(u * w - v * z, rx * rh - ix * ih) /\ Eq(u * z + v * w, -(ix * rh + rx * ih))
      <4>1. Factors(u, v, w, z, rx, ix, rh, ih)
        BY <3>1 DEF Factors
      <4> QED BY ONLY <4>1, ProductTerms
    <3>3. PICK s, t, ss, tt \in Int :
            s = u * w - v * z /\ t = u * z + v * w /\ ss = rx * rh - ix * ih /\ tt = ix * rh + rx * ih
      OBVIOUS
    <3>4. Eq(ii, tt) /\ Eq(rr, ss)
      BY <2>6, <3>3
    <3>5. Eq(-ii, -tt)
      BY <3>4, EqLaws, EqBasics
    <3>6. Eq(s % P, rr) /\ Eq(t % P, -ii) /\ s % P \in Int /\ t % P \in Int
      BY <3>2, <3>3, <3>4, <3>5, EqBasics, EqRemainder
    <3>7. Product(b, c)[r] = s % P /\ Product(b, c)[r + 4] = t % P
      BY <2>7, <3>1, <3>3
    <3>8. Product(b, c)[r] \in Int /\ Eq(Product(b, c)[r], Re(2 * length, y, k))
      BY <2>6, <3>6, <3>7 DEF n
    <3>9. /\ Product(b, c)[r + 4] \in Int
          /\ Eq(Product(b, c)[r + 4], IF k = 0 THEN Re(2 * length, y, length) ELSE -Im(2 * length, y, k))
      BY <2>6, <2>10, <3>6, <3>7 DEF n
    <3> QED
      BY <2>1, <2>8, <3>8, <3>9, FromSlots
  <2> QED BY <2>9, <2>10
<1> QED BY <1>2, <1>3 DEF InCbuf

\* In place, the same product.
LEMMA ConvolveInplaceIs ==
  ASSUME length \in Lengths, NEW b, NEW c, Ints(b, 2 * length), Ints(c, 2 * length)
  PROVE  ConvolveInplace(b, c) = Product(b, c)
<1>1. Whole = 0 .. 2 * length - 1
  BY DEF Whole, NFft
<1>2. ASSUME NEW p \in Whole
      PROVE  ConvolveInplace(b, c)[p] = Product(b, c)[p]
  <2>1. p \in 0 .. 2 * length - 1
    BY <1>1
  <2>2. PICK r \in Int :
           /\ r \in 0 .. 2 * length - 1 /\ r + 4 \in 0 .. 2 * length - 1 /\ r % 8 < 4
           /\ r = 8 * (p \div 8) + (p % 4)
           /\ (p % 8 < 4 => p = r) /\ (~(p % 8 < 4) => p = r + 4 /\ p - 4 = r)
    BY <2>1, Slots
  <2>3. PICK u, v, w, z \in Int : u = b[r] /\ v = b[r + 4] /\ w = c[r] /\ z = c[r + 4]
    BY <2>2 DEF Ints
  <2>4. ConvolveInplace(b, c)[p] =
          (IF p \in {0, 4} THEN b[p] * c[p]
           ELSE IF p % 8 < 4 THEN u * w - v * z ELSE u * z + v * w) % P
    BY <2>2, <2>3 DEF ConvolveInplace
  <2>5. CASE p % 8 < 4
    <3>1. p = r /\ (p \in {0, 4} <=> r = 0)
      BY <2>2, <2>5
    <3>2. Product(b, c)[r] = (IF r = 0 THEN u * w ELSE u * w - v * z) % P
      BY <2>2, <2>3, ProductIn
    <3>3. ConvolveInplace(b, c)[p] = (IF r = 0 THEN u * w ELSE u * w - v * z) % P
      BY <2>3, <2>4, <2>5, <3>1
    <3> QED BY <3>1, <3>2, <3>3
  <2>6. CASE ~(p % 8 < 4)
    <3>1. p = r + 4 /\ (p \in {0, 4} <=> r = 0)
      BY <2>2, <2>6
    <3>2. Product(b, c)[r + 4] = (IF r = 0 THEN v * z ELSE u * z + v * w) % P
      BY <2>2, <2>3, ProductIn
    <3>3. ConvolveInplace(b, c)[p] = (IF r = 0 THEN v * z ELSE u * z + v * w) % P
      BY <2>3, <2>4, <2>6, <3>1
    <3> QED BY <3>1, <3>2, <3>3
  <2> QED BY <2>5, <2>6
<1>3. ConvolveInplace(b, c) = [p \in Whole |-> ConvolveInplace(b, c)[p]]
  BY DEF ConvolveInplace
<1>4. Product(b, c) = [p \in Whole |-> Product(b, c)[p]]
  BY DEF Product
<1> QED
  <2> DEFINE f == ConvolveInplace(b, c)
             g == Product(b, c)
  <2> HIDE DEF f, g
  <2>1. f = [p \in Whole |-> f[p]] /\ g = [p \in Whole |-> g[p]] /\ \A p \in Whole : f[p] = g[p]
    BY <1>2, <1>3, <1>4 DEF f, g
  <2>2. f = g
    BY ONLY <2>1
  <2> QED BY <2>2 DEF f, g

LEMMA ConvolveAddTyped ==
  ASSUME length \in Lengths, NEW b, NEW c, NEW d, Ints(b, 2 * length), Ints(c, 2 * length), Ints(d, 2 * length)
  PROVE  ConvolveAdd(b, c, d) \in [Whole -> Field] /\ Ints(ConvolveAdd(b, c, d), 2 * length)
<1>1. Whole = 0 .. 2 * length - 1
  BY DEF Whole, NFft
<1>2. ASSUME NEW p \in Whole
      PROVE  (d[p] + Product(b, c)[p]) % P \in Field /\ (d[p] + Product(b, c)[p]) % P \in Int
  <2>1. PICK x, y \in Int : x = d[p] /\ y = Product(b, c)[p]
    BY <1>1, ProductTyped DEF Ints
  <2>2. (x + y) % P \in Field /\ (x + y) % P \in Int
    BY EqRemainder DEF Field
  <2> QED BY <2>1, <2>2
<1> QED BY <1>1, <1>2 DEF ConvolveAdd, Ints

LEMMA ConvolveAddIs ==
  ASSUME length \in Lengths, NEW x, NEW y, Ints(x, 2 * length), Ints(y, 2 * length),
         NEW d, NEW e, InCbuf(length, d, x), NEW b, NEW c, Ints(b, 2 * length), Ints(c, 2 * length),
         InCbuf(length, Product(b, c), y),
         NEW z, Ints(z, 2 * length), \A i \in 0 .. 2 * length - 1 : Eq(z[i], x[i] + y[i])
  PROVE  InCbuf(length, ConvolveAdd(b, c, d), z)
<1>1. Whole = 0 .. 2 * length - 1 /\ 2 * length \in Transforms
  BY LengthIs DEF Whole, NFft
<1>2. \A i \in 0 .. 2 * length - 1 : Eq(z[i], 1 * x[i] + 1 * y[i])
  <2>1. ASSUME NEW i \in 0 .. 2 * length - 1
        PROVE  Eq(z[i], 1 * x[i] + 1 * y[i])
    <3>1. PICK a, q \in Int : a = x[i] /\ q = y[i]
      BY DEF Ints
    <3>2. 1 * a + 1 * q = a + q
      OBVIOUS
    <3> QED BY <3>1, <3>2
  <2> QED BY <2>1
<1>3. ASSUME NEW p \in 0 .. 2 * length - 1
      PROVE  ConvolveAdd(b, c, d)[p] \in Int /\ Eq(ConvolveAdd(b, c, d)[p], Spectral(2 * length, z, At(length, p)))
  <2>1. PICK k \in Int : k = At(length, p)
    BY AtIs
  <2>2. PICK a, q, sx, sy \in Int :
          a = d[p] /\ q = Product(b, c)[p] /\ sx = Spectral(2 * length, x, k) /\ sy = Spectral(2 * length, y, k)
    BY <1>1, <2>1, SpectralIs DEF InCbuf
  <2>3. Eq(a, sx) /\ Eq(q, sy)
    BY <2>1, <2>2 DEF InCbuf
  <2>4. ConvolveAdd(b, c, d)[p] = (a + q) % P
    BY <1>1, <2>2 DEF ConvolveAdd
  <2>5. Eq(a + q, sx + sy)
    BY <2>3, EqPlus
  <2>6. Eq(Spectral(2 * length, z, k), 1 * sx + 1 * sy)
    BY 1 \in Int, <1>1, <1>2, <2>2, SpectralLinear
  <2>7. 1 * sx + 1 * sy = sx + sy
    OBVIOUS
  <2>8. Eq((a + q) % P, a + q) /\ (a + q) % P \in Int
    BY EqRemainder
  <2> QED BY <2>1, <2>4, <2>5, <2>6, <2>7, <2>8, EqBasics
<1> QED BY <1>3 DEF InCbuf

\* The impulse of dirac_convolve, and its cbuf.
Impulse(l) == [i \in 0 .. 2 * l - 1 |-> IF i = l THEN Inverse(2 * l) ELSE 0]
DiracBuf(l) == [p \in 0 .. 2 * l - 1 |-> IF p % 8 < 4 \/ p = 4 THEN Sgn(p) * Inverse(2 * l) ELSE 0]

LEMMA ImpulseIs ==
  ASSUME NEW l \in Lengths
  PROVE  /\ Inverse(2 * l) \in Int /\ Inverse(2 * l) \in Field /\ Eq(2 * l * Inverse(2 * l), 1)
         /\ Ints(Impulse(l), 2 * l) /\ Ints(DiracBuf(l), 2 * l)
<1>1. PICK n \in Transforms : n = 2 * l /\ n \in Int
  BY LengthIs
<1>2. ~Eq(n, 0)
  BY UnitsOf
<1>3. Inverse(n) \in 1 .. P - 1 /\ Inverse(n) \in Int /\ Eq(n * Inverse(n), 1)
  BY <1>1, <1>2, InverseIs
<1>4. Inverse(n) \in Field
  BY <1>3, PNat DEF Field
<1>5. Ints(Impulse(l), 2 * l)
  BY <1>1, <1>3 DEF Ints, Impulse
<1>6. Ints(DiracBuf(l), 2 * l)
  <2>1. ASSUME NEW p \in 0 .. 2 * l - 1
        PROVE  DiracBuf(l)[p] \in Int
    <3>1. Sgn(p) \in Int
      BY SgnIs
    <3>2. PICK s, v \in Int : s = Sgn(p) /\ v = Inverse(2 * l)
      BY <1>1, <1>3, <3>1
    <3>3. s * v \in Int
      OBVIOUS
    <3> QED BY <3>2, <3>3 DEF DiracBuf
  <2> QED BY <2>1 DEF Ints
<1> QED BY <1>1, <1>3, <1>4, <1>5, <1>6

\* The spectrum of the impulse is a sign.
LEMMA ImpulseParts ==
  ASSUME NEW l \in Lengths, NEW k \in Int
  PROVE  /\ Eq(Re(2 * l, Impulse(l), k), Sgn(k) * Inverse(2 * l))
         /\ Eq(Im(2 * l, Impulse(l), k), 0)
<1>1. PICK n \in Transforms : n = 2 * l /\ n \in Nat /\ n \div 2 = l
  BY LengthIs
<1>2. l \in 0 .. n - 1 /\ l \in Int
  BY <1>1, LengthIs
<1>3. Ints(Impulse(l), n)
  BY <1>1, ImpulseIs
<1>4. PICK v \in Int : v = Inverse(2 * l)
  BY ImpulseIs
<1> DEFINE f == ReTerms(n, Impulse(l), k)
           g == ImTerms(n, Impulse(l), k)
<1>5. Ints(f, n) /\ Ints(g, n)
  BY <1>3, PartsAre
<1>6. \A j \in 0 .. n - 1 : f[j] = Impulse(l)[j] * CC(n, j * k) /\ g[j] = Impulse(l)[j] * SS(n, j * k)
  BY DEF ReTerms, ImTerms
<1>7. ASSUME NEW j \in 0 .. n - 1, j # l
      PROVE  Eq(f[j], 0) /\ Eq(g[j], 0)
  <2>1. Impulse(l)[j] = 0
    BY <1>1, <1>7 DEF Impulse
  <2>2. PICK jk \in Int : jk = j * k
    OBVIOUS
  <2>3. PICK c, s \in Int : c = CC(n, j * k) /\ s = SS(n, j * k)
    BY <2>2, TrigIs
  <2>4. 0 * c = 0 /\ 0 * s = 0
    OBVIOUS
  <2> QED BY <1>6, <2>1, <2>3, <2>4, EqBasics
<1>8. PICK c, s \in Int : /\ c = CC(n, k * l) /\ s = SS(n, k * l) /\ Eq(c, Sgn(k)) /\ Eq(s, 0)
                          /\ f[l] = v * c /\ g[l] = v * s
  <2>1. Eq(CC(n, k * l), Sgn(k)) /\ Eq(SS(n, k * l), 0)
    BY <1>1, TrigAtHalf
  <2>2. k * l \in Int /\ l * k = k * l
    BY <1>2
  <2>3. CC(n, k * l) \in Int /\ SS(n, k * l) \in Int
    BY <2>2, TrigIs
  <2>4. Impulse(l)[l] = v
    BY <1>1, <1>2, <1>4 DEF Impulse
  <2> QED BY <1>2, <1>6, <2>1, <2>2, <2>3, <2>4
<1>9. Eq(Sum(f, n), f[l]) /\ Eq(Sum(g, n), g[l])
  <2> HIDE DEF f, g
  <2>1. Eq(Sum(f, n), f[l])
    BY <1>1, <1>2, <1>5, <1>7, SumSingle
  <2>2. Eq(Sum(g, n), g[l])
    BY <1>1, <1>2, <1>5, <1>7, SumSingle
  <2> QED BY <2>1, <2>2
<1>10. PICK sg \in Int : sg = Sgn(k)
  BY SgnIs
<1>11. Eq(v * c, v * sg) /\ Eq(v * s, v * 0)
  BY 0 \in Int, <1>8, <1>10, EqScaled
<1>12. v * sg = sg * v /\ v * 0 = 0
  OBVIOUS
<1>13. Re(2 * l, Impulse(l), k) = Sum(f, n) /\ Im(2 * l, Impulse(l), k) = Sum(g, n)
  BY <1>1 DEF Re, Im
<1> QED BY <1>4, <1>8, <1>9, <1>10, <1>11, <1>12, <1>13, EqBasics

LEMMA DiracBufIs ==
  ASSUME NEW l \in Lengths
  PROVE  InCbuf(l, DiracBuf(l), Impulse(l))
<1> DEFINE v == DiracBuf(l)
           x == Impulse(l)
<1>1. l \in Nat /\ l % 4 = 0 /\ l \in Int
  BY SpectrumAssumption
<1>2. Ints(v, 2 * l)
  BY ImpulseIs
<1>3. PICK inv \in Int : inv = Inverse(2 * l)
  BY ImpulseIs
<1>4. ASSUME NEW p \in 0 .. 2 * l - 1
      PROVE  v[p] \in Int /\ Eq(v[p], Spectral(2 * l, x, At(l, p)))
  <2>1. PICK r, k \in Int :
           /\ r \in 0 .. 2 * l - 1 /\ r + 4 \in 0 .. 2 * l - 1 /\ r % 8 < 4 /\ k \in 0 .. l - 1
           /\ r = 8 * (p \div 8) + (p % 4) /\ (r = 0 <=> k = 0) /\ k % 2 = r % 2
           /\ (p % 8 < 4 => p = r) /\ (~(p % 8 < 4) => p = r + 4 /\ p - 4 = r)
           /\ At(l, r) = k /\ At(l, r + 4) = IF k = 0 THEN l ELSE 2 * l - k
    BY Slots
  <2>2. p = r \/ p = r + 4
    BY <2>1
  <2>3. v[r] \in Int /\ v[r + 4] \in Int
    BY <1>2, <2>1 DEF Ints
  <2>4. Eq(v[r], Re(2 * l, x, k))
    <3>1. v[r] = Sgn(r) * inv /\ Sgn(r) = Sgn(k)
      BY <1>3, <2>1 DEF DiracBuf, Sgn
    <3>2. Eq(Re(2 * l, x, k), Sgn(k) * inv)
      BY <1>3, ImpulseParts
    <3> QED BY <3>1, <3>2, EqBasics
  <2>5. Eq(v[r + 4], IF k = 0 THEN Re(2 * l, x, l) ELSE -Im(2 * l, x, k))
    <3>1. CASE k = 0
      <4>1. v[r + 4] = 1 * inv
        <5>1. r = 0 /\ 4 \in 0 .. 2 * l - 1 /\ 0 + 4 = 4 /\ 4 % 2 = 0
          BY <2>1, <3>1
        <5> QED BY <1>3, <5>1 DEF DiracBuf, Sgn
      <4>2. Sgn(l) = 1
        <5>1. l % 2 = 0
          BY ONLY <1>1
        <5> QED BY <5>1 DEF Sgn
      <4>3. Eq(Re(2 * l, x, l), Sgn(l) * inv)
        BY <1>1, <1>3, ImpulseParts
      <4> QED BY <3>1, <4>1, <4>2, <4>3, EqBasics
    <3>2. CASE k # 0
      <4>1. v[r + 4] = 0
        <5>1. r # 0 /\ r + 4 # 4 /\ ~((r + 4) % 8 < 4)
          BY <2>1, <3>2
        <5> QED BY <2>1, <5>1 DEF DiracBuf
      <4>2. PICK im \in Int : im = Im(2 * l, x, k) /\ Eq(im, 0)
        <5>1. Ints(x, 2 * l) /\ 2 * l \in Transforms
          BY ImpulseIs, LengthIs
        <5>2. Im(2 * l, x, k) \in Int
          <6> HIDE DEF x
          <6> QED BY <5>1, PartsAre
        <5> QED BY <5>2, ImpulseParts
      <4>3. Eq(0 - im, 0 - 0)
        BY 0 \in Int, <4>2, EqMoved
      <4>4. 0 - im = -im /\ 0 - 0 = 0
        OBVIOUS
      <4> QED BY <3>2, <4>1, <4>2, <4>3, <4>4, EqBasics
    <3> QED BY <3>1, <3>2
  <2> HIDE DEF v, x
  <2> QED BY <2>1, <2>2, <2>3, <2>4, <2>5, FromSlots
<1> QED BY <1>4 DEF InCbuf

LEMMA DiracConvolveIs ==
  ASSUME length \in Lengths, NEW b, Ints(b, 2 * length)
  PROVE  DiracConvolve(b) = Product(b, DiracBuf(length))
<1> DEFINE f == DiracConvolve(b)
           c == DiracBuf(length)
           g == Product(b, c)
<1>1. Whole = 0 .. 2 * length - 1 /\ NFft = 2 * length
  BY DEF Whole, NFft
<1>2. PICK inv \in Int : inv = Inverse(2 * length)
  BY ImpulseIs
<1>3. ASSUME NEW p \in Whole
      PROVE  f[p] = g[p]
  <2>1. p \in 0 .. 2 * length - 1
    BY <1>1
  <2>2. PICK r \in Int :
           /\ r \in 0 .. 2 * length - 1 /\ r + 4 \in 0 .. 2 * length - 1 /\ r % 8 < 4
           /\ (p % 8 < 4 => p = r) /\ (~(p % 8 < 4) => p = r + 4 /\ p - 4 = r)
    BY <2>1, Slots
  <2>3. PICK u, v \in Int : u = b[r] /\ v = b[r + 4]
    BY <2>2 DEF Ints
  <2>4. PICK s \in Int : s = Sgn(r) /\ s = Sgn(r + 4)
    <3>1. r % 2 = (r + 4) % 2
      OBVIOUS
    <3> QED BY <3>1 DEF Sgn
  <2>5. c[r] = s * inv /\ c[r + 4] = IF r = 0 THEN s * inv ELSE 0
    <3>1. c[r] = s * inv
      BY <1>2, <2>2, <2>4 DEF DiracBuf
    <3>2. ~((r + 4) % 8 < 4) /\ (r + 4 = 4 <=> r = 0)
      BY <2>2
    <3>3. c[r + 4] = IF r = 0 THEN s * inv ELSE 0
      BY <1>2, <2>2, <2>4, <3>2 DEF DiracBuf
    <3> QED BY <3>1, <3>3
  <2>6. f[p] = (b[p] * Sgn(p) * inv) % P
    BY <1>1, <1>2 DEF DiracConvolve, Sgn
  <2>7. /\ g[r] = (IF r = 0 THEN u * c[r] ELSE u * c[r] - v * c[r + 4]) % P
        /\ g[r + 4] = (IF r = 0 THEN v * c[r + 4] ELSE u * c[r + 4] + v * c[r]) % P
    BY <2>2, <2>3, ProductIn
  <2> HIDE DEF f, g, c
  <2>8. g[r] = (u * s * inv) % P
    <3>1. PICK si \in Int : si = s * inv
      OBVIOUS
    <3>2. u * si - v * 0 = u * si /\ u * si = u * s * inv
      BY <3>1
    <3> QED BY <2>5, <2>7, <3>1, <3>2
  <2>9. g[r + 4] = (v * s * inv) % P
    <3>1. PICK si \in Int : si = s * inv
      OBVIOUS
    <3>2. u * 0 + v * si = v * si /\ v * si = v * s * inv
      BY <3>1
    <3> QED BY <2>5, <2>7, <3>1, <3>2
  <2> QED BY <2>2, <2>3, <2>4, <2>6, <2>8, <2>9
<1>4. f = [p \in Whole |-> f[p]] /\ g = [p \in Whole |-> g[p]]
  BY DEF DiracConvolve, Product
<1> HIDE DEF f, g
<1>5. f = g
  BY ONLY <1>3, <1>4
<1> QED BY <1>5 DEF f, g

AllOrdered(N, n, bufs, xs) == \A c \in 1 .. N : Ordered(n, bufs[c], xs[c])
AllInCbuf(N, l, bufs, xs) == \A c \in 1 .. N : InCbuf(l, bufs[c], xs[c])

\* The mixed signal.
Mixes(N, n, xs, scales, y) == Ints(y, n) /\ \A i \in 0 .. n - 1 : Eq(y[i], Sum(MixTerms(xs, scales, N, i), N))

LEMMA MixTyped ==
  ASSUME length \in Lengths, NEW N \in Nat, NEW bufs, NEW scales, Len(bufs) = N, Vectors(bufs, scales, N, 2 * length)
  PROVE  /\ MixInput(bufs, scales) \in [Whole -> Field] /\ MixOutput(bufs, scales) \in [Whole -> Field]
         /\ \A p \in 0 .. 2 * length - 1 :
              /\ MixInput(bufs, scales)[p] = Sum(MixTerms(bufs, scales, N, At(length, p)), N)
              /\ MixOutput(bufs, scales)[p] = Sum(MixTerms(bufs, scales, N, Scattered(p)), N)
<1>1. Whole = 0 .. 2 * length - 1 /\ 2 * length \in Nat
  BY LengthIs DEF Whole, NFft
<1>2. ASSUME NEW p \in Whole
      PROVE  Gathered(p) = At(length, p) /\ At(length, p) \in 0 .. 2 * length - 1 /\ Scattered(p) \in 0 .. 2 * length - 1
  BY <1>1, GatheredIs, AtIs, ScatteredIs
<1>3. ASSUME NEW k \in 0 .. 2 * length - 1
      PROVE  Sum(MixTerms(bufs, scales, N, k), N) \in Field
  <2>1. Ints(MixTerms(bufs, scales, N, k), N)
    BY <1>1, MixTermsAre
  <2> HIDE DEF MixTerms
  <2> QED BY <2>1, SumIs
<1>4. MixInput(bufs, scales) = [p \in Whole |-> Sum(MixTerms(bufs, scales, N, Gathered(p)), N)]
  BY DEF MixInput, MixTerms
<1>5. MixOutput(bufs, scales) = [p \in Whole |-> Sum(MixTerms(bufs, scales, N, Scattered(p)), N)]
  BY DEF MixOutput, MixTerms
<1> QED BY <1>1, <1>2, <1>3, <1>4, <1>5

LEMMA SpectrumOfMix ==
  ASSUME length \in Lengths, NEW N \in Nat, NEW xs, NEW scales, Vectors(xs, scales, N, 2 * length),
         NEW y, Mixes(N, 2 * length, xs, scales, y),
         NEW k \in Int, NEW f, \A c \in 0 .. N - 1 : f[c] = Spectral(2 * length, xs[c + 1], k) * scales[c + 1]
  PROVE  Ints(f, N) /\ Eq(Spectral(2 * length, y, k), Sum(f, N))
<1>1. 2 * length \in Transforms
  BY LengthIs
<1>2. PICK n \in Transforms : n = 2 * length
  BY <1>1
<1>3. Ints(y, n) /\ \A i \in 0 .. n - 1 : Eq(y[i], Sum(MixTerms(xs, scales, N, i), N))
  BY <1>2 DEF Mixes
<1>4. Vectors(xs, scales, N, n) /\ \A c \in 0 .. N - 1 : f[c] = Spectral(n, xs[c + 1], k) * scales[c + 1]
  BY <1>2
<1>5. Ints(f, N) /\ Eq(Spectral(n, y, k), Sum(f, N))
  BY ONLY <1>3, <1>4, SpectralMix, length \in Lengths, N \in Nat, n \in Transforms, k \in Int
<1> QED BY <1>2, <1>5

LEMMA MixInputIs ==
  ASSUME length \in Lengths, NEW N \in Nat, NEW bufs, NEW scales, Len(bufs) = N, Vectors(bufs, scales, N, 2 * length),
         NEW xs, Vectors(xs, scales, N, 2 * length), AllOrdered(N, 2 * length, bufs, xs),
         NEW y, Mixes(N, 2 * length, xs, scales, y)
  PROVE  InCbuf(length, MixInput(bufs, scales), y)
<1> DEFINE n == 2 * length
           m == MixInput(bufs, scales)
<1>1. Whole = 0 .. n - 1 /\ n \in Nat /\ n \in Transforms
  BY LengthIs DEF Whole, NFft
<1>2. m \in [Whole -> Field]
  BY MixTyped
<1>3. ASSUME NEW p \in 0 .. n - 1
      PROVE  m[p] \in Int /\ Eq(m[p], Spectral(n, y, At(length, p)))
  <2>1. PICK k \in 0 .. n - 1 : k = At(length, p)
    BY AtIs
  <2>2. m[p] = Sum(MixTerms(bufs, scales, N, k), N)
    BY <2>1, MixTyped
  <2> DEFINE f == [c \in 0 .. N - 1 |-> Spectral(n, xs[c + 1], k) * scales[c + 1]]
             g == MixTerms(bufs, scales, N, k)
  <2>3. Ints(f, N) /\ Eq(Spectral(n, y, k), Sum(f, N))
    <3>1. k \in Int /\ \A c \in 0 .. N - 1 : f[c] = Spectral(n, xs[c + 1], k) * scales[c + 1]
      OBVIOUS
    <3> HIDE DEF f
    <3> QED BY <3>1, SpectrumOfMix
  <2>4. Ints(g, N)
    BY <1>1, MixTermsAre
  <2>5. ASSUME NEW c \in 0 .. N - 1
        PROVE  Eq(g[c], f[c])
    <3>1. c + 1 \in 1 .. N
      OBVIOUS
    <3>2. PICK s, t, a \in Int :
             s = bufs[c + 1][k] /\ t = Spectral(n, xs[c + 1], k) /\ a = scales[c + 1] /\ Eq(s, t)
      <4>1. Ints(bufs[c + 1], n) /\ scales[c + 1] \in Int /\ Ints(xs[c + 1], n)
        BY <3>1 DEF Vectors
      <4>2. bufs[c + 1][k] \in Int /\ Eq(bufs[c + 1][k], Spectral(n, xs[c + 1], k))
        BY <3>1 DEF AllOrdered, Ordered
      <4>3. Spectral(n, xs[c + 1], k) \in Int
        BY <1>1, <4>1, SpectralIs
      <4> QED BY <4>1, <4>2, <4>3
    <3>3. Eq(s * a, t * a)
      BY <3>2, EqScaled
    <3>4. g[c] = s * a /\ f[c] = t * a
      BY <3>2 DEF MixTerms
    <3> QED BY <3>3, <3>4
  <2>6. Sum(g, N) = Sum(f, N)
    <3> HIDE DEF f, g
    <3> QED BY <2>3, <2>4, <2>5, SumEq
  <2>7. m[p] \in Int
    <3>1. m[p] \in Field
      BY <1>1, <1>2
    <3> QED BY <3>1, PNat DEF Field
  <2> HIDE DEF f, g, m
  <2> QED BY <2>1, <2>2, <2>3, <2>6, <2>7, EqBasics DEF g
<1> QED BY <1>3 DEF InCbuf

LEMMA MixOutputIs ==
  ASSUME length \in Lengths, NEW N \in Nat, NEW bufs, NEW scales, Len(bufs) = N, Vectors(bufs, scales, N, 2 * length),
         NEW xs, Vectors(xs, scales, N, 2 * length), AllInCbuf(N, length, bufs, xs),
         NEW y, Mixes(N, 2 * length, xs, scales, y)
  PROVE  Ordered(2 * length, MixOutput(bufs, scales), y)
<1> DEFINE n == 2 * length
           m == MixOutput(bufs, scales)
<1>1. Whole = 0 .. n - 1 /\ n \in Nat /\ n \in Transforms
  BY LengthIs DEF Whole, NFft
<1>2. m \in [Whole -> Field]
  BY MixTyped
<1>3. ASSUME NEW k \in 0 .. n - 1
      PROVE  m[k] \in Int /\ Eq(m[k], Spectral(n, y, k))
  <2>1. PICK p \in 0 .. n - 1 : p = Scattered(k) /\ At(length, p) = k
    BY ScatteredIs
  <2>2. m[k] = Sum(MixTerms(bufs, scales, N, p), N)
    BY <2>1, MixTyped
  <2> DEFINE f == [c \in 0 .. N - 1 |-> Spectral(n, xs[c + 1], k) * scales[c + 1]]
             g == MixTerms(bufs, scales, N, p)
  <2>3. Ints(f, N) /\ Eq(Spectral(n, y, k), Sum(f, N))
    <3>1. k \in Int /\ \A c \in 0 .. N - 1 : f[c] = Spectral(n, xs[c + 1], k) * scales[c + 1]
      OBVIOUS
    <3> HIDE DEF f
    <3> QED BY <3>1, SpectrumOfMix
  <2>4. Ints(g, N)
    BY <1>1, MixTermsAre
  <2>5. ASSUME NEW c \in 0 .. N - 1
        PROVE  Eq(g[c], f[c])
    <3>1. c + 1 \in 1 .. N
      OBVIOUS
    <3>2. PICK s, t, a \in Int :
             s = bufs[c + 1][p] /\ t = Spectral(n, xs[c + 1], k) /\ a = scales[c + 1] /\ Eq(s, t)
      <4>1. Ints(bufs[c + 1], n) /\ scales[c + 1] \in Int /\ Ints(xs[c + 1], n)
        BY <3>1 DEF Vectors
      <4>2. bufs[c + 1][p] \in Int /\ Eq(bufs[c + 1][p], Spectral(n, xs[c + 1], k))
        BY <2>1, <3>1 DEF AllInCbuf, InCbuf
      <4>3. Spectral(n, xs[c + 1], k) \in Int
        BY <1>1, <4>1, SpectralIs
      <4> QED BY <4>1, <4>2, <4>3
    <3>3. Eq(s * a, t * a)
      BY <3>2, EqScaled
    <3>4. g[c] = s * a /\ f[c] = t * a
      BY <3>2 DEF MixTerms
    <3> QED BY <3>3, <3>4
  <2>6. Sum(g, N) = Sum(f, N)
    <3> HIDE DEF f, g
    <3> QED BY <2>3, <2>4, <2>5, SumEq
  <2>7. m[k] \in Int
    <3>1. m[k] \in Field
      BY <1>1, <1>2
    <3> QED BY <3>1, PNat DEF Field
  <2> HIDE DEF f, g, m
  <2> QED BY <2>1, <2>2, <2>3, <2>6, <2>7, EqBasics DEF g
<1> QED BY <1>3 DEF Ordered

-----------------------------------------------------------------------------
(* What the buffers hold.                                                  *)

\* The cbuf of a signal whose first m samples, times n_fft, are those of g.
Gives(l, v, m, g) ==
  \E y : Ints(y, 2 * l) /\ InCbuf(l, v, y) /\ \A i \in 0 .. m - 1 : Eq(2 * l * y[i], g[i])

\* The same in FFTW's order.
Orders(l, v, m, g) ==
  \E y : Ints(y, 2 * l) /\ Ordered(2 * l, v, y) /\ \A i \in 0 .. m - 1 : Eq(2 * l * y[i], g[i])

\* The cbuf of the coefficients c: they stand in the second half.
Behind(l, c) == [i \in 0 .. 2 * l - 1 |-> IF i < l THEN 0 ELSE c[i - l]]
Coefs(l, v, c) == Gives(l, v, 2 * l, Behind(l, c))

LEMMA MixOne ==
  ASSUME NEW n \in Nat, NEW xs, NEW scales, Vectors(xs, scales, 1, n), NEW i \in 0 .. n - 1
  PROVE  Eq(Sum(MixTerms(xs, scales, 1, i), 1), xs[1][i] * scales[1])
<1> DEFINE f == MixTerms(xs, scales, 1, i)
<1>1. Ints(f, 1)
  BY 1 \in Nat, MixTermsAre
<1>2. f[0] = xs[1][i] * scales[1]
  BY 0 + 1 = 1 DEF MixTerms
<1>3. 0 \in Nat /\ 0 + 1 = 1
  OBVIOUS
<1> HIDE DEF f
<1>4. Eq(Sum(f, 1), Sum(f, 0) + f[0]) /\ f[0] \in Int /\ Sum(f, 0) = 0
  BY <1>1, <1>3, SumGrows
<1>5. 0 + f[0] = f[0]
  BY <1>4
<1> QED BY <1>2, <1>4, <1>5 DEF f

LEMMA MixTwo ==
  ASSUME NEW n \in Nat, NEW xs, NEW scales, Vectors(xs, scales, 2, n), NEW i \in 0 .. n - 1
  PROVE  Eq(Sum(MixTerms(xs, scales, 2, i), 2), xs[1][i] * scales[1] + xs[2][i] * scales[2])
<1> DEFINE f == MixTerms(xs, scales, 2, i)
<1>1. Ints(f, 2)
  BY 2 \in Nat, MixTermsAre
<1>2. f[0] = xs[1][i] * scales[1] /\ f[1] = xs[2][i] * scales[2]
  <2>1. 0 \in 0 .. 2 - 1 /\ 1 \in 0 .. 2 - 1 /\ 0 + 1 = 1 /\ 1 + 1 = 2
    OBVIOUS
  <2> QED BY <2>1 DEF MixTerms
<1>3. 0 \in Nat /\ 0 + 1 = 1 /\ 1 \in Nat /\ 1 + 1 = 2
  OBVIOUS
<1> HIDE DEF f
<1>4. Eq(Sum(f, 2), Sum(f, 1) + f[1]) /\ f[1] \in Int /\ Ints(f, 1)
  BY <1>1, <1>3, SumGrows
<1>5. Eq(Sum(f, 1), Sum(f, 0) + f[0]) /\ f[0] \in Int /\ Sum(f, 0) = 0
  BY <1>3, <1>4, SumGrows
<1>6. 0 + f[0] = f[0]
  BY <1>5
<1>7. PICK s, a, b \in Int : s = Sum(f, 1) /\ a = f[0] /\ b = f[1]
  BY 1 \in Nat, <1>4, <1>5, SumIs
<1>8. Eq(s + b, a + b)
  BY <1>5, <1>6, <1>7, EqMoved
<1> QED BY <1>2, <1>4, <1>7, <1>8, EqBasics DEF f

\* A signal put in order, and scaled by 1 / n_fft.
LEMMA FromTime ==
  ASSUME length \in Lengths, NEW r, Ints(r, 2 * length)
  PROVE  /\ MixInput(<<R2HC(NFft, r)>>, <<Inverse(NFft)>>) \in [Whole -> Field]
         /\ Gives(length, MixInput(<<R2HC(NFft, r)>>, <<Inverse(NFft)>>), 2 * length, r)
<1> DEFINE n == 2 * length
<1>1. NFft = n /\ n \in Transforms /\ n \in Nat /\ n \in Int
  BY LengthIs DEF NFft
<1>2. PICK inv \in Int : inv = Inverse(n) /\ Eq(n * inv, 1)
  BY ImpulseIs
<1>3. PICK v : v = R2HC(n, r)
  OBVIOUS
<1> DEFINE bufs == <<v>>
           scales == <<inv>>
           xs == <<r>>
           y == [i \in 0 .. n - 1 |-> r[i] * inv]
<1>4. Ints(v, n) /\ Ordered(n, v, r)
  <2>1. \A k \in 0 .. n - 1 : v[k] \in Int /\ Eq(v[k], Spectral(n, r, k))
    BY <1>1, <1>3, R2HCIs DEF Spectral
  <2> QED BY <2>1 DEF Ints, Ordered
<1>5. Len(bufs) = 1 /\ 1 \in Nat /\ bufs[1] = v /\ scales[1] = inv /\ xs[1] = r
  OBVIOUS
<1>6. Vectors(bufs, scales, 1, n) /\ Vectors(xs, scales, 1, n) /\ AllOrdered(1, n, bufs, xs)
  BY <1>4, <1>5 DEF Vectors, AllOrdered
<1>7. Ints(y, n)
  BY DEF Ints
<1>8. Mixes(1, n, xs, scales, y)
  <2>1. ASSUME NEW i \in 0 .. n - 1
        PROVE  Eq(y[i], Sum(MixTerms(xs, scales, 1, i), 1))
    <3>1. Eq(Sum(MixTerms(xs, scales, 1, i), 1), xs[1][i] * scales[1])
      <4> HIDE DEF xs, scales, n
      <4> QED BY <1>1, <1>6, MixOne
    <3> QED BY <1>5, <3>1, EqBasics
  <2> QED BY <1>7, <2>1 DEF Mixes
<1>9. MixInput(bufs, scales) \in [Whole -> Field] /\ InCbuf(length, MixInput(bufs, scales), y)
  <2> HIDE DEF xs, scales, bufs, y
  <2> QED BY <1>5, <1>6, <1>8, MixTyped, MixInputIs
<1>10. ASSUME NEW i \in 0 .. n - 1
       PROVE  Eq(n * y[i], r[i])
  <2>1. PICK a \in Int : a = r[i]
    BY DEF Ints
  <2>2. PICK ni \in Int : ni = n * inv
    BY <1>1
  <2>3. Eq(a * ni, a * 1)
    BY 1 \in Int, <1>2, <2>2, EqScaled
  <2>4. n * (a * inv) = a * ni /\ a * 1 = a
    BY <1>1, <2>2
  <2> QED BY <2>1, <2>3, <2>4
<1> QED BY <1>1, <1>2, <1>3, <1>7, <1>9, <1>10 DEF Gives

LEMMA BufInts ==
  ASSUME NEW l \in Lengths, NEW v, NEW x
  PROVE  (InCbuf(l, v, x) => Ints(v, 2 * l)) /\ (Ordered(2 * l, v, x) => Ints(v, 2 * l))
BY DEF InCbuf, Ordered, Ints

\* The terms of the convolution of the last l samples of x with c.
ConvTerms(l, c, x, j) == [i \in 0 .. l - 1 |-> c[i] * x[j + l - i]]

LEMMA ConvTermsAre ==
  ASSUME NEW l \in Nat, NEW c, Ints(c, l), NEW x, Ints(x, 2 * l), NEW j \in 0 .. l - 1
  PROVE  Ints(ConvTerms(l, c, x, j), l)
<1>1. ASSUME NEW i \in 0 .. l - 1
      PROVE  ConvTerms(l, c, x, j)[i] \in Int
  <2>1. j + l - i \in 0 .. 2 * l - 1
    OBVIOUS
  <2>2. PICK u, v \in Int : u = c[i] /\ v = x[j + l - i]
    BY <2>1 DEF Ints
  <2>3. u * v \in Int
    OBVIOUS
  <2> QED BY <2>2, <2>3 DEF ConvTerms
<1> QED BY <1>1 DEF Ints

\* Of a circular convolution with coefficients in the second half of the
\* buffer, the first half is the convolution.
LEMMA Overlaps ==
  ASSUME NEW l \in Lengths, NEW x, Ints(x, 2 * l), NEW h, Ints(h, 2 * l), NEW c, Ints(c, l),
         \A i \in 0 .. 2 * l - 1 : Eq(2 * l * h[i], Behind(l, c)[i]), NEW j \in 0 .. l - 1
  PROVE  Eq(2 * l * Cyc(2 * l, x, h)[j], Sum(ConvTerms(l, c, x, j), l))
<1> DEFINE n == 2 * l
           t == CycTerms(n, x, h, j)
           tt == [b \in 0 .. n - 1 |-> (n * h[b]) * x[(j - b) % n]]
           u == ConvTerms(l, c, x, j)
           hi == [i \in 0 .. l - 1 |-> tt[l + i]]
<1>1. l \in Nat /\ n \in Nat \ {0} /\ l \in Int /\ n \in Int /\ n = l + l /\ n \in Nat
  BY LengthIs
<1>2. j \in 0 .. n - 1 /\ j \in Int
  BY <1>1
<1>3. Ints(t, n) /\ Cyc(n, x, h)[j] = Sum(t, n)
  BY <1>1, <1>2, CycIs
<1>4. ASSUME NEW b \in 0 .. n - 1
      PROVE  tt[b] \in Int /\ Eq(tt[b], n * t[b])
  <2>1. (j - b) % n \in 0 .. n - 1
    <3>1. PICK d \in Int : d = j - b
      BY <1>1
    <3> HIDE DEF n
    <3>2. d % n \in 0 .. n - 1
      BY <1>1, RemFacts
    <3> QED BY <3>1, <3>2
  <2>2. PICK p, q \in Int : p = h[b] /\ q = x[(j - b) % n]
    BY <2>1 DEF Ints
  <2>3. (n * p) * q \in Int /\ (n * p) * q = n * (p * q)
    BY <1>1
  <2> QED BY <2>2, <2>3, EqBasics DEF CycTerms
<1>5. Eq(Sum(tt, n), n * Sum(t, n)) /\ Ints(tt, n)
  <2>1. Ints(tt, n)
    BY <1>4 DEF Ints
  <2> HIDE DEF t, tt, n
  <2> QED BY <1>1, <1>3, <1>4, <2>1, SumScaled
<1>6. ASSUME NEW b \in 0 .. l - 1
      PROVE  Eq(tt[b], 0)
  <2>0. b \in 0 .. n - 1
    BY <1>1
  <2>1. (j - b) % n \in 0 .. n - 1
    <3>1. PICK d \in Int : d = j - b
      BY <1>1
    <3> HIDE DEF n
    <3>2. d % n \in 0 .. n - 1
      BY <1>1, RemFacts
    <3> QED BY <3>1, <3>2
  <2>2. PICK p, q \in Int : p = h[b] /\ q = x[(j - b) % n]
    BY <2>0, <2>1 DEF Ints
  <2>3. PICK np \in Int : np = n * p
    BY <1>1
  <2>4. Eq(np, 0)
    <3>1. Behind(l, c)[b] = 0
      <4>1. b < l
        BY <1>1
      <4> QED BY <2>0, <4>1 DEF Behind
    <3> QED BY <2>0, <2>2, <2>3, <3>1
  <2>5. Eq(np * q, 0 * q)
    BY 0 \in Int, <2>4, EqScaled
  <2>6. 0 * q = 0 /\ tt[b] = np * q
    BY <2>0, <2>2, <2>3
  <2> QED BY <2>5, <2>6
<1>7. Ints(hi, l) /\ Ints(tt, l) /\ Eq(Sum(tt, n), Sum(tt, l) + Sum(hi, l))
  <2>1. Ints(tt, l + l) /\ \A i \in 0 .. l - 1 : hi[i] = tt[l + i]
    BY <1>1, <1>5
  <2> HIDE DEF tt, hi, n
  <2> QED BY <1>1, <2>1, SumSplit
<1>8. Eq(Sum(tt, l), 0)
  <2>1. Eq(Sum(tt, l), l * 0)
    <3> HIDE DEF tt
    <3> QED BY 0 \in Int, <1>1, <1>6, <1>7, SumConstant
  <2>2. l * 0 = 0
    BY <1>1
  <2> QED BY <2>1, <2>2
<1>9. Ints(u, l)
  BY <1>1, ConvTermsAre
<1>10. ASSUME NEW i \in 0 .. l - 1
       PROVE  Eq(hi[i], u[i])
  <2>1. (j - (l + i)) % n = j + l - i
    <3>1. PICK d \in Int : d = j - (l + i)
      BY <1>1
    <3>2. PICK r \in 0 .. n - 1 : r = j + l - i
      BY <1>1
    <3>3. d = (-1) * n + r
      BY <1>1, <3>1, <3>2
    <3> HIDE DEF n
    <3>4. -1 \in Int
      OBVIOUS
    <3> QED BY <1>1, <3>1, <3>2, <3>3, <3>4, RemIs
  <2>2. j + l - i \in 0 .. n - 1 /\ l + i \in 0 .. n - 1
    BY <1>1
  <2>3. PICK p, q, ci \in Int : p = h[l + i] /\ q = x[j + l - i] /\ ci = c[i]
    BY <2>2 DEF Ints
  <2>4. PICK np \in Int : np = n * p
    BY <1>1
  <2>5. Eq(np, ci)
    <3>1. Behind(l, c)[l + i] = c[i]
      <4>1. ~(l + i < l) /\ (l + i) - l = i
        BY <1>1
      <4> QED BY <2>2, <4>1 DEF Behind
    <3> QED BY <2>2, <2>3, <2>4, <3>1
  <2>6. Eq(np * q, ci * q)
    BY <2>5, EqScaled
  <2>7. hi[i] = np * q /\ u[i] = ci * q
    BY <2>1, <2>2, <2>3, <2>4 DEF ConvTerms
  <2> QED BY <2>6, <2>7
<1>11. Sum(hi, l) = Sum(u, l)
  <2> HIDE DEF hi, u
  <2> QED BY <1>1, <1>7, <1>9, <1>10, SumEq
<1> HIDE DEF t, tt, hi, u
<1>12. PICK st, sl, sh \in Int : st = Sum(tt, n) /\ sl = Sum(tt, l) /\ sh = Sum(hi, l)
  BY <1>1, <1>5, <1>7, SumIs
<1>13. Eq(sl + sh, 0 + sh)
  BY 0 \in Int, <1>8, <1>12, EqMoved
<1>14. 0 + sh = sh
  OBVIOUS
<1>15. Eq(n * Sum(t, n), sh)
  BY <1>5, <1>7, <1>12, <1>13, <1>14, EqBasics
<1> QED BY <1>3, <1>11, <1>12, <1>15 DEF u

LEMMA BehindIs ==
  ASSUME NEW l \in Lengths, NEW c, Ints(c, l)
  PROVE  Ints(Behind(l, c), 2 * l)
<1>1. l \in Nat
  BY LengthIs
<1>2. ASSUME NEW i \in 0 .. 2 * l - 1
      PROVE  Behind(l, c)[i] \in Int
  <2>1. i < l \/ i - l \in 0 .. l - 1
    BY <1>1
  <2> QED BY <2>1 DEF Behind, Ints
<1> QED BY <1>2 DEF Ints

\* A signal through a filter.
LEMMA Convolved ==
  ASSUME length \in Lengths, NEW x, Ints(x, 2 * length), NEW b, InCbuf(length, b, x),
         NEW c, Ints(c, length), NEW cf, Coefs(length, cf, c),
         NEW g, \A j \in 0 .. length - 1 : Eq(g[j], Sum(ConvTerms(length, c, x, j), length))
  PROVE  Gives(length, Product(b, cf), length, g)
<1>1. PICK h : /\ Ints(h, 2 * length) /\ InCbuf(length, cf, h)
               /\ \A i \in 0 .. 2 * length - 1 : Eq(2 * length * h[i], Behind(length, c)[i])
  BY DEF Coefs, Gives
<1>2. /\ Ints(Cyc(2 * length, x, h), 2 * length) /\ InCbuf(length, Product(b, cf), Cyc(2 * length, x, h))
  BY <1>1, ProductIs
<1>3. ASSUME NEW j \in 0 .. length - 1
      PROVE  Eq(2 * length * Cyc(2 * length, x, h)[j], g[j])
  <2>1. Eq(2 * length * Cyc(2 * length, x, h)[j], Sum(ConvTerms(length, c, x, j), length))
    BY <1>1, Overlaps
  <2> QED BY <2>1, EqBasics
<1> QED BY <1>2, <1>3 DEF Gives

AllGive(N, l, m, bufs, gs) == \A c \in 1 .. N : Gives(l, bufs[c], m, gs[c])

\* What comes of mixing.
LEMMA MixGives ==
  ASSUME length \in Lengths, NEW N \in Nat, NEW bufs, NEW scales, Len(bufs) = N, NEW m \in 0 .. 2 * length,
         NEW gs, Vectors(gs, scales, N, m), AllGive(N, length, m, bufs, gs),
         NEW g, \A i \in 0 .. m - 1 : Eq(g[i], Sum(MixTerms(gs, scales, N, i), N))
  PROVE  Orders(length, MixOutput(bufs, scales), m, g)
<1> DEFINE n == 2 * length
           Has(c, y) == Ints(y, n) /\ InCbuf(length, bufs[c], y) /\ \A i \in 0 .. m - 1 : Eq(n * y[i], gs[c][i])
           xs == [c \in 1 .. N |-> CHOOSE y : Has(c, y)]
           y == [i \in 0 .. n - 1 |-> Sum(MixTerms(xs, scales, N, i), N)]
<1>1. n \in Nat /\ n \in Int /\ m \in Nat /\ m <= n
  BY LengthIs
<1>2. ASSUME NEW c \in 1 .. N
      PROVE  Has(c, xs[c])
  <2>1. \E z : Has(c, z)
    BY DEF AllGive, Gives
  <2>2. xs[c] = CHOOSE z : Has(c, z)
    OBVIOUS
  <2> HIDE DEF Has, xs
  <2> QED BY <2>1, <2>2
<1>3. /\ Vectors(xs, scales, N, n) /\ AllInCbuf(N, length, bufs, xs) /\ Vectors(bufs, scales, N, n)
      /\ \A c \in 1 .. N : \A i \in 0 .. m - 1 : Eq(n * xs[c][i], gs[c][i])
  <2>1. ASSUME NEW c \in 1 .. N
        PROVE  Ints(xs[c], n) /\ InCbuf(length, bufs[c], xs[c]) /\ scales[c] \in Int /\ Ints(bufs[c], n)
               /\ \A i \in 0 .. m - 1 : Eq(n * xs[c][i], gs[c][i])
    <3>1. Has(c, xs[c])
      BY <1>2
    <3>2. scales[c] \in Int
      BY DEF Vectors
    <3> HIDE DEF xs
    <3> QED BY <3>1, <3>2, BufInts
  <2> HIDE DEF xs
  <2> QED BY <2>1 DEF Vectors, AllInCbuf
<1> HIDE DEF xs, Has
<1>4. Mixes(N, n, xs, scales, y)
  <2>1. ASSUME NEW i \in 0 .. n - 1
        PROVE  y[i] \in Int /\ Eq(y[i], Sum(MixTerms(xs, scales, N, i), N))
    BY <1>1, <1>3, MixTermsAre, EqBasics
  <2> HIDE DEF y
  <2> QED BY <2>1 DEF Mixes, Ints
<1>5. Ordered(n, MixOutput(bufs, scales), y)
  <2> HIDE DEF y
  <2> QED BY <1>3, <1>4, MixOutputIs
<1>6. ASSUME NEW i \in 0 .. m - 1
      PROVE  Eq(n * y[i], g[i])
  <2>0. i \in 0 .. n - 1
    BY <1>1
  <2> DEFINE f == MixTerms(xs, scales, N, i)
             h == MixTerms(gs, scales, N, i)
  <2>1. Ints(f, N)
    BY <1>1, <1>3, <2>0, MixTermsAre
  <2>2. Ints(h, N)
    BY <1>1, MixTermsAre
  <2>3. ASSUME NEW c \in 0 .. N - 1
        PROVE  Eq(h[c], n * f[c])
    <3>1. c + 1 \in 1 .. N
      OBVIOUS
    <3>2. PICK u, v, a \in Int : u = xs[c + 1][i] /\ v = gs[c + 1][i] /\ a = scales[c + 1]
      BY <1>3, <2>0, <3>1 DEF Vectors, Ints
    <3>3. PICK nu \in Int : nu = n * u /\ Eq(nu, v)
      BY <1>1, <1>3, <3>1, <3>2
    <3>4. Eq(nu * a, v * a)
      BY <3>3, EqScaled
    <3>5. nu * a = n * (u * a)
      BY <1>1, <3>3
    <3>6. f[c] = u * a /\ h[c] = v * a
      BY <3>2 DEF MixTerms
    <3> QED BY <3>4, <3>5, <3>6, EqBasics
  <2>4. Eq(Sum(h, N), n * Sum(f, N))
    <3> HIDE DEF f, h, n
    <3> QED BY <1>1, <2>1, <2>2, <2>3, SumScaled
  <2>5. y[i] = Sum(f, N) /\ Eq(g[i], Sum(h, N))
    BY <2>0
  <2> QED BY <2>4, <2>5, EqBasics
<1>7. Ints(y, n)
  BY <1>4 DEF Mixes
<1> QED BY <1>5, <1>6, <1>7 DEF Orders

\* Back to the time domain.
LEMMA FromFreqIs ==
  ASSUME length \in Lengths, NEW v, NEW m \in 0 .. 2 * length, NEW g, Orders(length, v, m, g)
  PROVE  \A i \in 0 .. m - 1 : HC2R(NFft, v)[i] \in Field /\ Eq(HC2R(NFft, v)[i], g[i])
<1> DEFINE n == 2 * length
<1>1. NFft = n /\ n \in Transforms /\ n \in Nat /\ m <= n
  BY LengthIs DEF NFft
<1>2. PICK y : Ints(y, n) /\ Ordered(n, v, y) /\ \A i \in 0 .. m - 1 : Eq(n * y[i], g[i])
  BY DEF Orders
<1>3. Ints(v, n)
  BY <1>2, BufInts
<1>4. ASSUME NEW i \in 0 .. m - 1
      PROVE  HC2R(n, v)[i] \in Field /\ Eq(HC2R(n, v)[i], g[i])
  <2>1. i \in 0 .. n - 1
    BY <1>1
  <2>2. HC2R(n, v)[i] \in Field /\ Eq(HC2R(n, v)[i], n * y[i])
    <3> HIDE DEF n
    <3> QED BY <1>1, <1>2, <1>3, <2>1, Inversion
  <2> QED BY <1>2, <2>2, EqBasics
<1> QED BY <1>1, <1>4

LEMMA TransformsTyped ==
  ASSUME length \in Lengths, NEW v, Ints(v, 2 * length)
  PROVE  /\ R2HC(NFft, v) \in [Whole -> Field] /\ HC2R(NFft, v) \in [Whole -> Field]
         /\ Ordered(2 * length, R2HC(NFft, v), v)
<1> DEFINE n == 2 * length
<1>1. NFft = n /\ n \in Transforms /\ n \in Nat /\ Whole = 0 .. n - 1
  BY LengthIs DEF NFft, Whole
<1> HIDE DEF n
<1>2. ASSUME NEW k \in 0 .. n - 1
      PROVE  /\ R2HC(n, v)[k] \in Field /\ HC2R(n, v)[k] \in Field /\ R2HC(n, v)[k] \in Int
             /\ Eq(R2HC(n, v)[k], Spectral(n, v, k))
  <2>0. Ints(v, n)
    BY DEF n
  <2>1. HC2R(n, v)[k] \in Field
    BY <1>1, <2>0, HC2RIs
  <2>2. R2HC(n, v)[k] \in Field /\ R2HC(n, v)[k] \in Int /\ Eq(R2HC(n, v)[k], Spectral(n, v, k))
    BY <1>1, <2>0, R2HCIs DEF Spectral
  <2> QED BY <2>1, <2>2
<1>3. R2HC(n, v) = [k \in 0 .. n - 1 |-> R2HC(n, v)[k]]
  BY DEF R2HC
<1>4. HC2R(n, v) = [k \in 0 .. n - 1 |-> HC2R(n, v)[k]]
  BY DEF HC2R
<1>5. R2HC(n, v) \in [0 .. n - 1 -> Field]
  BY <1>2, <1>3
<1>6. HC2R(n, v) \in [0 .. n - 1 -> Field]
  BY <1>2, <1>4
<1> QED BY <1>1, <1>2, <1>5, <1>6 DEF Ordered, n

\* Sums of what two filters give.
LEMMA AddGives ==
  ASSUME length \in Lengths, NEW b, NEW c, NEW d, Ints(b, 2 * length), Ints(c, 2 * length), NEW m \in 0 .. 2 * length,
         NEW g, NEW h, Ints(g, m), Ints(h, m), Gives(length, d, m, g), Gives(length, Product(b, c), m, h),
         NEW s, \A i \in 0 .. m - 1 : Eq(s[i], g[i] + h[i])
  PROVE  Gives(length, ConvolveAdd(b, c, d), m, s)
<1> DEFINE n == 2 * length
<1>1. n \in Nat /\ n \in Int /\ m <= n
  BY LengthIs
<1>2. PICK x : Ints(x, n) /\ InCbuf(length, d, x) /\ \A i \in 0 .. m - 1 : Eq(n * x[i], g[i])
  BY DEF Gives
<1>3. PICK y : Ints(y, n) /\ InCbuf(length, Product(b, c), y) /\ \A i \in 0 .. m - 1 : Eq(n * y[i], h[i])
  BY DEF Gives
<1> DEFINE z == [i \in 0 .. n - 1 |-> x[i] + y[i]]
<1>4. Ints(z, n) /\ \A i \in 0 .. n - 1 : Eq(z[i], x[i] + y[i])
  BY <1>2, <1>3, EqBasics DEF Ints
<1>5. InCbuf(length, ConvolveAdd(b, c, d), z)
  <2> HIDE DEF z
  <2> QED BY <1>2, <1>3, <1>4, ConvolveAddIs
<1>6. ASSUME NEW i \in 0 .. m - 1
      PROVE  Eq(n * z[i], s[i])
  <2>0. i \in 0 .. n - 1
    BY <1>1
  <2>1. PICK p, q, u, v \in Int : p = x[i] /\ q = y[i] /\ u = g[i] /\ v = h[i]
    BY <1>2, <1>3, <2>0 DEF Ints
  <2>2. PICK np, nq \in Int : np = n * p /\ nq = n * q
    BY <1>1
  <2>3. Eq(np, u) /\ Eq(nq, v)
    BY <1>2, <1>3, <2>1, <2>2
  <2>4. Eq(np + nq, u + v)
    BY <2>3, EqPlus
  <2>5. n * (p + q) = np + nq
    BY <1>1, <2>2
  <2>6. z[i] = p + q
    BY <2>0, <2>1
  <2> QED BY <2>1, <2>4, <2>5, <2>6, EqBasics
<1> QED BY <1>4, <1>5, <1>6 DEF Gives

-----------------------------------------------------------------------------
(* Signals.                                                                *)

\* Sample t of channel c, of the blocks f of length l, and the signal.
Smp(l, f, c, t) == IF t < 0 THEN 0 ELSE f[t \div l + 1][((t % l) + c - 1) % l]
Sig(l, nt, f, t) ==
  IF nt = "mixed" THEN Sum([c \in 0 .. 2 |-> (InScale + c) * Smp(l, f, c + 1, t)], 3)
  ELSE IF nt = "subsample" THEN Smp(l, f, 1, t)
  ELSE InScale * Smp(l, f, 1, t)
Input(l, nt, f) == [t \in Int |-> Sig(l, nt, f, t)]

Fed(l, f) == f \in Seq([0 .. l - 1 -> 0 .. P - 1])

\* A signal is known up to time T, and zero before 0.
Known(s, T) == \A t \in Int : t < T => s[t] \in Int
Silent(s) == \A t \in Int : t < 0 => s[t] = 0
Agree(s, u, T) == \A t \in Int : t < T => s[t] = u[t]

LEMMA BlockOf ==
  ASSUME NEW l \in Nat \ {0}, NEW N \in Nat, NEW t \in Int, ~(t < 0), t < N * l
  PROVE  t \div l \in Int /\ t \div l + 1 \in 1 .. N
<1>1. PICK q \in Int : q = t \div l
  BY RemFacts
<1>2. PICK r \in 0 .. l - 1 : t = l * q + r
  BY <1>1, RemFacts
<1>3. q >= 0
  <2>1. SUFFICES ASSUME q < 0 PROVE FALSE
    BY <1>1
  <2>2. l * q <= -l
    BY ONLY <2>1, q \in Int, l \in Nat \ {0}
  <2>3. PICK m \in Int : m = l * q
    OBVIOUS
  <2> QED BY <1>2, <2>2, <2>3
<1>4. q < N
  <2>1. SUFFICES ASSUME q >= N PROVE FALSE
    BY <1>1
  <2>2. l * q >= N * l
    BY ONLY <2>1, q \in Int, l \in Nat \ {0}, N \in Nat
  <2>3. PICK m, k \in Int : m = l * q /\ k = N * l
    OBVIOUS
  <2> QED BY <1>2, <2>2, <2>3
<1> QED BY <1>1, <1>3, <1>4

LEMMA SmpIs ==
  ASSUME NEW l \in Lengths, NEW f, Fed(l, f), NEW c \in Channels, NEW t \in Int, t < Len(f) * l
  PROVE  Smp(l, f, c, t) \in Field /\ Smp(l, f, c, t) \in Int
<1>1. l \in Nat \ {0} /\ Len(f) \in Nat /\ c \in Int
  <2>1. l \in Nat \ {0}
    BY SpectrumAssumption
  <2>2. Len(f) \in Nat
    BY DEF Fed
  <2> QED BY <2>1, <2>2 DEF Channels
<1>2. CASE t < 0
  BY <1>2, PNat DEF Smp, Field
<1>3. CASE ~(t < 0)
  <2>1. PICK q \in Int : q = t \div l /\ q + 1 \in 1 .. Len(f)
    BY <1>1, <1>3, BlockOf
  <2>2. PICK r \in Int : r = t % l
    BY <1>1, RemFacts
  <2>4. PICK i \in Int : i = r + c - 1
    BY <1>1
  <2>5. i % l \in 0 .. l - 1
    BY <1>1, RemFacts
  <2>6. f[q + 1] \in [0 .. l - 1 -> 0 .. P - 1]
    BY <2>1 DEF Fed
  <2>7. Smp(l, f, c, t) = f[q + 1][i % l]
    BY <1>3, <2>1, <2>2, <2>4 DEF Smp
  <2>8. f[q + 1][i % l] \in 0 .. P - 1
    BY ONLY <2>5, <2>6
  <2> QED BY <2>7, <2>8, PNat DEF Field
<1> QED BY <1>2, <1>3

LEMMA SmpGrows ==
  ASSUME NEW l \in Lengths, NEW f, Fed(l, f), NEW x \in [0 .. l - 1 -> 0 .. P - 1], NEW c, NEW t \in Int, t < Len(f) * l
  PROVE  /\ Fed(l, Append(f, x)) /\ Len(Append(f, x)) = Len(f) + 1 /\ Append(f, x)[Len(f) + 1] = x
         /\ Smp(l, Append(f, x), c, t) = Smp(l, f, c, t)
<1>1. l \in Nat \ {0} /\ Len(f) \in Nat
  BY LengthPos DEF Fed
<1>2. Fed(l, Append(f, x)) /\ Len(Append(f, x)) = Len(f) + 1 /\ Append(f, x)[Len(f) + 1] = x
  BY DEF Fed
<1>3. CASE t < 0
  BY <1>2, <1>3 DEF Smp
<1>4. CASE ~(t < 0)
  <2>1. PICK q \in Int : q = t \div l /\ q + 1 \in 1 .. Len(f)
    BY <1>1, <1>4, BlockOf
  <2>4. Append(f, x)[q + 1] = f[q + 1]
    BY <2>1 DEF Fed
  <2> QED BY <1>2, <2>1, <2>4 DEF Smp
<1> QED BY <1>2, <1>3, <1>4

\* The terms of a signal of three channels.
MixedTerms(l, f, t) == [c \in 0 .. 2 |-> (InScale + c) * Smp(l, f, c + 1, t)]

LEMMA MixedTermsAre ==
  ASSUME NEW l \in Lengths, NEW f, Fed(l, f), NEW t \in Int, t < Len(f) * l
  PROVE  Ints(MixedTerms(l, f, t), 3) /\ Sum(MixedTerms(l, f, t), 3) \in Int
<1>1. ASSUME NEW c \in 0 .. 2
      PROVE  MixedTerms(l, f, t)[c] \in Int
  <2>1. c + 1 \in Channels /\ InScale \in Int
    BY SpectrumAssumption DEF Channels
  <2>2. PICK v \in Int : v = Smp(l, f, c + 1, t)
    BY <2>1, SmpIs
  <2>3. (InScale + c) * v \in Int
    BY <2>1
  <2> QED BY <2>2, <2>3 DEF MixedTerms
<1>2. Ints(MixedTerms(l, f, t), 3)
  BY <1>1 DEF Ints
<1> QED BY 3 \in Nat, <1>2, SumIs

LEMMA InputKnown ==
  ASSUME NEW l \in Lengths, NEW nt, NEW f, Fed(l, f)
  PROVE  Known(Input(l, nt, f), Len(f) * l) /\ Silent(Input(l, nt, f))
<1>1. Len(f) \in Nat /\ l \in Nat /\ InScale \in Int /\ 1 \in Channels
  BY LengthIs, SpectrumAssumption DEF Fed, Channels
<1>2. ASSUME NEW t \in Int, t < Len(f) * l
      PROVE  Input(l, nt, f)[t] \in Int
  <2>1. PICK v \in Int : v = Smp(l, f, 1, t)
    BY <1>1, <1>2, SmpIs
  <2>2. InScale * v \in Int
    BY <1>1
  <2>3. Input(l, nt, f)[t] = IF nt = "mixed" THEN Sum(MixedTerms(l, f, t), 3)
                             ELSE IF nt = "subsample" THEN v ELSE InScale * v
    BY <2>1 DEF Input, Sig, MixedTerms
  <2> QED BY <1>2, <2>2, <2>3, MixedTermsAre
<1>3. ASSUME NEW t \in Int, t < 0
      PROVE  Input(l, nt, f)[t] = 0
  <2>1. \A c : Smp(l, f, c, t) = 0
    BY <1>3 DEF Smp
  <2>2. InScale * 0 = 0
    BY <1>1
  <2>3. Sum(MixedTerms(l, f, t), 3) = 0
    <3>0. t < Len(f) * l
      <4>1. Len(f) * l >= 0
        BY ONLY <1>1
      <4> QED BY <1>1, <1>3, <4>1
    <3>1. \A c \in 0 .. 3 - 1 : MixedTerms(l, f, t)[c] = 0
      <4>1. ASSUME NEW c \in 0 .. 2
            PROVE  (InScale + c) * 0 = 0
        BY <1>1
      <4> QED BY <2>1, <4>1 DEF MixedTerms
    <3>2. Ints(MixedTerms(l, f, t), 3)
      BY <3>0, MixedTermsAre
    <3> HIDE DEF MixedTerms
    <3>3. Eq(Sum(MixedTerms(l, f, t), 3), 3 * 0) /\ 3 * 0 = 0
      <4>1. \A c \in 0 .. 3 - 1 : Eq(MixedTerms(l, f, t)[c], 0)
        BY <3>1, EqBasics
      <4>2. Eq(Sum(MixedTerms(l, f, t), 3), 3 * 0)
        BY ONLY 3 \in Nat, 0 \in Int, <3>2, <4>1, SumConstant
      <4>3. 3 * 0 = 0
        OBVIOUS
      <4> QED BY <4>2, <4>3
    <3>4. Sum(MixedTerms(l, f, t), 3) \in 0 .. P - 1 /\ 0 \in 0 .. P - 1
      BY 3 \in Nat, <3>2, SumIs, PNat DEF Field
    <3> QED BY <3>3, <3>4, EqSame
  <2>4. Input(l, nt, f)[t] = IF nt = "mixed" THEN Sum(MixedTerms(l, f, t), 3)
                             ELSE IF nt = "subsample" THEN 0 ELSE InScale * 0
    BY <2>1 DEF Input, Sig, MixedTerms
  <2> QED BY <2>2, <2>3, <2>4
<1> QED BY <1>2, <1>3 DEF Known, Silent

LEMMA InputGrows ==
  ASSUME NEW l \in Lengths, NEW nt, NEW f, Fed(l, f), NEW x \in [0 .. l - 1 -> 0 .. P - 1]
  PROVE  Agree(Input(l, nt, Append(f, x)), Input(l, nt, f), Len(f) * l)
<1>1. ASSUME NEW t \in Int, t < Len(f) * l
      PROVE  Sig(l, nt, Append(f, x), t) = Sig(l, nt, f, t)
  <2>1. \A c : Smp(l, Append(f, x), c, t) = Smp(l, f, c, t)
    BY <1>1, SmpGrows
  <2>2. [c \in 0 .. 2 |-> (InScale + c) * Smp(l, Append(f, x), c + 1, t)] =
        [c \in 0 .. 2 |-> (InScale + c) * Smp(l, f, c + 1, t)]
    BY <2>1
  <2> QED BY <2>1, <2>2 DEF Sig
<1> QED BY <1>1 DEF Agree, Input

-----------------------------------------------------------------------------
(* Filters.  "D" is the one of dirac_convolve.                             *)

Names == {"A", "B", "D"}
Tap(nc, name, i) ==
  IF name = "D" THEN (IF i = 0 THEN 1 ELSE 0) ELSE IF i < nc THEN CoeffScale * Taps(name, i) ELSE 0

\* Block b of the coefficients, and block k of a signal with its overlap.
CoefVec(l, nc, name, b) == [i \in 0 .. l - 1 |-> Tap(nc, name, b * l + i)]
Seen(l, s, k) == [i \in 0 .. 2 * l - 1 |-> s[(k - 2) * l + i]]

FltTerms(nc, name, s, n, t) == [i \in 0 .. n - 1 |-> Tap(nc, name, i) * s[t - i]]
FltOf(nc, name, s, n) == [t \in Int |-> Sum(FltTerms(nc, name, s, n, t), n)]
PartTerms(l, nc, name, b, s, t) == [i \in 0 .. l - 1 |-> Tap(nc, name, b * l + i) * s[t - (b * l + i)]]

LEMMA TapIs ==
  ASSUME NEW nc \in CoeffLengths, NEW name \in Names, NEW i \in Nat
  PROVE  Tap(nc, name, i) \in Int
<1>1. CoeffScale \in Int /\ nc \in Nat
  BY SpectrumAssumption
<1>2. CASE name = "D"
  BY <1>2 DEF Tap
<1>3. CASE name # "D"
  <2>1. CASE i < nc
    <3>1. i \in 0 .. nc - 1
      BY <1>1, <2>1
    <3>2. Taps(name, i) \in Int
      BY <1>3, <3>1, SpectrumAssumption DEF Names
    <3>3. PICK x \in Int : x = Taps(name, i)
      BY <3>2
    <3>4. CoeffScale * x \in Int
      BY <1>1
    <3> QED BY <1>3, <2>1, <3>3, <3>4 DEF Tap
  <2>2. CASE ~(i < nc)
    BY <1>3, <2>2 DEF Tap
  <2> QED BY <2>1, <2>2
<1> QED BY <1>2, <1>3

LEMMA TermsAre ==
  ASSUME NEW nc \in CoeffLengths, NEW name \in Names, NEW s, NEW T \in Int, Known(s, T), NEW t \in Int, t < T
  PROVE  /\ \A n \in Nat : Ints(FltTerms(nc, name, s, n, t), n)
         /\ \A l \in Nat : \A b \in Nat : Ints(PartTerms(l, nc, name, b, s, t), l)
<1>1. ASSUME NEW i \in Nat
      PROVE  Tap(nc, name, i) * s[t - i] \in Int
  <2>1. t - i \in Int /\ t - i < T
    OBVIOUS
  <2>2. PICK u, v \in Int : u = Tap(nc, name, i) /\ v = s[t - i]
    BY <2>1, TapIs DEF Known
  <2>3. u * v \in Int
    OBVIOUS
  <2> QED BY <2>2, <2>3
<1>2. ASSUME NEW n \in Nat
      PROVE  Ints(FltTerms(nc, name, s, n, t), n)
  BY <1>1 DEF Ints, FltTerms
<1>3. ASSUME NEW l \in Nat, NEW b \in Nat
      PROVE  Ints(PartTerms(l, nc, name, b, s, t), l)
  <2>1. ASSUME NEW i \in 0 .. l - 1
        PROVE  PartTerms(l, nc, name, b, s, t)[i] \in Int
    <3>1. PICK m \in Nat : m = b * l + i
      OBVIOUS
    <3> QED BY <1>1, <3>1 DEF PartTerms
  <2> QED BY <2>1 DEF Ints
<1> QED BY <1>2, <1>3

LEMMA FltKnown ==
  ASSUME NEW nc \in CoeffLengths, NEW name \in Names, NEW s, NEW T \in Int, Known(s, T), NEW n \in Nat
  PROVE  /\ Known(FltOf(nc, name, s, n), T)
         /\ T >= 0 /\ Silent(s) => Silent(FltOf(nc, name, s, n))
         /\ \A u : Agree(u, s, T) => Agree(FltOf(nc, name, u, n), FltOf(nc, name, s, n), T)
<1>1. ASSUME NEW t \in Int, t < T
      PROVE  FltOf(nc, name, s, n)[t] \in Int /\ Ints(FltTerms(nc, name, s, n, t), n)
  <2>1. Ints(FltTerms(nc, name, s, n, t), n)
    BY <1>1, TermsAre
  <2>2. FltOf(nc, name, s, n)[t] = Sum(FltTerms(nc, name, s, n, t), n)
    BY DEF FltOf
  <2> HIDE DEF FltTerms
  <2> QED BY <2>1, <2>2, SumIs
<1>2. ASSUME T >= 0, Silent(s), NEW t \in Int, t < 0
      PROVE  FltOf(nc, name, s, n)[t] = 0
  <2> DEFINE f == FltTerms(nc, name, s, n, t)
  <2>1. Ints(f, n) /\ FltOf(nc, name, s, n)[t] = Sum(f, n)
    BY <1>1, <1>2 DEF FltOf
  <2>2. ASSUME NEW i \in 0 .. n - 1
        PROVE  Eq(f[i], 0)
    <3>1. t - i \in Int /\ t - i < 0 /\ i \in Nat
      BY <1>2
    <3>2. s[t - i] = 0
      BY <1>2, <3>1 DEF Silent
    <3>3. PICK u \in Int : u = Tap(nc, name, i)
      BY <3>1, TapIs
    <3>4. u * 0 = 0
      OBVIOUS
    <3> QED BY <3>2, <3>3, <3>4, EqBasics DEF FltTerms
  <2> HIDE DEF f
  <2>3. Eq(Sum(f, n), n * 0)
    BY 0 \in Int, <2>1, <2>2, SumConstant
  <2>4. n * 0 = 0 /\ 0 \in 0 .. P - 1
    BY PNat
  <2>5. Sum(f, n) \in 0 .. P - 1
    BY <2>1, SumIs DEF Field
  <2> QED BY <2>1, <2>3, <2>4, <2>5, EqSame
<1>3. ASSUME NEW u, Agree(u, s, T), NEW t \in Int, t < T
      PROVE  FltOf(nc, name, u, n)[t] = FltOf(nc, name, s, n)[t]
  <2>1. ASSUME NEW i \in 0 .. n - 1
        PROVE  u[t - i] = s[t - i]
    <3>1. t - i \in Int /\ t - i < T
      BY <1>3
    <3> QED BY <1>3, <3>1 DEF Agree
  <2>2. FltTerms(nc, name, u, n, t) = FltTerms(nc, name, s, n, t)
    BY <2>1 DEF FltTerms
  <2> QED BY <2>2 DEF FltOf
<1>4. Known(FltOf(nc, name, s, n), T)
  BY <1>1 DEF Known
<1>5. T >= 0 /\ Silent(s) => Silent(FltOf(nc, name, s, n))
  BY <1>2 DEF Silent
<1>6. \A u : Agree(u, s, T) => Agree(FltOf(nc, name, u, n), FltOf(nc, name, s, n), T)
  BY <1>3 DEF Agree
<1> QED BY <1>4, <1>5, <1>6

LEMMA SeenIs ==
  ASSUME NEW l \in Lengths, NEW s, NEW k \in Int, Known(s, k * l)
  PROVE  /\ Ints(Seen(l, s, k), 2 * l)
         /\ \A u : Agree(u, s, k * l) => Seen(l, u, k) = Seen(l, s, k)
<1>1. l \in Nat /\ l \in Int
  BY LengthIs
<1>2. ASSUME NEW i \in 0 .. 2 * l - 1
      PROVE  (k - 2) * l + i \in Int /\ (k - 2) * l + i < k * l
  <2>1. PICK kl \in Int : kl = k * l
    BY <1>1
  <2>2. (k - 2) * l = kl - 2 * l
    BY <1>1, <2>1
  <2> QED BY <1>1, <2>1, <2>2
<1>3. Ints(Seen(l, s, k), 2 * l)
  BY <1>2 DEF Ints, Seen, Known
<1>4. \A u : Agree(u, s, k * l) => Seen(l, u, k) = Seen(l, s, k)
  BY <1>2 DEF Seen, Agree
<1> QED BY <1>3, <1>4

\* What block b of the coefficients adds to block k of the output.
PartGiven(l, nc, name, b, s, k) ==
  [j \in 0 .. l - 1 |-> Sum(PartTerms(l, nc, name, b, s, (k - 1) * l + j), l)]

LEMMA PartGives ==
  ASSUME length \in Lengths, NEW nc \in CoeffLengths, NEW name \in Names, NEW b \in Nat, NEW s, NEW k \in Int,
         Known(s, (k - b) * length), NEW v, InCbuf(length, v, Seen(length, s, k - b)),
         NEW cf, Coefs(length, cf, CoefVec(length, nc, name, b))
  PROVE  Gives(length, Product(v, cf), length, PartGiven(length, nc, name, b, s, k))
<1> DEFINE l == length
           x == Seen(l, s, k - b)
           c == CoefVec(l, nc, name, b)
           g == PartGiven(l, nc, name, b, s, k)
<1>1. l \in Nat /\ l \in Int /\ k - b \in Int
  BY LengthIs
<1>2. Ints(x, 2 * l)
  <2>1. PICK d \in Int : d = k - b
    BY <1>1
  <2> QED BY <2>1, SeenIs
<1>3. Ints(c, l)
  <2>1. ASSUME NEW i \in 0 .. l - 1
        PROVE  c[i] \in Int
    <3>1. PICK m \in Nat : m = b * l + i
      BY <1>1
    <3> QED BY <3>1, TapIs DEF CoefVec
  <2> QED BY <2>1 DEF Ints
<1>4. ASSUME NEW j \in 0 .. l - 1
      PROVE  g[j] = Sum(ConvTerms(l, c, x, j), l)
  <2>1. ASSUME NEW i \in 0 .. l - 1
        PROVE  c[i] * x[j + l - i] = Tap(nc, name, b * l + i) * s[((k - 1) * l + j) - (b * l + i)]
    <3>1. j + l - i \in 0 .. 2 * l - 1
      BY <1>1
    <3>2. PICK kl, bl \in Int : kl = k * l /\ bl = b * l
      BY <1>1
    <3>3. (k - b - 2) * l = kl - bl - 2 * l /\ (k - 1) * l = kl - l
      BY <1>1, <3>2
    <3>4. (k - b - 2) * l + (j + l - i) = ((k - 1) * l + j) - (b * l + i)
      BY <1>1, <3>2, <3>3
    <3> QED BY <3>1, <3>4 DEF CoefVec, Seen
  <2>2. ConvTerms(l, c, x, j) = PartTerms(l, nc, name, b, s, (k - 1) * l + j)
    BY <2>1 DEF ConvTerms, PartTerms
  <2> QED BY <2>2 DEF PartGiven
<1>5. \A j \in 0 .. l - 1 : Eq(g[j], Sum(ConvTerms(l, c, x, j), l))
  BY <1>4, EqBasics
<1> HIDE DEF x, c, g
<1>6. Gives(length, Product(v, cf), length, g)
  BY <1>2, <1>3, <1>5, Convolved DEF x, c
<1> QED BY <1>6 DEF g

\* Block k of a signal.
Block(l, u, k) == [j \in 0 .. l - 1 |-> u[(k - 1) * l + j]]

LEMMA GivesSame ==
  ASSUME NEW l, NEW v, NEW m, NEW g, NEW h, Gives(l, v, m, g), \A i \in 0 .. m - 1 : Eq(h[i], g[i])
  PROVE  Gives(l, v, m, h)
<1>1. PICK y : Ints(y, 2 * l) /\ InCbuf(l, v, y) /\ \A i \in 0 .. m - 1 : Eq(2 * l * y[i], g[i])
  BY DEF Gives
<1>2. \A i \in 0 .. m - 1 : Eq(2 * l * y[i], h[i])
  BY <1>1, EqBasics
<1> QED BY <1>1, <1>2 DEF Gives

LEMMA OnePart ==
  ASSUME NEW l \in Lengths, NEW nc, NEW name, NEW s, NEW t \in Int
  PROVE  FltTerms(nc, name, s, l, t) = PartTerms(l, nc, name, 0, s, t)
<1>1. l \in Nat
  BY LengthIs
<1>2. \A i \in 0 .. l - 1 : 0 * l + i = i
  BY <1>1
<1> QED BY <1>2 DEF FltTerms, PartTerms

LEMMA TwoParts ==
  ASSUME NEW l \in Lengths, NEW nc \in CoeffLengths, NEW name \in Names, NEW s, NEW T \in Int, Known(s, T),
         NEW t \in Int, t < T
  PROVE  /\ Eq(Sum(FltTerms(nc, name, s, 2 * l, t), 2 * l),
               Sum(PartTerms(l, nc, name, 0, s, t), l) + Sum(PartTerms(l, nc, name, 1, s, t), l))
         /\ t < l /\ Silent(s) => Sum(PartTerms(l, nc, name, 1, s, t), l) = 0
<1> DEFINE f == FltTerms(nc, name, s, 2 * l, t)
           f0 == FltTerms(nc, name, s, l, t)
           g == PartTerms(l, nc, name, 1, s, t)
<1>1. l \in Nat /\ 2 * l = l + l /\ 2 * l \in Nat /\ l \in Int
  BY LengthIs
<1>2. Ints(f, l + l) /\ Ints(f0, l)
  BY <1>1, TermsAre
<1>3. Ints(g, l)
  BY 1 \in Nat, <1>1, TermsAre
<1>4. \A i \in 0 .. l - 1 : g[i] = f[l + i]
  <2>1. ASSUME NEW i \in 0 .. l - 1
        PROVE  1 * l + i = l + i /\ l + i \in 0 .. 2 * l - 1
    BY <1>1
  <2> QED BY <2>1 DEF FltTerms, PartTerms
<1>5. \A i \in 0 .. l - 1 : Eq(f[i], f0[i])
  <2>1. \A i \in 0 .. l - 1 : i \in 0 .. 2 * l - 1
    BY <1>1
  <2> QED BY <2>1, EqBasics DEF FltTerms
<1>6. Ints(f, l) /\ Eq(Sum(f, l + l), Sum(f, l) + Sum(g, l))
  <2> HIDE DEF f, g
  <2> QED BY <1>1, <1>2, <1>4, SumSplit
<1>7. Sum(f, l) = Sum(f0, l)
  <2> HIDE DEF f, f0
  <2> QED BY <1>1, <1>2, <1>5, <1>6, SumEq
<1>8. f0 = PartTerms(l, nc, name, 0, s, t)
  BY OnePart
<1>9. ASSUME t < l, Silent(s)
      PROVE  Sum(g, l) = 0
  <2>1. ASSUME NEW i \in 0 .. l - 1
        PROVE  Eq(g[i], 0)
    <3>1. t - (1 * l + i) \in Int /\ t - (1 * l + i) < 0 /\ 1 * l + i \in Nat
      BY <1>1, <1>9
    <3>2. s[t - (1 * l + i)] = 0
      BY <1>9, <3>1 DEF Silent
    <3>3. PICK u \in Int : u = Tap(nc, name, 1 * l + i)
      BY <3>1, TapIs
    <3>4. u * 0 = 0
      OBVIOUS
    <3> QED BY <3>2, <3>3, <3>4, EqBasics DEF PartTerms
  <2> HIDE DEF g
  <2>2. Eq(Sum(g, l), l * 0)
    BY 0 \in Int, <1>1, <1>3, <2>1, SumConstant
  <2>3. l * 0 = 0 /\ 0 \in 0 .. P - 1
    BY <1>1, PNat
  <2>4. Sum(g, l) \in 0 .. P - 1
    BY <1>1, <1>3, SumIs DEF Field
  <2> QED BY <2>2, <2>3, <2>4, EqSame
<1> QED BY <1>1, <1>6, <1>7, <1>8, <1>9

LEMMA DiracTerms ==
  ASSUME NEW l \in Lengths, NEW nc \in CoeffLengths, NEW s, NEW T \in Int, Known(s, T), NEW t \in Int, t < T
  PROVE  Eq(Sum(FltTerms(nc, "D", s, l, t), l), s[t])
<1> DEFINE f == FltTerms(nc, "D", s, l, t)
<1>1. l \in Nat /\ 0 \in 0 .. l - 1
  BY LengthPos
<1>2. Ints(f, l)
  BY <1>1, TermsAre DEF Names
<1>3. PICK v \in Int : v = s[t]
  BY DEF Known
<1>4. f[0] = v
  <2>1. t - 0 = t /\ 1 * v = v
    OBVIOUS
  <2> QED BY <1>1, <1>3, <2>1 DEF FltTerms, Tap
<1>5. ASSUME NEW i \in 0 .. l - 1, i # 0
      PROVE  Eq(f[i], 0)
  <2>1. t - i \in Int /\ t - i < T
    BY <1>1
  <2>2. PICK u \in Int : u = s[t - i]
    BY <2>1 DEF Known
  <2>3. 0 * u = 0
    OBVIOUS
  <2> QED BY <1>5, <2>2, <2>3, EqBasics DEF FltTerms, Tap
<1> HIDE DEF f
<1>6. Eq(Sum(f, l), f[0])
  BY <1>1, <1>2, <1>5, SumSingle
<1> QED BY <1>3, <1>4, <1>6 DEF f

\* A block through a filter of one block.
LEMMA FilterGives ==
  ASSUME length \in Lengths, NEW nc \in CoeffLengths, NEW name \in Names, NEW s, NEW k \in Int,
         Known(s, k * length), NEW v, InCbuf(length, v, Seen(length, s, k)),
         NEW cf, Coefs(length, cf, CoefVec(length, nc, name, 0))
  PROVE  Gives(length, Product(v, cf), length, Block(length, FltOf(nc, name, s, length), k))
<1> DEFINE g == PartGiven(length, nc, name, 0, s, k)
<1>1. length \in Nat /\ length \in Int
  BY LengthIs
<1>2. Gives(length, Product(v, cf), length, g)
  <2>1. k - 0 = k
    OBVIOUS
  <2> QED BY 0 \in Nat, <2>1, PartGives
<1>3. g = Block(length, FltOf(nc, name, s, length), k)
  <2>1. ASSUME NEW j \in 0 .. length - 1
        PROVE  (k - 1) * length + j \in Int
    BY <1>1
  <2>2. ASSUME NEW j \in 0 .. length - 1
        PROVE  Sum(PartTerms(length, nc, name, 0, s, (k - 1) * length + j), length)
               = FltOf(nc, name, s, length)[(k - 1) * length + j]
    <3>1. PICK t \in Int : t = (k - 1) * length + j
      BY <2>1
    <3>2. FltOf(nc, name, s, length)[t] = Sum(FltTerms(nc, name, s, length, t), length)
      BY DEF FltOf
    <3> QED BY <3>1, <3>2, OnePart
  <2> QED BY <2>2 DEF PartGiven, Block
<1> QED BY <1>2, <1>3

\* A filter of two blocks.
LEMMA LongFilterGives ==
  ASSUME length \in Lengths, NEW nc \in CoeffLengths, NEW name \in Names, NEW s, NEW k \in Nat \ {0},
         Known(s, k * length), Silent(s), NEW d, Gives(length, d, length, PartGiven(length, nc, name, 0, s, k))
  PROVE  /\ k = 1 => Gives(length, d, length, Block(length, FltOf(nc, name, s, 2 * length), k))
         /\ \A v, cf : Ints(v, 2 * length) /\ Ints(cf, 2 * length)
                       /\ Gives(length, Product(v, cf), length, PartGiven(length, nc, name, 1, s, k))
                       => Gives(length, ConvolveAdd(v, cf, d), length, Block(length, FltOf(nc, name, s, 2 * length), k))
<1> DEFINE l == length
           g == PartGiven(l, nc, name, 0, s, k)
           h == PartGiven(l, nc, name, 1, s, k)
           w == Block(l, FltOf(nc, name, s, 2 * l), k)
<1>1. l \in Nat /\ l \in Int /\ l \in 0 .. 2 * l
  BY LengthIs
<1>2. ASSUME NEW j \in 0 .. l - 1
      PROVE  /\ g[j] \in Int /\ h[j] \in Int /\ Eq(w[j], g[j] + h[j]) /\ (k = 1 => h[j] = 0)
  <2>1. PICK t \in Int : t = (k - 1) * l + j
    BY <1>1
  <2>2. t < k * l
    <3>1. PICK kl \in Int : kl = k * l
      BY <1>1
    <3>2. (k - 1) * l = kl - l
      BY <1>1, <3>1
    <3> QED BY <1>1, <2>1, <3>1, <3>2
  <2>3. PICK T \in Int : T = k * l
    BY <1>1
  <2>4. Eq(Sum(FltTerms(nc, name, s, 2 * l, t), 2 * l),
           Sum(PartTerms(l, nc, name, 0, s, t), l) + Sum(PartTerms(l, nc, name, 1, s, t), l))
    BY <2>2, <2>3, TwoParts
  <2>5. k = 1 => Sum(PartTerms(l, nc, name, 1, s, t), l) = 0
    <3>1. k = 1 => t < l
      BY <1>1, <2>1
    <3> QED BY <2>2, <2>3, <3>1, TwoParts
  <2>6. w[j] = Sum(FltTerms(nc, name, s, 2 * l, t), 2 * l)
    BY <2>1 DEF Block, FltOf
  <2>7. g[j] = Sum(PartTerms(l, nc, name, 0, s, t), l) /\ h[j] = Sum(PartTerms(l, nc, name, 1, s, t), l)
    BY <2>1 DEF PartGiven
  <2>8. g[j] \in Int /\ h[j] \in Int
    <3>1. Ints(PartTerms(l, nc, name, 0, s, t), l)
      BY 0 \in Nat, <1>1, <2>2, <2>3, TermsAre
    <3>2. Ints(PartTerms(l, nc, name, 1, s, t), l)
      BY 1 \in Nat, <1>1, <2>2, <2>3, TermsAre
    <3> HIDE DEF PartTerms
    <3> QED BY <1>1, <2>7, <3>1, <3>2, SumIs
  <2> HIDE DEF g, h, w
  <2> QED BY <2>4, <2>5, <2>6, <2>7, <2>8
<1>3. Ints(g, l) /\ Ints(h, l)
  BY <1>2 DEF Ints
<1> HIDE DEF g, h, w
<1>4. ASSUME k = 1
      PROVE  Gives(l, d, l, w)
  <2>1. ASSUME NEW j \in 0 .. l - 1
        PROVE  Eq(w[j], g[j])
    <3>1. h[j] = 0 /\ g[j] + 0 = g[j]
      BY <1>2, <1>4
    <3> QED BY <1>2, <3>1
  <2> QED BY <2>1, GivesSame DEF g
<1>5. ASSUME NEW v, NEW cf, Ints(v, 2 * l), Ints(cf, 2 * l), Gives(l, Product(v, cf), l, h)
      PROVE  Gives(l, ConvolveAdd(v, cf, d), l, w)
  BY <1>1, <1>2, <1>3, <1>5, AddGives DEF g
<1> QED BY <1>4, <1>5 DEF h, w

-----------------------------------------------------------------------------
(* Coefficients.                                                           *)

LEMMA CoefVecIs ==
  ASSUME NEW l \in Lengths, NEW nc \in CoeffLengths, NEW name \in Names, NEW b \in Nat
  PROVE  Ints(CoefVec(l, nc, name, b), l)
<1>1. l \in Nat
  BY LengthIs
<1>2. ASSUME NEW i \in 0 .. l - 1
      PROVE  CoefVec(l, nc, name, b)[i] \in Int
  <2>1. PICK m \in Nat : m = b * l + i
    BY <1>1
  <2> QED BY <2>1, TapIs DEF CoefVec
<1> QED BY <1>2 DEF Ints

\* What preprocess_coeff has for entry i of block b.
LEMMA PieceIs ==
  ASSUME length \in Lengths, nCoeffs \in CoeffLengths, NEW b \in {0, 1}
  PROVE  /\ PieceLength(b) \in 0 .. length
         /\ \A i \in 0 .. length - 1 : i < PieceLength(b) <=> b * length + i < nCoeffs
<1>1. length \in Nat /\ nCoeffs \in Nat
  BY LengthIs, SpectrumAssumption
<1>2. CASE b = 0
  <2>1. PieceLength(b) = IF nCoeffs < 0 THEN 0 ELSE IF length > nCoeffs THEN nCoeffs ELSE length
    <3>1. b * length = 0 /\ (b + 1) * length = length /\ nCoeffs - 0 = nCoeffs
      BY <1>1, <1>2
    <3> QED BY <1>1, <3>1 DEF PieceLength
  <2>2. b * length = 0
    BY <1>1, <1>2
  <2> QED BY <1>1, <2>1, <2>2
<1>3. CASE b = 1
  <2>1. PieceLength(b) = IF length > nCoeffs THEN 0 ELSE IF 2 * length > nCoeffs THEN nCoeffs - length ELSE length
    <3>1. b * length = length /\ (b + 1) * length = 2 * length
      BY <1>1, <1>3
    <3> QED BY <1>1, <3>1 DEF PieceLength
  <2>2. b * length = length
    BY <1>1, <1>3
  <2> QED BY <1>1, <2>1, <2>2
<1> QED BY <1>2, <1>3

LEMMA CoeffsGive ==
  ASSUME length \in Lengths, nCoeffs \in CoeffLengths, NEW b \in {0, 1}, NEW name \in {"A", "B"}
  PROVE  /\ Coeffs2Cbuf(Piece(name, b), PieceLength(b), CoeffScale) \in [Whole -> Field]
         /\ Coefs(length, Coeffs2Cbuf(Piece(name, b), PieceLength(b), CoeffScale), CoefVec(length, nCoeffs, name, b))
<1> DEFINE l == length
           c == CoefVec(l, nCoeffs, name, b)
           n == PieceLength(b)
           r == [i \in Whole |-> IF l <= i /\ i < l + n THEN (Piece(name, b)[i - l] * CoeffScale) % P ELSE 0]
           v == MixInput(<<R2HC(NFft, r)>>, <<Inverse(NFft)>>)
<1>1. l \in Nat /\ Whole = 0 .. 2 * l - 1 /\ nCoeffs \in Nat /\ CoeffScale \in Int /\ b \in Nat /\ name \in Names
  <2>1. l \in Nat /\ Whole = 0 .. 2 * l - 1
    BY LengthIs DEF Whole, NFft
  <2>2. nCoeffs \in Nat /\ CoeffScale \in Int
    BY SpectrumAssumption
  <2>3. b \in Nat /\ name \in Names
    BY DEF Names
  <2> QED BY <2>1, <2>2, <2>3
<1>2. n \in 0 .. l /\ \A i \in 0 .. l - 1 : i < n <=> b * l + i < nCoeffs
  BY PieceIs
<1>3. ASSUME NEW i \in 0 .. 2 * l - 1
      PROVE  r[i] \in Int /\ Eq(Behind(l, c)[i], r[i])
  <2>1. r[i] = IF l <= i /\ i < l + n THEN (Piece(name, b)[i - l] * CoeffScale) % P ELSE 0
    BY <1>1
  <2> HIDE DEF r
  <2>2. CASE i < l
    <3>1. r[i] = 0
      BY <1>1, <2>1, <2>2
    <3>2. Behind(l, c)[i] = 0
      BY <2>2 DEF Behind
    <3> QED BY <3>1, <3>2, EqBasics
  <2>3. CASE ~(i < l)
    <3>1. PICK m \in 0 .. l - 1 : m = i - l
      BY <1>1, <2>3
    <3>2. Behind(l, c)[i] = Tap(nCoeffs, name, b * l + m)
      BY <2>3, <3>1 DEF Behind, CoefVec
    <3>3. (l <= i /\ i < l + n) <=> m < n
      BY <1>1, <1>2, <2>3, <3>1
    <3>4. PICK d \in Nat : d = b * l + m
      BY <1>1
    <3>5. CASE m < n
      <4>1. Piece(name, b)[m] = Taps(name, d)
        BY <1>2, <3>4, <3>5 DEF Piece
      <4>2. d < nCoeffs
        BY <1>2, <3>4, <3>5
      <4>3. Taps(name, d) \in Int
        <5>1. d \in 0 .. nCoeffs - 1
          BY <1>1, <4>2
        <5> QED BY <5>1, SpectrumAssumption
      <4>4. PICK x, sc, y \in Int : x = Taps(name, d) /\ sc = CoeffScale /\ y = x * sc
        BY <1>1, <4>3
      <4>5. r[i] = y % P
        BY <2>1, <3>1, <3>3, <3>5, <4>1, <4>4
      <4>6. name # "D"
        OBVIOUS
      <4>7. Behind(l, c)[i] = y
        <5>1. Behind(l, c)[i] = sc * x
          BY <3>2, <3>4, <4>2, <4>4, <4>6 DEF Tap
        <5>2. sc * x = y
          BY <4>4
        <5> QED BY <5>1, <5>2
      <4> QED BY <4>5, <4>7, EqRemainder, EqBasics
    <3>6. CASE ~(m < n)
      <4>1. r[i] = 0
        BY <2>1, <3>3, <3>6
      <4>2. ~(d < nCoeffs) /\ name # "D"
        BY <1>2, <3>4, <3>6
      <4>3. Behind(l, c)[i] = 0
        BY <3>2, <3>4, <4>2 DEF Tap
      <4> QED BY <4>1, <4>3, EqBasics
    <3> QED BY <3>5, <3>6
  <2> QED BY <2>2, <2>3
<1>4. Ints(r, 2 * l)
  BY <1>3 DEF Ints
<1>5. v \in [Whole -> Field] /\ Gives(l, v, 2 * l, r)
  <2> HIDE DEF r
  <2> QED BY <1>4, FromTime
<1>6. Gives(l, v, 2 * l, Behind(l, c))
  <2> HIDE DEF r, v, c
  <2> QED BY <1>3, <1>5, GivesSame
<1>7. Coeffs2Cbuf(Piece(name, b), PieceLength(b), CoeffScale) = v
  BY DEF Coeffs2Cbuf
<1> HIDE DEF v
<1> QED BY <1>5, <1>6, <1>7 DEF Coefs

LEMMA RuntimeGives ==
  ASSUME length \in Lengths, nCoeffs \in CoeffLengths, NEW src,
         src = [n \in Half |-> IF n < nCoeffs THEN (Taps("A", n) * CoeffScale) % P ELSE 0]
  PROVE  /\ RuntimeCoeffs2Cbuf(src) \in [Whole -> Field]
         /\ Coefs(length, RuntimeCoeffs2Cbuf(src), CoefVec(length, nCoeffs, "A", 0))
<1> DEFINE l == length
           c == CoefVec(l, nCoeffs, "A", 0)
           r == [i \in Whole |-> IF i < l THEN 0 ELSE src[i - l]]
           v == MixInput(<<R2HC(NFft, r)>>, <<Inverse(NFft)>>)
<1>1. l \in Nat /\ Whole = 0 .. 2 * l - 1 /\ nCoeffs \in Nat /\ CoeffScale \in Int /\ Half = 0 .. l - 1
  BY LengthIs, SpectrumAssumption DEF Whole, NFft, Half
<1>3. ASSUME NEW i \in 0 .. 2 * l - 1
      PROVE  r[i] \in Int /\ Eq(Behind(l, c)[i], r[i])
  <2>1. r[i] = IF i < l THEN 0 ELSE src[i - l]
    BY <1>1
  <2> HIDE DEF r
  <2>2. CASE i < l
    <3>2. Behind(l, c)[i] = 0
      BY <2>2 DEF Behind
    <3> QED BY <2>1, <2>2, <3>2, EqBasics
  <2>3. CASE ~(i < l)
    <3>1. PICK m \in 0 .. l - 1 : m = i - l
      BY <1>1, <2>3
    <3>2. Behind(l, c)[i] = Tap(nCoeffs, "A", m)
      <4>1. 0 * l + m = m
        BY <1>1
      <4> QED BY <2>3, <3>1, <4>1 DEF Behind, CoefVec
    <3>3. r[i] = IF m < nCoeffs THEN (Taps("A", m) * CoeffScale) % P ELSE 0
      BY <1>1, <2>1, <2>3, <3>1
    <3>5. CASE m < nCoeffs
      <4>3. Taps("A", m) \in Int
        <5>1. m \in 0 .. nCoeffs - 1
          BY <1>1, <3>5
        <5> QED BY <5>1, SpectrumAssumption
      <4>4. PICK x, sc, y \in Int : x = Taps("A", m) /\ sc = CoeffScale /\ y = x * sc
        BY <1>1, <4>3
      <4>5. r[i] = y % P
        BY <3>3, <3>5, <4>4
      <4>7. Behind(l, c)[i] = y
        <5>1. Behind(l, c)[i] = sc * x
          BY <3>2, <3>5, <4>4 DEF Tap
        <5>2. sc * x = y
          BY <4>4
        <5> QED BY <5>1, <5>2
      <4> QED BY <4>5, <4>7, EqRemainder, EqBasics
    <3>6. CASE ~(m < nCoeffs)
      <4>1. r[i] = 0
        BY <3>3, <3>6
      <4>3. Behind(l, c)[i] = 0
        BY <3>2, <3>6 DEF Tap
      <4> QED BY <4>1, <4>3, EqBasics
    <3> QED BY <3>5, <3>6
  <2> QED BY <2>2, <2>3
<1>4. Ints(r, 2 * l)
  BY <1>3 DEF Ints
<1>5. v \in [Whole -> Field] /\ Gives(l, v, 2 * l, r)
  <2> HIDE DEF r
  <2> QED BY <1>4, FromTime
<1>6. Gives(l, v, 2 * l, Behind(l, c))
  <2> HIDE DEF r, v, c
  <2> QED BY <1>3, <1>5, GivesSame
<1>7. RuntimeCoeffs2Cbuf(src) = v
  BY DEF RuntimeCoeffs2Cbuf
<1> HIDE DEF v
<1> QED BY <1>5, <1>6, <1>7 DEF Coefs

\* The coefficients dirac_convolve does without.
LEMMA DiracGives ==
  ASSUME NEW l \in Lengths, NEW nc
  PROVE  Coefs(l, DiracBuf(l), CoefVec(l, nc, "D", 0))
<1> DEFINE c == CoefVec(l, nc, "D", 0)
<1>1. l \in Nat \ {0}
  BY SpectrumAssumption
<1>2. ASSUME NEW i \in 0 .. 2 * l - 1
      PROVE  Eq(2 * l * Impulse(l)[i], Behind(l, c)[i])
  <2>1. CASE i = l
    <3>1. Behind(l, c)[i] = 1
      <4>1. ~(i < l) /\ i - l = 0 /\ 0 \in 0 .. l - 1 /\ 0 * l + 0 = 0
        BY <1>1, <2>1
      <4> QED BY <4>1 DEF Behind, CoefVec, Tap
    <3>2. Impulse(l)[i] = Inverse(2 * l)
      BY <2>1 DEF Impulse
    <3> QED BY <3>1, <3>2, ImpulseIs
  <2>2. CASE i # l
    <3>1. Behind(l, c)[i] = 0
      <4>1. CASE i < l
        BY <4>1 DEF Behind
      <4>2. CASE ~(i < l)
        <5>1. i - l \in 0 .. l - 1 /\ 0 * l + (i - l) # 0
          BY <1>1, <2>2, <4>2
        <5> QED BY <4>2, <5>1 DEF Behind, CoefVec, Tap
      <4> QED BY <4>1, <4>2
    <3>2. Impulse(l)[i] = 0 /\ 2 * l * 0 = 0
      BY <1>1, <2>2 DEF Impulse
    <3> QED BY <3>1, <3>2, EqBasics
  <2> QED BY <2>1, <2>2
<1> QED BY <1>2, ImpulseIs, DiracBufIs DEF Coefs, Gives

-----------------------------------------------------------------------------
(* Between time and frequency.                                             *)

LEMMA MixOutOne ==
  ASSUME length \in Lengths, NEW bufs, NEW scales, Len(bufs) = 1, scales[1] \in Int, NEW m \in 0 .. 2 * length,
         NEW g, Ints(g, m), Gives(length, bufs[1], m, g), NEW h, \A i \in 0 .. m - 1 : h[i] = g[i] * scales[1]
  PROVE  Orders(length, MixOutput(bufs, scales), m, h)
<1>1. PICK gs : gs = <<g>>
  OBVIOUS
<1>2. gs[1] = g /\ m \in Nat
  BY <1>1, LengthIs
<1>3. Vectors(gs, scales, 1, m) /\ AllGive(1, length, m, bufs, gs)
  BY <1>2 DEF Vectors, AllGive
<1>4. ASSUME NEW i \in 0 .. m - 1
      PROVE  Eq(h[i], Sum(MixTerms(gs, scales, 1, i), 1))
  <2>1. Eq(Sum(MixTerms(gs, scales, 1, i), 1), gs[1][i] * scales[1])
    BY <1>2, <1>3, MixOne
  <2> QED BY <1>2, <2>1, EqBasics
<1> QED BY 1 \in Nat, <1>3, <1>4, MixGives

LEMMA MixOutTwo ==
  ASSUME length \in Lengths, NEW bufs, NEW scales, Len(bufs) = 2, scales[1] \in Int, scales[2] \in Int,
         NEW m \in 0 .. 2 * length, NEW g, NEW k, Ints(g, m), Ints(k, m),
         Gives(length, bufs[1], m, g), Gives(length, bufs[2], m, k),
         NEW h, \A i \in 0 .. m - 1 : h[i] = g[i] * scales[1] + k[i] * scales[2]
  PROVE  Orders(length, MixOutput(bufs, scales), m, h)
<1>1. PICK gs : gs = <<g, k>>
  OBVIOUS
<1>2. gs[1] = g /\ gs[2] = k /\ m \in Nat
  BY <1>1, LengthIs
<1>3. Vectors(gs, scales, 2, m) /\ AllGive(2, length, m, bufs, gs)
  <2>1. \A c \in 1 .. 2 : c = 1 \/ c = 2
    OBVIOUS
  <2> QED BY <1>2, <2>1 DEF Vectors, AllGive
<1>4. ASSUME NEW i \in 0 .. m - 1
      PROVE  Eq(h[i], Sum(MixTerms(gs, scales, 2, i), 2))
  <2>1. Eq(Sum(MixTerms(gs, scales, 2, i), 2), gs[1][i] * scales[1] + gs[2][i] * scales[2])
    BY <1>2, <1>3, MixTwo
  <2> QED BY <1>2, <2>1, EqBasics
<1> QED BY 2 \in Nat, <1>3, <1>4, MixGives

LEMMA MixInOne ==
  ASSUME length \in Lengths, NEW bufs, NEW scales, Len(bufs) = 1, scales[1] \in Int,
         NEW x, Ints(x, 2 * length), Ordered(2 * length, bufs[1], x),
         NEW y, Ints(y, 2 * length), \A i \in 0 .. 2 * length - 1 : y[i] = x[i] * scales[1]
  PROVE  InCbuf(length, MixInput(bufs, scales), y)
<1>1. PICK xs : xs = <<x>>
  OBVIOUS
<1>2. xs[1] = x /\ 2 * length \in Nat
  BY <1>1, LengthIs
<1>3. Vectors(xs, scales, 1, 2 * length) /\ AllOrdered(1, 2 * length, bufs, xs) /\ Vectors(bufs, scales, 1, 2 * length)
  BY <1>2, BufInts DEF Vectors, AllOrdered
<1>4. ASSUME NEW i \in 0 .. 2 * length - 1
      PROVE  Eq(y[i], Sum(MixTerms(xs, scales, 1, i), 1))
  <2>1. Eq(Sum(MixTerms(xs, scales, 1, i), 1), xs[1][i] * scales[1])
    BY <1>2, <1>3, MixOne
  <2> QED BY <1>2, <2>1, EqBasics
<1>5. Mixes(1, 2 * length, xs, scales, y)
  BY <1>4 DEF Mixes
<1> QED BY 1 \in Nat, <1>3, <1>5, MixInputIs

\* What a time buffer of channel c holds, and its spectrum.
TimeWin(l, f, c) == [i \in 0 .. 2 * l - 1 |-> Smp(l, f, c, (Len(f) - 2) * l + i)]

LEMMA TimeWinIs ==
  ASSUME NEW l \in Lengths, NEW f, Fed(l, f), NEW c \in Channels
  PROVE  Ints(TimeWin(l, f, c), 2 * l)
         /\ \A i \in 0 .. 2 * l - 1 : (Len(f) - 2) * l + i \in Int /\ (Len(f) - 2) * l + i < Len(f) * l
<1>1. l \in Nat /\ Len(f) \in Nat
  BY LengthIs DEF Fed
<1>2. ASSUME NEW i \in 0 .. 2 * l - 1
      PROVE  (Len(f) - 2) * l + i \in Int /\ (Len(f) - 2) * l + i < Len(f) * l
  <2>1. PICK kl \in Int : kl = Len(f) * l
    BY <1>1
  <2>2. (Len(f) - 2) * l = kl - 2 * l
    BY <1>1, <2>1
  <2> QED BY <1>1, <2>1, <2>2
<1>3. ASSUME NEW i \in 0 .. 2 * l - 1
      PROVE  TimeWin(l, f, c)[i] \in Int
  <2>1. PICK t \in Int : t = (Len(f) - 2) * l + i /\ t < Len(f) * l
    BY <1>2
  <2> QED BY <2>1, SmpIs DEF TimeWin
<1> QED BY <1>2, <1>3 DEF Ints

\* One channel.
LEMMA AnalysisGives ==
  ASSUME length \in Lengths, NEW f, Fed(length, f), NEW nt, nt \notin {"mixed", "subsample"},
         NEW bufs, NEW scales, Len(bufs) = 1, scales[1] = InScale,
         Ordered(2 * length, bufs[1], TimeWin(length, f, 1))
  PROVE  InCbuf(length, MixInput(bufs, scales), Seen(length, Input(length, nt, f), Len(f)))
<1> DEFINE s == Input(length, nt, f)
           y == Seen(length, s, Len(f))
           x == TimeWin(length, f, 1)
<1>1. Len(f) \in Int /\ InScale \in Int /\ 1 \in Channels
  BY SpectrumAssumption DEF Fed, Channels
<1>2. Ints(x, 2 * length)
  BY <1>1, TimeWinIs
<1>3. Ints(y, 2 * length)
  <2> HIDE DEF s
  <2> QED BY <1>1, SeenIs, InputKnown DEF s
<1>4. ASSUME NEW i \in 0 .. 2 * length - 1
      PROVE  y[i] = x[i] * scales[1]
  <2>1. PICK t \in Int : t = (Len(f) - 2) * length + i /\ t < Len(f) * length
    BY <1>1, TimeWinIs
  <2>2. PICK v \in Int : v = Smp(length, f, 1, t)
    BY <1>1, <2>1, SmpIs
  <2>3. y[i] = InScale * v
    BY <2>1, <2>2 DEF Seen, Input, Sig
  <2>4. x[i] = v
    BY <2>1, <2>2 DEF TimeWin
  <2>5. InScale * v = v * InScale
    BY <1>1
  <2> QED BY <2>3, <2>4, <2>5
<1> HIDE DEF x, y
<1>5. scales[1] \in Int
  BY <1>1
<1>6. InCbuf(length, MixInput(bufs, scales), y)
  BY <1>2, <1>3, <1>4, <1>5, MixInOne DEF x
<1> QED BY <1>6 DEF y

\* Three channels.
LEMMA MixedGives ==
  ASSUME length \in Lengths, NEW f, Fed(length, f),
         NEW bufs, NEW scales, Len(bufs) = 3, \A c \in 1 .. 3 : scales[c] = InScale + c - 1,
         \A c \in 1 .. 3 : Ordered(2 * length, bufs[c], TimeWin(length, f, c))
  PROVE  InCbuf(length, MixInput(bufs, scales), Seen(length, Input(length, "mixed", f), Len(f)))
<1> DEFINE n == 2 * length
           s == Input(length, "mixed", f)
           y == Seen(length, s, Len(f))
           xs == [c \in 1 .. 3 |-> TimeWin(length, f, c)]
<1>1. Len(f) \in Int /\ InScale \in Int /\ (\A c \in 1 .. 3 : c \in Channels) /\ n \in Nat
  BY LengthIs, SpectrumAssumption DEF Fed, Channels
<1>3. Ints(y, 2 * length)
  <2> HIDE DEF s
  <2> QED BY <1>1, SeenIs, InputKnown DEF s
<1>4. Vectors(xs, scales, 3, n) /\ AllOrdered(3, n, bufs, xs) /\ Vectors(bufs, scales, 3, n)
  <2>1. ASSUME NEW c \in 1 .. 3
        PROVE  /\ Ints(xs[c], n) /\ scales[c] \in Int /\ Ordered(n, bufs[c], xs[c]) /\ Ints(bufs[c], n)
    <3>1. Ints(xs[c], n) /\ Ordered(n, bufs[c], xs[c])
      BY <1>1, TimeWinIs
    <3>2. scales[c] \in Int
      BY <1>1
    <3> HIDE DEF xs
    <3> QED BY <3>1, <3>2, BufInts
  <2> HIDE DEF xs
  <2> QED BY <2>1 DEF Vectors, AllOrdered
<1>5. ASSUME NEW i \in 0 .. n - 1
      PROVE  Eq(y[i], Sum(MixTerms(xs, scales, 3, i), 3))
  <2>1. PICK t \in Int : t = (Len(f) - 2) * length + i /\ t < Len(f) * length
    BY <1>1, TimeWinIs
  <2> DEFINE u == MixedTerms(length, f, t)
             w == MixTerms(xs, scales, 3, i)
  <2>2. y[i] = Sum(u, 3)
    BY <2>1 DEF Seen, Input, Sig, MixedTerms
  <2>3. Ints(u, 3)
    BY <2>1, MixedTermsAre
  <2>4. Ints(w, 3)
    BY 3 \in Nat, <1>1, <1>4, MixTermsAre
  <2>5. ASSUME NEW c \in 0 .. 3 - 1
        PROVE  Eq(u[c], w[c])
    <3>1. c + 1 \in 1 .. 3
      OBVIOUS
    <3>2. PICK v \in Int : v = Smp(length, f, c + 1, t)
      BY <1>1, <2>1, <3>1, SmpIs
    <3>3. u[c] = (InScale + c) * v
      BY <3>2 DEF MixedTerms
    <3>4. xs[c + 1][i] = v /\ scales[c + 1] = InScale + c
      <4>1. scales[c + 1] = InScale + c
        <5>1. scales[c + 1] = InScale + (c + 1) - 1
          BY <3>1
        <5> QED BY <1>1, <5>1
      <4>2. xs[c + 1] = TimeWin(length, f, c + 1)
        BY <3>1
      <4>3. TimeWin(length, f, c + 1)[i] = v
        BY <2>1, <3>2 DEF TimeWin
      <4> QED BY <4>1, <4>2, <4>3
    <3>5. w[c] = v * (InScale + c)
      BY <3>4 DEF MixTerms
    <3>6. (InScale + c) * v = v * (InScale + c)
      BY <1>1
    <3> QED BY <3>3, <3>5, <3>6, EqBasics
  <2> HIDE DEF u, w
  <2>6. Sum(u, 3) = Sum(w, 3)
    BY 3 \in Nat, <2>3, <2>4, <2>5, SumEq
  <2> QED BY <2>2, <2>6, EqBasics DEF w
<1> HIDE DEF xs, y
<1>6. Mixes(3, n, xs, scales, y)
  BY <1>3, <1>5 DEF Mixes
<1>7. InCbuf(length, MixInput(bufs, scales), y)
  BY 3 \in Nat, <1>4, <1>6, MixInputIs
<1> QED BY <1>7 DEF y

\* The coefficients written for debugging.
LEMMA DumpIs ==
  ASSUME length \in Lengths, NEW b, Ints(b, 2 * length)
  PROVE  /\ Dumped(b) \in [Whole -> Field]
         /\ \A c : Ints(c, length) /\ Coefs(length, b, c)
              => \A i \in 0 .. length - 1 : Dumped(b)[i] \in Field /\ Eq(Dumped(b)[i], c[i])
<1> DEFINE l == length
           bufs == <<b>>
           scales == <<1>>
           m == MixOutput(bufs, scales)
           d == HC2R(NFft, m)
<1>1. l \in Nat /\ Whole = 0 .. 2 * l - 1 /\ 2 * l \in Nat /\ 2 * l \in 0 .. 2 * l
  BY LengthIs DEF Whole, NFft
<1>2. Len(bufs) = 1 /\ bufs[1] = b /\ scales[1] = 1 /\ scales[1] \in Int
  OBVIOUS
<1>3. m \in [Whole -> Field]
  <2>1. Vectors(bufs, scales, 1, 2 * l)
    BY <1>2 DEF Vectors
  <2> HIDE DEF bufs, scales
  <2> QED BY 1 \in Nat, <1>2, <2>1, MixTyped
<1>4. d \in [Whole -> Field]
  <2>1. Ints(m, 2 * l)
    <3> HIDE DEF m
    <3> QED BY <1>1, <1>3, PNat DEF Ints, Field
  <2> HIDE DEF m
  <2> QED BY <2>1, TransformsTyped
<1>5. Dumped(b) = [i \in Whole |-> IF i < l THEN d[l + i] ELSE 0]
  BY DEF Dumped
<1>6. Dumped(b) \in [Whole -> Field]
  <2>1. ASSUME NEW i \in Whole
        PROVE  (IF i < l THEN d[l + i] ELSE 0) \in Field
    <3> HIDE DEF d
    <3>1. 0 \in Field
      BY PNat DEF Field
    <3>2. i < l => l + i \in Whole
      BY <1>1
    <3> QED BY <1>4, <3>1, <3>2
  <2> HIDE DEF d
  <2> QED BY <1>5, <2>1
<1>7. ASSUME NEW c, Ints(c, l), Coefs(l, b, c), NEW i \in 0 .. l - 1
      PROVE  Dumped(b)[i] \in Field /\ Eq(Dumped(b)[i], c[i])
  <2> DEFINE g == Behind(l, c)
  <2>1. Ints(g, 2 * l)
    BY <1>7, BehindIs
  <2>2. \A j \in 0 .. 2 * l - 1 : g[j] = g[j] * scales[1]
    <3>1. ASSUME NEW j \in 0 .. 2 * l - 1
          PROVE  g[j] = g[j] * 1
      <4> HIDE DEF g
      <4>1. g[j] \in Int
        BY <2>1 DEF Ints
      <4> QED BY <4>1
    <3> QED BY <3>1
  <2>3. Gives(l, b, 2 * l, g)
    BY <1>7 DEF Coefs
  <2>4. Orders(l, m, 2 * l, g)
    <3> HIDE DEF bufs, scales, g
    <3> QED BY <1>1, <1>2, <2>1, <2>2, <2>3, MixOutOne
  <2>5. l + i \in 0 .. 2 * l - 1 /\ i \in Whole /\ i < l
    BY <1>1
  <2>6. Eq(d[l + i], g[l + i])
    <3> HIDE DEF m, g
    <3> QED BY <1>1, <2>4, <2>5, FromFreqIs
  <2>7. g[l + i] = c[i]
    <3>1. ~(l + i < l) /\ (l + i) - l = i
      BY <1>1
    <3> QED BY <2>5, <3>1 DEF Behind
  <2> HIDE DEF d, g
  <2>8. Dumped(b)[i] = d[l + i]
    BY <1>5, <2>5
  <2>9. Dumped(b)[i] \in Field
    BY <1>6, <2>5
  <2> QED BY <2>6, <2>7, <2>8, <2>9
<1> QED BY <1>6, <1>7

\* A signal scaled.
Scaled(a, u) == [t \in Int |-> a * u[t]]

LEMMA ScaledKnown ==
  ASSUME NEW a \in Int, NEW u, NEW T \in Int, Known(u, T)
  PROVE  /\ Known(Scaled(a, u), T)
         /\ Silent(u) => Silent(Scaled(a, u))
         /\ \A v : Agree(v, u, T) => Agree(Scaled(a, v), Scaled(a, u), T)
<1>1. Known(Scaled(a, u), T)
  <2>1. ASSUME NEW t \in Int, t < T
        PROVE  Scaled(a, u)[t] \in Int
    <3>1. PICK x \in Int : x = u[t]
      BY <2>1 DEF Known
    <3>2. a * x \in Int
      OBVIOUS
    <3> QED BY <3>1, <3>2 DEF Scaled
  <2> QED BY <2>1 DEF Known
<1>2. Silent(u) => Silent(Scaled(a, u))
  <2>1. a * 0 = 0
    OBVIOUS
  <2> QED BY <2>1 DEF Silent, Scaled
<1>3. \A v : Agree(v, u, T) => Agree(Scaled(a, v), Scaled(a, u), T)
  BY DEF Agree, Scaled
<1> QED BY <1>1, <1>2, <1>3

LEMMA BlockIs ==
  ASSUME NEW l \in Lengths, NEW u, NEW k \in Int, Known(u, k * l)
  PROVE  /\ Ints(Block(l, u, k), l)
         /\ \A v : Agree(v, u, k * l) => Block(l, v, k) = Block(l, u, k)
         /\ \A j \in 0 .. l - 1 : (k - 1) * l + j \in Int /\ (k - 1) * l + j < k * l
<1>1. l \in Nat /\ l \in Int
  BY LengthIs
<1>2. ASSUME NEW j \in 0 .. l - 1
      PROVE  (k - 1) * l + j \in Int /\ (k - 1) * l + j < k * l
  <2>1. PICK kl \in Int : kl = k * l
    BY <1>1
  <2>2. (k - 1) * l = kl - l
    BY <1>1, <2>1
  <2> QED BY <1>1, <2>1, <2>2
<1>3. Ints(Block(l, u, k), l)
  BY <1>2 DEF Ints, Block, Known
<1>4. \A v : Agree(v, u, k * l) => Block(l, v, k) = Block(l, u, k)
  BY <1>2 DEF Block, Agree
<1> QED BY <1>2, <1>3, <1>4

\* A block of output, scaled.
LEMMA OutputGives ==
  ASSUME length \in Lengths, NEW bufs, NEW scales, Len(bufs) = 1, NEW a \in Int, scales[1] = a,
         NEW u, NEW k \in Int, Known(u, k * length), Gives(length, bufs[1], length, Block(length, u, k))
  PROVE  Orders(length, MixOutput(bufs, scales), length, Block(length, Scaled(a, u), k))
<1> DEFINE g == Block(length, u, k)
           h == Block(length, Scaled(a, u), k)
<1>1. length \in 0 .. 2 * length
  BY LengthIs
<1>2. Ints(g, length)
  BY BlockIs
<1>3. ASSUME NEW j \in 0 .. length - 1
      PROVE  h[j] = g[j] * scales[1]
  <2>1. PICK t \in Int : t = (k - 1) * length + j
    BY BlockIs
  <2>2. PICK x \in Int : x = g[j]
    BY <1>2 DEF Ints
  <2>3. x = u[t] /\ h[j] = a * u[t]
    BY <2>1, <2>2 DEF Block, Scaled
  <2>4. a * x = x * a
    OBVIOUS
  <2> QED BY <2>2, <2>3, <2>4
<1>4. scales[1] \in Int
  OBVIOUS
<1> HIDE DEF g, h
<1>5. Orders(length, MixOutput(bufs, scales), length, h)
  BY <1>1, <1>2, <1>3, <1>4, MixOutOne DEF g
<1> QED BY <1>5 DEF h

\* The input of the next filter.
LEMMA NextGives ==
  ASSUME length \in Lengths, NEW bufs, NEW scales, Len(bufs) = 1, NEW a \in Int, scales[1] = a,
         NEW u, NEW k \in Int, Known(u, k * length), Ordered(2 * length, bufs[1], Seen(length, u, k))
  PROVE  InCbuf(length, MixInput(bufs, scales), Seen(length, Scaled(a, u), k))
<1> DEFINE x == Seen(length, u, k)
           y == Seen(length, Scaled(a, u), k)
<1>1. Ints(x, 2 * length)
  BY SeenIs
<1>2. Ints(y, 2 * length)
  <2>1. PICK T \in Int : T = k * length
    BY LengthIs
  <2>2. Known(Scaled(a, u), k * length)
    BY <2>1, ScaledKnown
  <2> QED BY <2>2, SeenIs
<1>3. ASSUME NEW i \in 0 .. 2 * length - 1
      PROVE  y[i] = x[i] * scales[1]
  <2>1. PICK t \in Int : t = (k - 2) * length + i
    BY LengthIs
  <2>2. PICK v \in Int : v = x[i]
    BY <1>1 DEF Ints
  <2>3. v = u[t] /\ y[i] = a * u[t]
    BY <2>1, <2>2 DEF Seen, Scaled
  <2>4. a * v = v * a
    OBVIOUS
  <2> QED BY <2>2, <2>3, <2>4
<1>4. scales[1] \in Int
  OBVIOUS
<1> HIDE DEF x, y
<1>5. InCbuf(length, MixInput(bufs, scales), y)
  BY <1>1, <1>2, <1>3, <1>4, MixInOne DEF x
<1> QED BY <1>5 DEF y

\* The block that comes out.
LEMMA TimeGives ==
  ASSUME length \in Lengths, NEW v, NEW g, Orders(length, v, length, g)
  PROVE  \A j \in 0 .. length - 1 : HC2R(NFft, v)[j] \in Field /\ Eq(HC2R(NFft, v)[j], g[j])
<1>1. length \in 0 .. 2 * length
  BY LengthIs
<1> QED BY <1>1, FromFreqIs

\* convolver_convolve_eval.
EvalWindow(v, e) == [i \in Whole |-> IF i < length THEN e[i] ELSE HC2R(NFft, v)[i - length]]
EvalKept(v) == [i \in Whole |-> IF i < length THEN HC2R(NFft, v)[i] ELSE 0]

LEMMA EvalTyped ==
  ASSUME length \in Lengths, NEW v, NEW e, Ints(v, 2 * length), Ints(e, 2 * length)
  PROVE  /\ R2HC(NFft, EvalWindow(v, e)) \in [Whole -> Field] /\ EvalKept(v) \in [Whole -> Field]
         /\ Ints(EvalWindow(v, e), 2 * length)
         /\ Ordered(2 * length, R2HC(NFft, EvalWindow(v, e)), EvalWindow(v, e))
<1> DEFINE d == HC2R(NFft, v)
<1>1. length \in Nat /\ Whole = 0 .. 2 * length - 1
  BY LengthIs DEF Whole, NFft
<1>2. d \in [Whole -> Field]
  BY TransformsTyped
<1>3. EvalWindow(v, e) = [i \in Whole |-> IF i < length THEN e[i] ELSE d[i - length]]
  BY DEF EvalWindow
<1>4. EvalKept(v) = [i \in Whole |-> IF i < length THEN d[i] ELSE 0]
  BY DEF EvalKept
<1> HIDE DEF d
<1>5. ASSUME NEW i \in 0 .. 2 * length - 1
      PROVE  EvalWindow(v, e)[i] \in Int
  <2>1. i < length \/ i - length \in Whole
    BY <1>1
  <2>2. i - length \in Whole => d[i - length] \in Int
    BY <1>2, PNat DEF Field
  <2> QED BY <1>1, <1>3, <2>1, <2>2 DEF Ints
<1>6. Ints(EvalWindow(v, e), 2 * length)
  BY <1>5 DEF Ints
<1>7. EvalKept(v) \in [Whole -> Field]
  <2>1. 0 \in Field
    BY PNat DEF Field
  <2> QED BY <1>2, <1>4, <2>1
<1> QED BY <1>6, <1>7, TransformsTyped

LEMMA OrderedSame ==
  ASSUME NEW l \in Lengths, NEW v, NEW x, NEW y, Ints(x, 2 * l), Ints(y, 2 * l), Ordered(2 * l, v, x),
         \A i \in 0 .. 2 * l - 1 : Eq(y[i], x[i])
  PROVE  Ordered(2 * l, v, y)
<1>1. 2 * l \in Transforms
  BY LengthIs
<1>2. ASSUME NEW k \in 0 .. 2 * l - 1
      PROVE  v[k] \in Int /\ Eq(v[k], Spectral(2 * l, y, k))
  <2>1. PICK m \in Int : m = k
    BY LengthIs
  <2>2. Eq(Spectral(2 * l, y, m), Spectral(2 * l, x, m))
    BY <1>1, SpectralEq
  <2>3. v[k] \in Int /\ Eq(v[k], Spectral(2 * l, x, k))
    BY DEF Ordered
  <2> QED BY <2>1, <2>2, <2>3, EqBasics
<1> QED BY <1>2 DEF Ordered

LEMMA EvalGives ==
  ASSUME length \in Lengths, NEW v, NEW e, Ints(v, 2 * length), Ints(e, 2 * length),
         NEW u, NEW k \in Int, Known(u, k * length), Orders(length, v, length, Block(length, u, k)),
         \A i \in 0 .. length - 1 : Eq(e[i], Block(length, u, k - 1)[i])
  PROVE  /\ Ordered(2 * length, R2HC(NFft, EvalWindow(v, e)), Seen(length, u, k))
         /\ \A i \in 0 .. length - 1 : Eq(EvalKept(v)[i], Block(length, u, k)[i])
<1> DEFINE d == HC2R(NFft, v)
           w == EvalWindow(v, e)
           s == Seen(length, u, k)
<1>1. length \in Nat /\ Whole = 0 .. 2 * length - 1 /\ length \in Int
  BY LengthIs DEF Whole, NFft
<1>2. \A j \in 0 .. length - 1 : Eq(d[j], Block(length, u, k)[j])
  BY TimeGives
<1>3. w = [i \in Whole |-> IF i < length THEN e[i] ELSE d[i - length]]
  BY DEF EvalWindow
<1>4. EvalKept(v) = [i \in Whole |-> IF i < length THEN d[i] ELSE 0]
  BY DEF EvalKept
<1> HIDE DEF d
<1>5. ASSUME NEW i \in 0 .. 2 * length - 1
      PROVE  Eq(s[i], w[i])
  <2>1. PICK t \in Int : t = (k - 2) * length + i
    BY <1>1
  <2>2. s[i] = u[t]
    BY <2>1 DEF Seen
  <2>3. CASE i < length
    <3>1. w[i] = e[i] /\ Eq(e[i], Block(length, u, k - 1)[i])
      BY <1>1, <1>3, <2>3
    <3>2. ((k - 1) - 1) * length + i = t
      BY <1>1, <2>1
    <3>3. Block(length, u, k - 1)[i] = u[t]
      <4>1. i \in 0 .. length - 1
        BY <1>1, <2>3
      <4>2. Block(length, u, k - 1)[i] = u[((k - 1) - 1) * length + i]
        BY <4>1 DEF Block
      <4> QED BY <3>2, <4>2
    <3> QED BY <2>2, <3>1, <3>3, EqBasics
  <2>4. CASE ~(i < length)
    <3>1. PICK j \in 0 .. length - 1 : j = i - length
      BY <1>1, <2>4
    <3>2. w[i] = d[j] /\ Eq(d[j], Block(length, u, k)[j])
      BY <1>1, <1>2, <1>3, <2>4, <3>1
    <3>3. (k - 1) * length + j = t
      <4>1. PICK kl \in Int : kl = k * length
        BY <1>1
      <4>2. (k - 1) * length = kl - length /\ (k - 2) * length = kl - 2 * length
        BY <1>1, <4>1
      <4> QED BY <1>1, <2>1, <3>1, <4>1, <4>2
    <3>4. Block(length, u, k)[j] = u[t]
      BY <3>3 DEF Block
    <3> QED BY <2>2, <3>2, <3>4, EqBasics
  <2> QED BY <2>3, <2>4
<1>6. Ints(s, 2 * length)
  BY SeenIs
<1> HIDE DEF w, s
<1>7. Ordered(2 * length, R2HC(NFft, w), s)
  BY <1>5, <1>6, EvalTyped, OrderedSame DEF w
<1>8. ASSUME NEW i \in 0 .. length - 1
      PROVE  Eq(EvalKept(v)[i], Block(length, u, k)[i])
  <2>1. EvalKept(v)[i] = d[i]
    BY <1>1, <1>4
  <2> QED BY <1>2, <2>1
<1> QED BY <1>7, <1>8 DEF w, s

-----------------------------------------------------------------------------
(* The crossfade.                                                          *)

\* A signal faded out over each block while another is faded in.
Fading(l, u, w) == [t \in Int |-> u[t] * (1 - Inverse(l - 1) * (t % l)) + w[t] * Inverse(l - 1) * (t % l)]

LEMMA FadeIs ==
  ASSUME NEW l \in Lengths
  PROVE  Inverse(l - 1) \in Int
<1>1. l \in Nat /\ l >= 4 /\ (P - 1) % (2 * l) = 0
  BY SpectrumAssumption
<1>2. PICK p, n \in Nat : p = P - 1 /\ n = 2 * l /\ n > 0
  BY <1>1, PNat
<1>3. p >= n
  <2>1. p # 0
    BY <1>2, PNat
  <2>2. p % n = 0
    BY <1>1, <1>2
  <2>3. SUFFICES ASSUME p < n PROVE FALSE
    BY <1>2
  <2>4. p % n = p
    <3>1. n \in Nat \ {0} /\ p \in 0 .. n - 1
      BY <1>2, <2>3
    <3> QED BY <3>1, RemSmall
  <2> QED BY <2>1, <2>2, <2>4
<1>4. PICK d \in Int : d = l - 1
  BY <1>1
<1>5. d \in Units
  BY <1>1, <1>2, <1>3, <1>4, PNat DEF Units
<1> QED BY <1>4, <1>5, UnitIs, InverseIs

LEMMA FadingKnown ==
  ASSUME NEW l \in Lengths, NEW u, NEW w, NEW T \in Int, Known(u, T), Known(w, T)
  PROVE  Known(Fading(l, u, w), T)
<1>1. l \in Nat \ {0}
  BY SpectrumAssumption
<1>2. ASSUME NEW t \in Int, t < T
      PROVE  Fading(l, u, w)[t] \in Int
  <2>1. PICK x, y, i, r \in Int : x = u[t] /\ y = w[t] /\ i = Inverse(l - 1) /\ r = t % l
    BY <1>1, <1>2, FadeIs, RemFacts DEF Known
  <2>2. x * (1 - i * r) + y * i * r \in Int
    OBVIOUS
  <2> QED BY <2>1, <2>2 DEF Fading
<1> QED BY <1>2 DEF Known

LEMMA SynthesisTyped ==
  ASSUME length \in Lengths, NEW b, Ints(b, 2 * length)
  PROVE  HC2R(NFft, MixOutput(<<b>>, <<1>>)) \in [Whole -> Field]
<1> DEFINE bufs == <<b>>
           scales == <<1>>
<1>1. 2 * length \in Nat /\ Whole = 0 .. 2 * length - 1
  BY LengthIs DEF Whole, NFft
<1>2. Len(bufs) = 1 /\ bufs[1] = b /\ scales[1] = 1 /\ scales[1] \in Int
  OBVIOUS
<1>3. MixOutput(bufs, scales) \in [Whole -> Field]
  <2>1. Vectors(bufs, scales, 1, 2 * length)
    BY <1>2 DEF Vectors
  <2> HIDE DEF bufs, scales
  <2> QED BY 1 \in Nat, <1>2, <2>1, MixTyped
<1> HIDE DEF bufs, scales
<1>4. Ints(MixOutput(bufs, scales), 2 * length)
  BY <1>1, <1>3, PNat DEF Ints, Field
<1>5. HC2R(NFft, MixOutput(bufs, scales)) \in [Whole -> Field]
  BY <1>4, TransformsTyped
<1> QED BY <1>5 DEF bufs, scales

LEMMA SynthesisGives ==
  ASSUME length \in Lengths, NEW b, NEW u, NEW k \in Int, Known(u, k * length), Gives(length, b, length, Block(length, u, k))
  PROVE  \A j \in 0 .. length - 1 : Eq(HC2R(NFft, MixOutput(<<b>>, <<1>>))[j], Block(length, u, k)[j])
<1> DEFINE bufs == <<b>>
           scales == <<1>>
           g == Block(length, u, k)
<1>1. length \in 0 .. 2 * length
  BY LengthIs
<1>2. Len(bufs) = 1 /\ bufs[1] = b /\ scales[1] = 1 /\ scales[1] \in Int
  OBVIOUS
<1>3. Ints(g, length)
  BY BlockIs
<1>4. \A i \in 0 .. length - 1 : g[i] = g[i] * scales[1]
  <2>1. ASSUME NEW i \in 0 .. length - 1
        PROVE  g[i] = g[i] * 1
    <3>1. PICK x \in Int : x = g[i]
      BY <1>3 DEF Ints
    <3> QED BY <3>1
  <2> QED BY <2>1
<1> HIDE DEF bufs, scales, g
<1>5. Gives(length, b, length, g)
  BY DEF g
<1>6. Orders(length, MixOutput(bufs, scales), length, g)
  BY <1>1, <1>2, <1>3, <1>4, <1>5, MixOutOne
<1>7. \A j \in 0 .. length - 1 : Eq(HC2R(NFft, MixOutput(bufs, scales))[j], g[j])
  BY <1>6, TimeGives
<1> QED BY <1>7 DEF bufs, scales, g

LEMMA BlendIs ==
  ASSUME length \in Lengths, NEW n \in Int, NEW x \in Int, NEW y \in Int
  PROVE  /\ Blend(n, x, y) \in Field /\ Blend(n, x, y) \in Int
         /\ Eq(Blend(n, x, y), x * (1 - Inverse(length - 1) * n) + y * Inverse(length - 1) * n)
<1>1. PICK i \in Int : i = Inverse(length - 1)
  BY FadeIs
<1>2. PICK z \in Int : z = x * (1 - i * n) + y * i * n
  OBVIOUS
<1>3. Blend(n, x, y) = z % P
  BY <1>1, <1>2 DEF Blend
<1> QED BY <1>1, <1>2, <1>3, EqRemainder DEF Field

LEMMA CrossfadeIs ==
  ASSUME length \in Lengths, Ints(From(1), 2 * length), Ints(To, 2 * length), NEW beyond \in {0, 1}
  PROVE  /\ CrossfadeInplace(beyond) \in [Whole -> Field]
         /\ \A u, w : \A k \in Int :
              /\ realsize = 4 /\ Known(u, k * length) /\ Known(w, k * length)
              /\ Gives(length, From(1), length, Block(length, u, k)) /\ Gives(length, To, length, Block(length, w, k))
              => Gives(length, CrossfadeInplace(beyond), length, Block(length, Fading(length, u, w), k))
<1> DEFINE old == HC2R(NFft, MixOutput(<<From(1)>>, <<1>>))
           new == HC2R(NFft, MixOutput(<<To>>, <<1>>))
           faded == [n \in Whole |->
                       IF n >= length THEN new[n]
                       ELSE IF realsize = 4 THEN Blend(n, old[n], new[n]) ELSE Blend(n, new[n], beyond)]
           v == MixInput(<<R2HC(NFft, faded)>>, <<Inverse(NFft)>>)
<1>1. length \in Nat \ {0} /\ length \in Int /\ Whole = 0 .. 2 * length - 1 /\ beyond \in Int
  BY SpectrumAssumption DEF Whole, NFft
<1>2. old \in [Whole -> Field] /\ new \in [Whole -> Field]
  BY SynthesisTyped
<1>3. CrossfadeInplace(beyond) = v
  BY DEF CrossfadeInplace
<1>4. ASSUME NEW a, NEW b, a = From(1), b = To, realsize = 4, NEW u, NEW w, NEW k \in Int,
             Known(u, k * length), Known(w, k * length),
             Gives(length, a, length, Block(length, u, k)), Gives(length, b, length, Block(length, w, k))
      PROVE  \A j \in 0 .. length - 1 : Eq(old[j], Block(length, u, k)[j]) /\ Eq(new[j], Block(length, w, k)[j])
  BY <1>4, SynthesisGives
<1> HIDE DEF old, new
<1>5. ASSUME NEW n \in Whole
      PROVE  faded[n] \in Int /\ faded[n] = IF n >= length THEN new[n]
                       ELSE IF realsize = 4 THEN Blend(n, old[n], new[n]) ELSE Blend(n, new[n], beyond)
  <2>1. PICK x, y \in Int : x = old[n] /\ y = new[n]
    BY <1>2, PNat DEF Field
  <2>2. n \in Int
    BY <1>1
  <2>3. Blend(n, x, y) \in Int /\ Blend(n, y, beyond) \in Int
    BY <1>1, <2>2, BlendIs
  <2> QED BY <2>1, <2>3
<1>6. Ints(faded, 2 * length)
  BY <1>1, <1>5 DEF Ints
<1>7. v \in [Whole -> Field] /\ Gives(length, v, 2 * length, faded)
  <2> HIDE DEF faded
  <2> QED BY <1>6, FromTime
<1> HIDE DEF faded, v
<1>8. ASSUME NEW u, NEW w, NEW k \in Int, realsize = 4, Known(u, k * length), Known(w, k * length),
             Gives(length, From(1), length, Block(length, u, k)), Gives(length, To, length, Block(length, w, k))
      PROVE  Gives(length, v, length, Block(length, Fading(length, u, w), k))
  <2> DEFINE g == Block(length, Fading(length, u, w), k)
  <2>1. Gives(length, v, length, faded)
    <3>1. \A j \in 0 .. length - 1 : j \in 0 .. 2 * length - 1
      BY <1>1
    <3> QED BY <1>7, <3>1 DEF Gives
  <2>2. ASSUME NEW j \in 0 .. length - 1
        PROVE  Eq(g[j], faded[j])
    <3>1. j \in Whole /\ j \in Int /\ ~(j >= length)
      BY <1>1
    <3>2. PICK x, y \in Int : x = old[j] /\ y = new[j]
      BY <1>2, <3>1, PNat DEF Field
    <3>3. PICK p, q \in Int : p = Block(length, u, k)[j] /\ q = Block(length, w, k)[j]
      BY <1>8, BlockIs DEF Ints
    <3>4. Eq(x, p) /\ Eq(y, q)
      BY <1>4, <1>8, <3>2, <3>3
    <3>5. PICK i \in Int : i = Inverse(length - 1)
      BY FadeIs
    <3>6. faded[j] = Blend(j, x, y)
      BY <1>5, <1>8, <3>1, <3>2
    <3>7. Eq(faded[j], x * (1 - i * j) + y * i * j)
      BY <3>1, <3>5, <3>6, BlendIs
    <3>8. PICK a, b, xa, yb, pa, qb \in Int :
             a = 1 - i * j /\ b = i * j /\ xa = x * a /\ yb = y * b /\ pa = p * a /\ qb = q * b
      BY <3>1
    <3>9. Eq(xa, pa) /\ Eq(yb, qb)
      BY <3>4, <3>8, EqScaled
    <3>10. Eq(xa + yb, pa + qb)
      BY <3>9, EqPlus
    <3>11. x * (1 - i * j) + y * i * j = xa + yb
      BY <3>1, <3>8
    <3>12. g[j] = pa + qb
      <4>1. PICK t \in Int : t = (k - 1) * length + j
        BY <1>1
      <4>2. t % length = j
        BY <1>1, <4>1, RemIs
      <4>3. p = u[t] /\ q = w[t]
        BY <3>3, <4>1 DEF Block
      <4>4. g[j] = p * (1 - i * j) + q * i * j
        BY <3>5, <4>1, <4>2, <4>3 DEF Block, Fading
      <4>5. p * (1 - i * j) + q * i * j = pa + qb
        BY <3>1, <3>8
      <4> QED BY <4>4, <4>5
    <3> QED BY <3>7, <3>10, <3>11, <3>12, EqBasics
  <2> HIDE DEF g
  <2>3. Gives(length, v, length, g)
    BY <2>1, <2>2, GivesSame
  <2> QED BY <2>3 DEF g
<1> QED BY <1>3, <1>7, <1>8

================================================================================
