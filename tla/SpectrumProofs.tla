--------------------------- MODULE SpectrumProofs ---------------------------
(***************************************************************************)
(* The convolution engine, for every prime field, every length of block    *)
(* and every coefficients: what the engine writes is the convolution of    *)
(* what it has read, in each of the networks of calls, and a subsampled    *)
(* impulse joins its blocks without a seam.  For each network, an invariant*)
(* says what its buffers hold between any two calls; what the calls do is  *)
(* in TransformProofs.                                                     *)
(***************************************************************************)
EXTENDS TransformProofs

-----------------------------------------------------------------------------
(* Sequences of calls.                                                     *)

LEMMA Concat ==
  ASSUME NEW S, NEW s \in Seq(S), NEW t \in Seq(S)
  PROVE  /\ (s \o t) \in Seq(S) /\ Len(s \o t) = Len(s) + Len(t)
         /\ \A i \in 1 .. Len(s) + Len(t) :
              (s \o t)[i] = IF i <= Len(s) THEN s[i] ELSE t[i - Len(s)]
<1>1. (s \o t) \in Seq(S) /\ Len(s \o t) = Len(s) + Len(t)
  OBVIOUS
<1>2. \A i \in 1 .. Len(s) + Len(t) :
        (s \o t)[i] = IF i <= Len(s) THEN s[i] ELSE t[i - Len(s)]
  OBVIOUS
<1> QED BY <1>1, <1>2

LEMMA SameSequence ==
  ASSUME NEW S, NEW s \in Seq(S), NEW u \in Seq(S), Len(s) = Len(u),
         \A i \in 1 .. Len(s) : s[i] = u[i]
  PROVE  s = u
OBVIOUS

Sized(S, s, t, u, m, n) ==
  /\ s \in Seq(S) /\ t \in Seq(S) /\ u \in Seq(S) /\ m \in Nat /\ n \in Nat
  /\ Len(s) = m /\ Len(t) = n /\ Len(u) = m + n

InTurn(s, t, u, m, n) ==
  /\ \A i \in 1 .. m : u[i] = s[i]
  /\ \A j \in 1 .. n : u[m + j] = t[j]

LEMMA Joined ==
  ASSUME NEW S, NEW s, NEW t, NEW u, NEW m, NEW n, Sized(S, s, t, u, m, n), InTurn(s, t, u, m, n)
  PROVE  s \o t = u
<1> USE DEF Sized, InTurn
<1>1. PICK v : v = s \o t
  OBVIOUS
<1>2. /\ v \in Seq(S) /\ Len(v) = m + n
      /\ \A i \in 1 .. m + n : v[i] = IF i <= m THEN s[i] ELSE t[i - m]
  BY <1>1, Concat
<1>3. ASSUME NEW i \in 1 .. m + n
      PROVE  v[i] = u[i]
  <2>1. CASE i <= m
    BY <1>2, <2>1
  <2>2. CASE ~ i <= m
    <3>1. PICK j : j = i - m
      OBVIOUS
    <3>2. j \in 1 .. n /\ m + j = i
      BY <2>2, <3>1
    <3>3. u[i] = t[j]
      BY <3>2
    <3>4. v[i] = t[j]
      BY <1>2, <2>2, <3>1
    <3> QED BY <3>3, <3>4
  <2> QED BY <2>1, <2>2
<1>4. v = u
  BY <1>2, <1>3, SameSequence
<1> QED BY <1>1, <1>4

LEMMA JoinNone ==
  ASSUME NEW S, NEW s \in Seq(S)
  PROVE  s \o <<>> = s
OBVIOUS

LEMMA Join11 ==
  ASSUME NEW a1, NEW b1
  PROVE  <<a1>> \o <<b1>> = <<a1, b1>>
<1>1. PICK S : S = {a1, b1}
  OBVIOUS
<1>2. PICK s, t, u : s = <<a1>> /\ t = <<b1>> /\ u = <<a1, b1>>
  OBVIOUS
<1>3. s \in Seq(S) /\ t \in Seq(S) /\ u \in Seq(S) /\ Len(s) = 1 /\ Len(t) = 1 /\ Len(u) = 1 + 1
  BY <1>1, <1>2
<1>4. PICK m, n : m = 1 /\ n = 1
  OBVIOUS
<1>5. m \in Nat /\ n \in Nat /\ Len(s) = m /\ Len(t) = n /\ Len(u) = m + n
  BY <1>3, <1>4
<1>6. \A i \in 1 .. m : u[i] = s[i]
  BY <1>2, <1>4
<1>7. \A i \in 1 .. n : u[m + i] = t[i]
  <2>1. \A i \in 1 .. 1 : i = 1
    OBVIOUS
  <2>2. u[1 + 1] = t[1]
    BY <1>2
  <2>3. \A i \in 1 .. 1 : u[1 + i] = t[i]
    BY ONLY <2>1, <2>2
  <2> QED BY ONLY <2>3, <1>4
<1>8. Sized(S, s, t, u, m, n)
  BY ONLY <1>3, <1>5 DEF Sized
<1>9. InTurn(s, t, u, m, n)
  BY ONLY <1>6, <1>7 DEF InTurn
<1>10. s \o t = u
  BY ONLY <1>8, <1>9, Joined
<1> QED BY ONLY <1>2, <1>10

LEMMA Join21 ==
  ASSUME NEW a1, NEW a2, NEW b1
  PROVE  <<a1, a2>> \o <<b1>> = <<a1, a2, b1>>
<1>1. PICK S : S = {a1, a2, b1}
  OBVIOUS
<1>2. PICK s, t, u : s = <<a1, a2>> /\ t = <<b1>> /\ u = <<a1, a2, b1>>
  OBVIOUS
<1>3. s \in Seq(S) /\ t \in Seq(S) /\ u \in Seq(S) /\ Len(s) = 2 /\ Len(t) = 1 /\ Len(u) = 2 + 1
  BY <1>1, <1>2
<1>4. PICK m, n : m = 2 /\ n = 1
  OBVIOUS
<1>5. m \in Nat /\ n \in Nat /\ Len(s) = m /\ Len(t) = n /\ Len(u) = m + n
  BY <1>3, <1>4
<1>6. \A i \in 1 .. m : u[i] = s[i]
  BY <1>2, <1>4
<1>7. \A i \in 1 .. n : u[m + i] = t[i]
  <2>1. \A i \in 1 .. 1 : i = 1
    OBVIOUS
  <2>2. u[2 + 1] = t[1]
    BY <1>2
  <2>3. \A i \in 1 .. 1 : u[2 + i] = t[i]
    BY ONLY <2>1, <2>2
  <2> QED BY ONLY <2>3, <1>4
<1>8. Sized(S, s, t, u, m, n)
  BY ONLY <1>3, <1>5 DEF Sized
<1>9. InTurn(s, t, u, m, n)
  BY ONLY <1>6, <1>7 DEF InTurn
<1>10. s \o t = u
  BY ONLY <1>8, <1>9, Joined
<1> QED BY ONLY <1>2, <1>10

LEMMA Join31 ==
  ASSUME NEW a1, NEW a2, NEW a3, NEW b1
  PROVE  <<a1, a2, a3>> \o <<b1>> = <<a1, a2, a3, b1>>
<1>1. PICK S : S = {a1, a2, a3, b1}
  OBVIOUS
<1>2. PICK s, t, u : s = <<a1, a2, a3>> /\ t = <<b1>> /\ u = <<a1, a2, a3, b1>>
  OBVIOUS
<1>3. s \in Seq(S) /\ t \in Seq(S) /\ u \in Seq(S) /\ Len(s) = 3 /\ Len(t) = 1 /\ Len(u) = 3 + 1
  BY <1>1, <1>2
<1>4. PICK m, n : m = 3 /\ n = 1
  OBVIOUS
<1>5. m \in Nat /\ n \in Nat /\ Len(s) = m /\ Len(t) = n /\ Len(u) = m + n
  BY <1>3, <1>4
<1>6. \A i \in 1 .. m : u[i] = s[i]
  BY <1>2, <1>4
<1>7. \A i \in 1 .. n : u[m + i] = t[i]
  <2>1. \A i \in 1 .. 1 : i = 1
    OBVIOUS
  <2>2. u[3 + 1] = t[1]
    BY <1>2
  <2>3. \A i \in 1 .. 1 : u[3 + i] = t[i]
    BY ONLY <2>1, <2>2
  <2> QED BY ONLY <2>3, <1>4
<1>8. Sized(S, s, t, u, m, n)
  BY ONLY <1>3, <1>5 DEF Sized
<1>9. InTurn(s, t, u, m, n)
  BY ONLY <1>6, <1>7 DEF InTurn
<1>10. s \o t = u
  BY ONLY <1>8, <1>9, Joined
<1> QED BY ONLY <1>2, <1>10

LEMMA Join32 ==
  ASSUME NEW a1, NEW a2, NEW a3, NEW b1, NEW b2
  PROVE  <<a1, a2, a3>> \o <<b1, b2>> = <<a1, a2, a3, b1, b2>>
<1>1. PICK S : S = {a1, a2, a3, b1, b2}
  OBVIOUS
<1>2. PICK s, t, u : s = <<a1, a2, a3>> /\ t = <<b1, b2>> /\ u = <<a1, a2, a3, b1, b2>>
  OBVIOUS
<1>3. s \in Seq(S) /\ t \in Seq(S) /\ u \in Seq(S) /\ Len(s) = 3 /\ Len(t) = 2 /\ Len(u) = 3 + 2
  BY <1>1, <1>2
<1>4. PICK m, n : m = 3 /\ n = 2
  OBVIOUS
<1>5. m \in Nat /\ n \in Nat /\ Len(s) = m /\ Len(t) = n /\ Len(u) = m + n
  BY <1>3, <1>4
<1>6. \A i \in 1 .. m : u[i] = s[i]
  BY <1>2, <1>4
<1>7. \A i \in 1 .. n : u[m + i] = t[i]
  <2>1. \A i \in 1 .. 2 : i = 1 \/ i = 2
    OBVIOUS
  <2>2. u[3 + 1] = t[1] /\ u[3 + 2] = t[2]
    BY <1>2
  <2>3. \A i \in 1 .. 2 : u[3 + i] = t[i]
    BY ONLY <2>1, <2>2
  <2> QED BY ONLY <2>3, <1>4
<1>8. Sized(S, s, t, u, m, n)
  BY ONLY <1>3, <1>5 DEF Sized
<1>9. InTurn(s, t, u, m, n)
  BY ONLY <1>6, <1>7 DEF InTurn
<1>10. s \o t = u
  BY ONLY <1>8, <1>9, Joined
<1> QED BY ONLY <1>2, <1>10

LEMMA Join42 ==
  ASSUME NEW a1, NEW a2, NEW a3, NEW a4, NEW b1, NEW b2
  PROVE  <<a1, a2, a3, a4>> \o <<b1, b2>> = <<a1, a2, a3, a4, b1, b2>>
<1>1. PICK S : S = {a1, a2, a3, a4, b1, b2}
  OBVIOUS
<1>2. PICK s, t, u : s = <<a1, a2, a3, a4>> /\ t = <<b1, b2>> /\ u = <<a1, a2, a3, a4, b1, b2>>
  OBVIOUS
<1>3. s \in Seq(S) /\ t \in Seq(S) /\ u \in Seq(S) /\ Len(s) = 4 /\ Len(t) = 2 /\ Len(u) = 4 + 2
  BY <1>1, <1>2
<1>4. PICK m, n : m = 4 /\ n = 2
  OBVIOUS
<1>5. m \in Nat /\ n \in Nat /\ Len(s) = m /\ Len(t) = n /\ Len(u) = m + n
  BY <1>3, <1>4
<1>6. \A i \in 1 .. m : u[i] = s[i]
  BY <1>2, <1>4
<1>7. \A i \in 1 .. n : u[m + i] = t[i]
  <2>1. \A i \in 1 .. 2 : i = 1 \/ i = 2
    OBVIOUS
  <2>2. u[4 + 1] = t[1] /\ u[4 + 2] = t[2]
    BY <1>2
  <2>3. \A i \in 1 .. 2 : u[4 + i] = t[i]
    BY ONLY <2>1, <2>2
  <2> QED BY ONLY <2>3, <1>4
<1>8. Sized(S, s, t, u, m, n)
  BY ONLY <1>3, <1>5 DEF Sized
<1>9. InTurn(s, t, u, m, n)
  BY ONLY <1>6, <1>7 DEF InTurn
<1>10. s \o t = u
  BY ONLY <1>8, <1>9, Joined
<1> QED BY ONLY <1>2, <1>10

LEMMA Join33 ==
  ASSUME NEW a1, NEW a2, NEW a3, NEW b1, NEW b2, NEW b3
  PROVE  <<a1, a2, a3>> \o <<b1, b2, b3>> = <<a1, a2, a3, b1, b2, b3>>
<1>1. PICK S : S = {a1, a2, a3, b1, b2, b3}
  OBVIOUS
<1>2. PICK s, t, u : s = <<a1, a2, a3>> /\ t = <<b1, b2, b3>> /\ u = <<a1, a2, a3, b1, b2, b3>>
  OBVIOUS
<1>3. s \in Seq(S) /\ t \in Seq(S) /\ u \in Seq(S) /\ Len(s) = 3 /\ Len(t) = 3 /\ Len(u) = 3 + 3
  BY <1>1, <1>2
<1>4. PICK m, n : m = 3 /\ n = 3
  OBVIOUS
<1>5. m \in Nat /\ n \in Nat /\ Len(s) = m /\ Len(t) = n /\ Len(u) = m + n
  BY <1>3, <1>4
<1>6. \A i \in 1 .. m : u[i] = s[i]
  BY <1>2, <1>4
<1>7. \A i \in 1 .. n : u[m + i] = t[i]
  <2>1. \A i \in 1 .. 3 : i = 1 \/ i = 2 \/ i = 3
    OBVIOUS
  <2>2. u[3 + 1] = t[1] /\ u[3 + 2] = t[2] /\ u[3 + 3] = t[3]
    BY <1>2
  <2>3. \A i \in 1 .. 3 : u[3 + i] = t[i]
    BY ONLY <2>1, <2>2
  <2> QED BY ONLY <2>3, <1>4
<1>8. Sized(S, s, t, u, m, n)
  BY ONLY <1>3, <1>5 DEF Sized
<1>9. InTurn(s, t, u, m, n)
  BY ONLY <1>6, <1>7 DEF InTurn
<1>10. s \o t = u
  BY ONLY <1>8, <1>9, Joined
<1> QED BY ONLY <1>2, <1>10

LEMMA Join61 ==
  ASSUME NEW a1, NEW a2, NEW a3, NEW a4, NEW a5, NEW a6, NEW b1
  PROVE  <<a1, a2, a3, a4, a5, a6>> \o <<b1>> = <<a1, a2, a3, a4, a5, a6, b1>>
<1>1. PICK S : S = {a1, a2, a3, a4, a5, a6, b1}
  OBVIOUS
<1>2. PICK s, t, u : s = <<a1, a2, a3, a4, a5, a6>> /\ t = <<b1>> /\ u = <<a1, a2, a3, a4, a5, a6, b1>>
  OBVIOUS
<1>3. s \in Seq(S) /\ t \in Seq(S) /\ u \in Seq(S) /\ Len(s) = 6 /\ Len(t) = 1 /\ Len(u) = 6 + 1
  BY <1>1, <1>2
<1>4. PICK m, n : m = 6 /\ n = 1
  OBVIOUS
<1>5. m \in Nat /\ n \in Nat /\ Len(s) = m /\ Len(t) = n /\ Len(u) = m + n
  BY <1>3, <1>4
<1>6. \A i \in 1 .. m : u[i] = s[i]
  BY <1>2, <1>4
<1>7. \A i \in 1 .. n : u[m + i] = t[i]
  <2>1. \A i \in 1 .. 1 : i = 1
    OBVIOUS
  <2>2. u[6 + 1] = t[1]
    BY <1>2
  <2>3. \A i \in 1 .. 1 : u[6 + i] = t[i]
    BY ONLY <2>1, <2>2
  <2> QED BY ONLY <2>3, <1>4
<1>8. Sized(S, s, t, u, m, n)
  BY ONLY <1>3, <1>5 DEF Sized
<1>9. InTurn(s, t, u, m, n)
  BY ONLY <1>6, <1>7 DEF InTurn
<1>10. s \o t = u
  BY ONLY <1>8, <1>9, Joined
<1> QED BY ONLY <1>2, <1>10

LEMMA Join72 ==
  ASSUME NEW a1, NEW a2, NEW a3, NEW a4, NEW a5, NEW a6, NEW a7, NEW b1, NEW b2
  PROVE  <<a1, a2, a3, a4, a5, a6, a7>> \o <<b1, b2>> = <<a1, a2, a3, a4, a5, a6, a7, b1, b2>>
<1>1. PICK S : S = {a1, a2, a3, a4, a5, a6, a7, b1, b2}
  OBVIOUS
<1>2. PICK s, t, u : s = <<a1, a2, a3, a4, a5, a6, a7>> /\ t = <<b1, b2>> /\ u = <<a1, a2, a3, a4, a5, a6, a7, b1, b2>>
  OBVIOUS
<1>3. s \in Seq(S) /\ t \in Seq(S) /\ u \in Seq(S) /\ Len(s) = 7 /\ Len(t) = 2 /\ Len(u) = 7 + 2
  BY <1>1, <1>2
<1>4. PICK m, n : m = 7 /\ n = 2
  OBVIOUS
<1>5. m \in Nat /\ n \in Nat /\ Len(s) = m /\ Len(t) = n /\ Len(u) = m + n
  BY <1>3, <1>4
<1>6. \A i \in 1 .. m : u[i] = s[i]
  BY <1>2, <1>4
<1>7. \A i \in 1 .. n : u[m + i] = t[i]
  <2>1. \A i \in 1 .. 2 : i = 1 \/ i = 2
    OBVIOUS
  <2>2. u[7 + 1] = t[1] /\ u[7 + 2] = t[2]
    BY <1>2
  <2>3. \A i \in 1 .. 2 : u[7 + i] = t[i]
    BY ONLY <2>1, <2>2
  <2> QED BY ONLY <2>3, <1>4
<1>8. Sized(S, s, t, u, m, n)
  BY ONLY <1>3, <1>5 DEF Sized
<1>9. InTurn(s, t, u, m, n)
  BY ONLY <1>6, <1>7 DEF InTurn
<1>10. s \o t = u
  BY ONLY <1>8, <1>9, Joined
<1> QED BY ONLY <1>2, <1>10

LEMMA Join62 ==
  ASSUME NEW a1, NEW a2, NEW a3, NEW a4, NEW a5, NEW a6, NEW b1, NEW b2
  PROVE  <<a1, a2, a3, a4, a5, a6>> \o <<b1, b2>> = <<a1, a2, a3, a4, a5, a6, b1, b2>>
<1>1. PICK S : S = {a1, a2, a3, a4, a5, a6, b1, b2}
  OBVIOUS
<1>2. PICK s, t, u : s = <<a1, a2, a3, a4, a5, a6>> /\ t = <<b1, b2>> /\ u = <<a1, a2, a3, a4, a5, a6, b1, b2>>
  OBVIOUS
<1>3. s \in Seq(S) /\ t \in Seq(S) /\ u \in Seq(S) /\ Len(s) = 6 /\ Len(t) = 2 /\ Len(u) = 6 + 2
  BY <1>1, <1>2
<1>4. PICK m, n : m = 6 /\ n = 2
  OBVIOUS
<1>5. m \in Nat /\ n \in Nat /\ Len(s) = m /\ Len(t) = n /\ Len(u) = m + n
  BY <1>3, <1>4
<1>6. \A i \in 1 .. m : u[i] = s[i]
  BY <1>2, <1>4
<1>7. \A i \in 1 .. n : u[m + i] = t[i]
  <2>1. \A i \in 1 .. 2 : i = 1 \/ i = 2
    OBVIOUS
  <2>2. u[6 + 1] = t[1] /\ u[6 + 2] = t[2]
    BY <1>2
  <2>3. \A i \in 1 .. 2 : u[6 + i] = t[i]
    BY ONLY <2>1, <2>2
  <2> QED BY ONLY <2>3, <1>4
<1>8. Sized(S, s, t, u, m, n)
  BY ONLY <1>3, <1>5 DEF Sized
<1>9. InTurn(s, t, u, m, n)
  BY ONLY <1>6, <1>7 DEF InTurn
<1>10. s \o t = u
  BY ONLY <1>8, <1>9, Joined
<1> QED BY ONLY <1>2, <1>10

LEMMA Join23 ==
  ASSUME NEW a1, NEW a2, NEW b1, NEW b2, NEW b3
  PROVE  <<a1, a2>> \o <<b1, b2, b3>> = <<a1, a2, b1, b2, b3>>
<1>1. PICK S : S = {a1, a2, b1, b2, b3}
  OBVIOUS
<1>2. PICK s, t, u : s = <<a1, a2>> /\ t = <<b1, b2, b3>> /\ u = <<a1, a2, b1, b2, b3>>
  OBVIOUS
<1>3. s \in Seq(S) /\ t \in Seq(S) /\ u \in Seq(S) /\ Len(s) = 2 /\ Len(t) = 3 /\ Len(u) = 2 + 3
  BY <1>1, <1>2
<1>4. PICK m, n : m = 2 /\ n = 3
  OBVIOUS
<1>5. m \in Nat /\ n \in Nat /\ Len(s) = m /\ Len(t) = n /\ Len(u) = m + n
  BY <1>3, <1>4
<1>6. \A i \in 1 .. m : u[i] = s[i]
  BY <1>2, <1>4
<1>7. \A i \in 1 .. n : u[m + i] = t[i]
  <2>1. \A i \in 1 .. 3 : i = 1 \/ i = 2 \/ i = 3
    OBVIOUS
  <2>2. u[2 + 1] = t[1] /\ u[2 + 2] = t[2] /\ u[2 + 3] = t[3]
    BY <1>2
  <2>3. \A i \in 1 .. 3 : u[2 + i] = t[i]
    BY ONLY <2>1, <2>2
  <2> QED BY ONLY <2>3, <1>4
<1>8. Sized(S, s, t, u, m, n)
  BY ONLY <1>3, <1>5 DEF Sized
<1>9. InTurn(s, t, u, m, n)
  BY ONLY <1>6, <1>7 DEF InTurn
<1>10. s \o t = u
  BY ONLY <1>8, <1>9, Joined
<1> QED BY ONLY <1>2, <1>10

LEMMA Join52 ==
  ASSUME NEW a1, NEW a2, NEW a3, NEW a4, NEW a5, NEW b1, NEW b2
  PROVE  <<a1, a2, a3, a4, a5>> \o <<b1, b2>> = <<a1, a2, a3, a4, a5, b1, b2>>
<1>1. PICK S : S = {a1, a2, a3, a4, a5, b1, b2}
  OBVIOUS
<1>2. PICK s, t, u : s = <<a1, a2, a3, a4, a5>> /\ t = <<b1, b2>> /\ u = <<a1, a2, a3, a4, a5, b1, b2>>
  OBVIOUS
<1>3. s \in Seq(S) /\ t \in Seq(S) /\ u \in Seq(S) /\ Len(s) = 5 /\ Len(t) = 2 /\ Len(u) = 5 + 2
  BY <1>1, <1>2
<1>4. PICK m, n : m = 5 /\ n = 2
  OBVIOUS
<1>5. m \in Nat /\ n \in Nat /\ Len(s) = m /\ Len(t) = n /\ Len(u) = m + n
  BY <1>3, <1>4
<1>6. \A i \in 1 .. m : u[i] = s[i]
  BY <1>2, <1>4
<1>7. \A i \in 1 .. n : u[m + i] = t[i]
  <2>1. \A i \in 1 .. 2 : i = 1 \/ i = 2
    OBVIOUS
  <2>2. u[5 + 1] = t[1] /\ u[5 + 2] = t[2]
    BY <1>2
  <2>3. \A i \in 1 .. 2 : u[5 + i] = t[i]
    BY ONLY <2>1, <2>2
  <2> QED BY ONLY <2>3, <1>4
<1>8. Sized(S, s, t, u, m, n)
  BY ONLY <1>3, <1>5 DEF Sized
<1>9. InTurn(s, t, u, m, n)
  BY ONLY <1>6, <1>7 DEF InTurn
<1>10. s \o t = u
  BY ONLY <1>8, <1>9, Joined
<1> QED BY ONLY <1>2, <1>10

\* The calls of the networks.
Time2FreqOf(c) == Call("time2freq", <<<<"time", c>>>>, <<"freq", c>>, None)
MixinOf(to) == Call("mixin", <<<<"freq", 1>>>>, to, None)
MixinAll == Call("mixin", <<<<"freq", 1>>, <<"freq", 2>>, <<"freq", 3>>>>, <<"win", 0>>, None)
ConvolveOf(from, to, by) == Call("convolve", <<from>>, to, by)
AddOf(from, to, by) == Call("convolve_add", <<from>>, to, by)
InplaceOf(to, by) == Call("convolve_inplace", <<>>, to, by)
DiracOf(from, to) == Call("dirac_convolve", <<from>>, to, None)
FadeOf(from, to) == Call("crossfade", <<from>>, to, None)
MixoutOf(from) == Call("mixout", from, <<"ofreq", 0>>, None)
EvalOf == Call("eval", <<<<"ofreq", 0>>>>, <<"ofreq", 0>>, None)
NextOf(to) == Call("mixin", <<<<"ofreq", 0>>>>, to, None)
Freq2TimeOf == Call("freq2time", <<<<"ofreq", 0>>>>, <<"otime", 0>>, None)

LEMMA AnalyseIs ==
  ASSUME NEW to
  PROVE  Analyse(to) = <<Time2FreqOf(1), MixinOf(to)>>
<1>1. Time2Freq(1) = <<Time2FreqOf(1)>>
  BY DEF Time2Freq, Time2FreqOf
<1>2. <<Time2FreqOf(1)>> \o <<MixinOf(to)>> = <<Time2FreqOf(1), MixinOf(to)>>
  BY Join11
<1>3. Analyse(to) = Time2Freq(1) \o <<MixinOf(to)>>
  BY DEF Analyse, MixinOf
<1> QED BY ONLY <1>1, <1>2, <1>3

LEMMA OneFilterCalls ==
  ASSUME NEW nt \in {"single", "runtime"}, NEW k, NEW s
  PROVE  Calls(nt, k, s) =
           <<Time2FreqOf(1), MixinOf(<<"acc", 0>>), InplaceOf(<<"acc", 0>>, Coeffs("A", 0)),
             MixoutOf(<<<<"acc", 0>>>>), Freq2TimeOf>>
<1>1. Calls(nt, k, s) = (Analyse(<<"acc", 0>>) \o <<InplaceOf(<<"acc", 0>>, Coeffs("A", 0))>>)
                        \o <<MixoutOf(<<<<"acc", 0>>>>), Freq2TimeOf>>
  BY DEF Calls, Synthesise, InplaceOf, MixoutOf, Freq2TimeOf
<1>2. <<Time2FreqOf(1), MixinOf(<<"acc", 0>>)>> \o <<InplaceOf(<<"acc", 0>>, Coeffs("A", 0))>>
      = <<Time2FreqOf(1), MixinOf(<<"acc", 0>>), InplaceOf(<<"acc", 0>>, Coeffs("A", 0))>>
  BY Join21
<1>3. <<Time2FreqOf(1), MixinOf(<<"acc", 0>>), InplaceOf(<<"acc", 0>>, Coeffs("A", 0))>>
      \o <<MixoutOf(<<<<"acc", 0>>>>), Freq2TimeOf>>
      = <<Time2FreqOf(1), MixinOf(<<"acc", 0>>), InplaceOf(<<"acc", 0>>, Coeffs("A", 0)),
          MixoutOf(<<<<"acc", 0>>>>), Freq2TimeOf>>
  BY Join32
<1> QED BY ONLY <1>1, <1>2, <1>3, AnalyseIs

LEMMA SeriesCalls ==
  ASSUME NEW k, NEW s
  PROVE  Calls("series", k, s) =
           <<Time2FreqOf(1),
             MixinOf(<<"win", 0>>),
             ConvolveOf(<<"win", 0>>, <<"acc", 0>>, Coeffs("A", 0)),
             MixoutOf(<<<<"acc", 0>>>>),
             EvalOf,
             NextOf(<<"acc", 1>>),
             InplaceOf(<<"acc", 1>>, Coeffs("B", 0)),
             MixoutOf(<<<<"acc", 1>>>>),
             Freq2TimeOf>>
<1>1. Calls("series", k, s) =
        (((Analyse(<<"win", 0>>)
        \o <<ConvolveOf(<<"win", 0>>, <<"acc", 0>>, Coeffs("A", 0))>>)
        \o <<MixoutOf(<<<<"acc", 0>>>>), EvalOf, NextOf(<<"acc", 1>>)>>)
        \o <<InplaceOf(<<"acc", 1>>, Coeffs("B", 0))>>)
        \o <<MixoutOf(<<<<"acc", 1>>>>), Freq2TimeOf>>
  BY DEF Calls, Synthesise, Between, ConvolveOf, InplaceOf, MixoutOf, EvalOf, NextOf, Freq2TimeOf
<1>2. <<Time2FreqOf(1),
        MixinOf(<<"win", 0>>)>>
      \o <<ConvolveOf(<<"win", 0>>, <<"acc", 0>>, Coeffs("A", 0))>>
      = <<Time2FreqOf(1),
          MixinOf(<<"win", 0>>),
          ConvolveOf(<<"win", 0>>, <<"acc", 0>>, Coeffs("A", 0))>>
  BY Join21
<1>3. <<Time2FreqOf(1),
        MixinOf(<<"win", 0>>),
        ConvolveOf(<<"win", 0>>, <<"acc", 0>>, Coeffs("A", 0))>>
      \o <<MixoutOf(<<<<"acc", 0>>>>),
           EvalOf,
           NextOf(<<"acc", 1>>)>>
      = <<Time2FreqOf(1),
          MixinOf(<<"win", 0>>),
          ConvolveOf(<<"win", 0>>, <<"acc", 0>>, Coeffs("A", 0)),
          MixoutOf(<<<<"acc", 0>>>>),
          EvalOf,
          NextOf(<<"acc", 1>>)>>
  BY Join33
<1>4. <<Time2FreqOf(1),
        MixinOf(<<"win", 0>>),
        ConvolveOf(<<"win", 0>>, <<"acc", 0>>, Coeffs("A", 0)),
        MixoutOf(<<<<"acc", 0>>>>),
        EvalOf,
        NextOf(<<"acc", 1>>)>>
      \o <<InplaceOf(<<"acc", 1>>, Coeffs("B", 0))>>
      = <<Time2FreqOf(1),
          MixinOf(<<"win", 0>>),
          ConvolveOf(<<"win", 0>>, <<"acc", 0>>, Coeffs("A", 0)),
          MixoutOf(<<<<"acc", 0>>>>),
          EvalOf,
          NextOf(<<"acc", 1>>),
          InplaceOf(<<"acc", 1>>, Coeffs("B", 0))>>
  BY Join61
<1>5. <<Time2FreqOf(1),
        MixinOf(<<"win", 0>>),
        ConvolveOf(<<"win", 0>>, <<"acc", 0>>, Coeffs("A", 0)),
        MixoutOf(<<<<"acc", 0>>>>),
        EvalOf,
        NextOf(<<"acc", 1>>),
        InplaceOf(<<"acc", 1>>, Coeffs("B", 0))>>
      \o <<MixoutOf(<<<<"acc", 1>>>>),
           Freq2TimeOf>>
      = <<Time2FreqOf(1),
          MixinOf(<<"win", 0>>),
          ConvolveOf(<<"win", 0>>, <<"acc", 0>>, Coeffs("A", 0)),
          MixoutOf(<<<<"acc", 0>>>>),
          EvalOf,
          NextOf(<<"acc", 1>>),
          InplaceOf(<<"acc", 1>>, Coeffs("B", 0)),
          MixoutOf(<<<<"acc", 1>>>>),
          Freq2TimeOf>>
  BY Join72
<1> QED BY ONLY <1>1, AnalyseIs, <1>2, <1>3, <1>4, <1>5

LEMMA DiracCalls ==
  ASSUME NEW k, NEW s
  PROVE  Calls("dirac", k, s) =
           <<Time2FreqOf(1),
             MixinOf(<<"win", 0>>),
             DiracOf(<<"win", 0>>, <<"acc", 0>>),
             MixoutOf(<<<<"acc", 0>>>>),
             EvalOf,
             NextOf(<<"acc", 1>>),
             DiracOf(<<"acc", 1>>, <<"acc", 1>>),
             MixoutOf(<<<<"acc", 1>>>>),
             Freq2TimeOf>>
<1>1. Calls("dirac", k, s) =
        (((Analyse(<<"win", 0>>)
        \o <<DiracOf(<<"win", 0>>, <<"acc", 0>>)>>)
        \o <<MixoutOf(<<<<"acc", 0>>>>), EvalOf, NextOf(<<"acc", 1>>)>>)
        \o <<DiracOf(<<"acc", 1>>, <<"acc", 1>>)>>)
        \o <<MixoutOf(<<<<"acc", 1>>>>), Freq2TimeOf>>
  BY DEF Calls, Synthesise, Between, DiracOf, MixoutOf, EvalOf, NextOf, Freq2TimeOf
<1>2. <<Time2FreqOf(1),
        MixinOf(<<"win", 0>>)>>
      \o <<DiracOf(<<"win", 0>>, <<"acc", 0>>)>>
      = <<Time2FreqOf(1),
          MixinOf(<<"win", 0>>),
          DiracOf(<<"win", 0>>, <<"acc", 0>>)>>
  BY Join21
<1>3. <<Time2FreqOf(1),
        MixinOf(<<"win", 0>>),
        DiracOf(<<"win", 0>>, <<"acc", 0>>)>>
      \o <<MixoutOf(<<<<"acc", 0>>>>),
           EvalOf,
           NextOf(<<"acc", 1>>)>>
      = <<Time2FreqOf(1),
          MixinOf(<<"win", 0>>),
          DiracOf(<<"win", 0>>, <<"acc", 0>>),
          MixoutOf(<<<<"acc", 0>>>>),
          EvalOf,
          NextOf(<<"acc", 1>>)>>
  BY Join33
<1>4. <<Time2FreqOf(1),
        MixinOf(<<"win", 0>>),
        DiracOf(<<"win", 0>>, <<"acc", 0>>),
        MixoutOf(<<<<"acc", 0>>>>),
        EvalOf,
        NextOf(<<"acc", 1>>)>>
      \o <<DiracOf(<<"acc", 1>>, <<"acc", 1>>)>>
      = <<Time2FreqOf(1),
          MixinOf(<<"win", 0>>),
          DiracOf(<<"win", 0>>, <<"acc", 0>>),
          MixoutOf(<<<<"acc", 0>>>>),
          EvalOf,
          NextOf(<<"acc", 1>>),
          DiracOf(<<"acc", 1>>, <<"acc", 1>>)>>
  BY Join61
<1>5. <<Time2FreqOf(1),
        MixinOf(<<"win", 0>>),
        DiracOf(<<"win", 0>>, <<"acc", 0>>),
        MixoutOf(<<<<"acc", 0>>>>),
        EvalOf,
        NextOf(<<"acc", 1>>),
        DiracOf(<<"acc", 1>>, <<"acc", 1>>)>>
      \o <<MixoutOf(<<<<"acc", 1>>>>),
           Freq2TimeOf>>
      = <<Time2FreqOf(1),
          MixinOf(<<"win", 0>>),
          DiracOf(<<"win", 0>>, <<"acc", 0>>),
          MixoutOf(<<<<"acc", 0>>>>),
          EvalOf,
          NextOf(<<"acc", 1>>),
          DiracOf(<<"acc", 1>>, <<"acc", 1>>),
          MixoutOf(<<<<"acc", 1>>>>),
          Freq2TimeOf>>
  BY Join72
<1> QED BY ONLY <1>1, AnalyseIs, <1>2, <1>3, <1>4, <1>5

LEMMA CrossfadeCalls ==
  ASSUME NEW k, NEW s
  PROVE  Calls("crossfade", k, s) =
           <<Time2FreqOf(1),
             MixinOf(<<"win", 0>>),
             ConvolveOf(<<"win", 0>>, <<"fade", 0>>, Coeffs("A", 0)),
             InplaceOf(<<"win", 0>>, Coeffs("B", 0)),
             FadeOf(<<"fade", 0>>, <<"win", 0>>),
             MixoutOf(<<<<"win", 0>>>>),
             Freq2TimeOf>>
<1>1. Calls("crossfade", k, s) =
        (Analyse(<<"win", 0>>)
        \o <<ConvolveOf(<<"win", 0>>, <<"fade", 0>>, Coeffs("A", 0)), InplaceOf(<<"win", 0>>, Coeffs("B", 0)), FadeOf(<<"fade", 0>>, <<"win", 0>>)>>)
        \o <<MixoutOf(<<<<"win", 0>>>>), Freq2TimeOf>>
  BY DEF Calls, Synthesise, ConvolveOf, InplaceOf, FadeOf, MixoutOf, Freq2TimeOf
<1>2. <<Time2FreqOf(1),
        MixinOf(<<"win", 0>>)>>
      \o <<ConvolveOf(<<"win", 0>>, <<"fade", 0>>, Coeffs("A", 0)),
           InplaceOf(<<"win", 0>>, Coeffs("B", 0)),
           FadeOf(<<"fade", 0>>, <<"win", 0>>)>>
      = <<Time2FreqOf(1),
          MixinOf(<<"win", 0>>),
          ConvolveOf(<<"win", 0>>, <<"fade", 0>>, Coeffs("A", 0)),
          InplaceOf(<<"win", 0>>, Coeffs("B", 0)),
          FadeOf(<<"fade", 0>>, <<"win", 0>>)>>
  BY Join23
<1>3. <<Time2FreqOf(1),
        MixinOf(<<"win", 0>>),
        ConvolveOf(<<"win", 0>>, <<"fade", 0>>, Coeffs("A", 0)),
        InplaceOf(<<"win", 0>>, Coeffs("B", 0)),
        FadeOf(<<"fade", 0>>, <<"win", 0>>)>>
      \o <<MixoutOf(<<<<"win", 0>>>>),
           Freq2TimeOf>>
      = <<Time2FreqOf(1),
          MixinOf(<<"win", 0>>),
          ConvolveOf(<<"win", 0>>, <<"fade", 0>>, Coeffs("A", 0)),
          InplaceOf(<<"win", 0>>, Coeffs("B", 0)),
          FadeOf(<<"fade", 0>>, <<"win", 0>>),
          MixoutOf(<<<<"win", 0>>>>),
          Freq2TimeOf>>
  BY Join52
<1> QED BY ONLY <1>1, AnalyseIs, <1>2, <1>3

LEMMA MixedCalls ==
  ASSUME NEW k, NEW s
  PROVE  Calls("mixed", k, s) =
           <<Time2FreqOf(1),
             Time2FreqOf(2),
             Time2FreqOf(3),
             MixinAll,
             ConvolveOf(<<"win", 0>>, <<"acc", 0>>, Coeffs("A", 0)),
             ConvolveOf(<<"win", 0>>, <<"acc", 1>>, Coeffs("B", 0)),
             MixoutOf(<<<<"acc", 0>>, <<"acc", 1>>>>),
             Freq2TimeOf>>
<1>1. Calls("mixed", k, s) =
        (((<<Time2FreqOf(1)>>
        \o <<Time2FreqOf(2)>>)
        \o <<Time2FreqOf(3)>>)
        \o <<MixinAll, ConvolveOf(<<"win", 0>>, <<"acc", 0>>, Coeffs("A", 0)), ConvolveOf(<<"win", 0>>, <<"acc", 1>>, Coeffs("B", 0))>>)
        \o <<MixoutOf(<<<<"acc", 0>>, <<"acc", 1>>>>), Freq2TimeOf>>
  BY DEF Calls, Synthesise, Time2Freq, Time2FreqOf, MixinAll, ConvolveOf, MixoutOf, Freq2TimeOf
<1>2. <<Time2FreqOf(1)>>
      \o <<Time2FreqOf(2)>>
      = <<Time2FreqOf(1),
          Time2FreqOf(2)>>
  BY Join11
<1>3. <<Time2FreqOf(1),
        Time2FreqOf(2)>>
      \o <<Time2FreqOf(3)>>
      = <<Time2FreqOf(1),
          Time2FreqOf(2),
          Time2FreqOf(3)>>
  BY Join21
<1>4. <<Time2FreqOf(1),
        Time2FreqOf(2),
        Time2FreqOf(3)>>
      \o <<MixinAll,
           ConvolveOf(<<"win", 0>>, <<"acc", 0>>, Coeffs("A", 0)),
           ConvolveOf(<<"win", 0>>, <<"acc", 1>>, Coeffs("B", 0))>>
      = <<Time2FreqOf(1),
          Time2FreqOf(2),
          Time2FreqOf(3),
          MixinAll,
          ConvolveOf(<<"win", 0>>, <<"acc", 0>>, Coeffs("A", 0)),
          ConvolveOf(<<"win", 0>>, <<"acc", 1>>, Coeffs("B", 0))>>
  BY Join33
<1>5. <<Time2FreqOf(1),
        Time2FreqOf(2),
        Time2FreqOf(3),
        MixinAll,
        ConvolveOf(<<"win", 0>>, <<"acc", 0>>, Coeffs("A", 0)),
        ConvolveOf(<<"win", 0>>, <<"acc", 1>>, Coeffs("B", 0))>>
      \o <<MixoutOf(<<<<"acc", 0>>, <<"acc", 1>>>>),
           Freq2TimeOf>>
      = <<Time2FreqOf(1),
          Time2FreqOf(2),
          Time2FreqOf(3),
          MixinAll,
          ConvolveOf(<<"win", 0>>, <<"acc", 0>>, Coeffs("A", 0)),
          ConvolveOf(<<"win", 0>>, <<"acc", 1>>, Coeffs("B", 0)),
          MixoutOf(<<<<"acc", 0>>, <<"acc", 1>>>>),
          Freq2TimeOf>>
  BY Join62
<1> QED BY ONLY <1>1, <1>2, <1>3, <1>4, <1>5

LEMMA LongCalls ==
  ASSUME NEW k \in Int, k > 1, NEW s
  PROVE  Calls("partitioned", k, s) =
           <<Time2FreqOf(1),
             MixinOf(<<"win", k % 2>>),
             ConvolveOf(<<"win", k % 2>>, <<"acc", 0>>, Coeffs("A", 0)),
             AddOf(<<"win", (k - 1) % 2>>, <<"acc", 0>>, Coeffs("A", 1)),
             MixoutOf(<<<<"acc", 0>>>>),
             Freq2TimeOf>>
<1>1. Calls("partitioned", k, s) =
        ((Analyse(<<"win", k % 2>>)
        \o <<ConvolveOf(<<"win", k % 2>>, <<"acc", 0>>, Coeffs("A", 0))>>)
        \o <<AddOf(<<"win", (k - 1) % 2>>, <<"acc", 0>>, Coeffs("A", 1))>>)
        \o <<MixoutOf(<<<<"acc", 0>>>>), Freq2TimeOf>>
  BY DEF Calls, Synthesise, ConvolveOf, AddOf, MixoutOf, Freq2TimeOf
<1>2. <<Time2FreqOf(1),
        MixinOf(<<"win", k % 2>>)>>
      \o <<ConvolveOf(<<"win", k % 2>>, <<"acc", 0>>, Coeffs("A", 0))>>
      = <<Time2FreqOf(1),
          MixinOf(<<"win", k % 2>>),
          ConvolveOf(<<"win", k % 2>>, <<"acc", 0>>, Coeffs("A", 0))>>
  BY Join21
<1>3. <<Time2FreqOf(1),
        MixinOf(<<"win", k % 2>>),
        ConvolveOf(<<"win", k % 2>>, <<"acc", 0>>, Coeffs("A", 0))>>
      \o <<AddOf(<<"win", (k - 1) % 2>>, <<"acc", 0>>, Coeffs("A", 1))>>
      = <<Time2FreqOf(1),
          MixinOf(<<"win", k % 2>>),
          ConvolveOf(<<"win", k % 2>>, <<"acc", 0>>, Coeffs("A", 0)),
          AddOf(<<"win", (k - 1) % 2>>, <<"acc", 0>>, Coeffs("A", 1))>>
  BY Join31
<1>4. <<Time2FreqOf(1),
        MixinOf(<<"win", k % 2>>),
        ConvolveOf(<<"win", k % 2>>, <<"acc", 0>>, Coeffs("A", 0)),
        AddOf(<<"win", (k - 1) % 2>>, <<"acc", 0>>, Coeffs("A", 1))>>
      \o <<MixoutOf(<<<<"acc", 0>>>>),
           Freq2TimeOf>>
      = <<Time2FreqOf(1),
          MixinOf(<<"win", k % 2>>),
          ConvolveOf(<<"win", k % 2>>, <<"acc", 0>>, Coeffs("A", 0)),
          AddOf(<<"win", (k - 1) % 2>>, <<"acc", 0>>, Coeffs("A", 1)),
          MixoutOf(<<<<"acc", 0>>>>),
          Freq2TimeOf>>
  BY Join42
<1> QED BY ONLY <1>1, AnalyseIs, <1>2, <1>3, <1>4

LEMMA FirstLongCalls ==
  ASSUME NEW s
  PROVE  Calls("partitioned", 1, s) =
           <<Time2FreqOf(1),
             MixinOf(<<"win", 1 % 2>>),
             ConvolveOf(<<"win", 1 % 2>>, <<"acc", 0>>, Coeffs("A", 0)),
             MixoutOf(<<<<"acc", 0>>>>),
             Freq2TimeOf>>
<1>1. PICK a, b, c : /\ a = Time2FreqOf(1) /\ b = MixinOf(<<"win", 1 % 2>>)
                     /\ c = ConvolveOf(<<"win", 1 % 2>>, <<"acc", 0>>, Coeffs("A", 0))
  OBVIOUS
<1>2. Calls("partitioned", 1, s) =
        ((Analyse(<<"win", 1 % 2>>) \o <<c>>) \o <<>>) \o <<MixoutOf(<<<<"acc", 0>>>>), Freq2TimeOf>>
  BY <1>1 DEF Calls, Synthesise, ConvolveOf, MixoutOf, Freq2TimeOf
<1>3. Analyse(<<"win", 1 % 2>>) \o <<c>> = <<a, b, c>>
  BY ONLY <1>1, AnalyseIs, Join21
<1>4. <<a, b, c>> \in Seq({a, b, c})
  OBVIOUS
<1>5. <<a, b, c>> \o <<>> = <<a, b, c>>
  BY ONLY <1>4, JoinNone
<1>6. <<a, b, c>> \o <<MixoutOf(<<<<"acc", 0>>>>), Freq2TimeOf>> = <<a, b, c, MixoutOf(<<<<"acc", 0>>>>), Freq2TimeOf>>
  BY ONLY Join32
<1> QED BY ONLY <1>1, <1>2, <1>3, <1>5, <1>6

-----------------------------------------------------------------------------
(* The calls that are made.                                                *)

\* The next call has the result v.
Made(v) ==
  /\ cbuf' = [cbuf EXCEPT ![todo[1].to] = v]
  /\ todo' = Tail(todo)
  /\ UNCHANGED <<length, realsize, net, nCoeffs, subdelay, fed, chosen>>

MixScales(a) == [i \in DOMAIN Inputs |-> a + i - 1]

LEMMA CallMade ==
  ASSUME Next, todo # <<>>
  PROVE  /\ todo[1].op = "coeffs2cbuf" =>
              Made(Coeffs2Cbuf(Piece(todo[1].to[1], todo[1].to[2]), PieceLength(todo[1].to[2]), CoeffScale))
         /\ todo[1].op = "runtime_coeffs2cbuf" =>
              Made(RuntimeCoeffs2Cbuf([n \in Half |-> IF n < nCoeffs THEN (Taps("A", n) * CoeffScale) % P ELSE 0]))
         /\ todo[1].op = "dump" =>
              Made(Dumped(From(1)))
         /\ todo[1].op = "time2freq" =>
              Made(R2HC(NFft, From(1)))
         /\ todo[1].op = "freq2time" =>
              Made(HC2R(NFft, From(1)))
         /\ todo[1].op = "mixin" =>
              Made(MixInput(Inputs, MixScales(InScale)))
         /\ todo[1].op = "mixout" =>
              Made(MixOutput(Inputs, MixScales(OutScale)))
         /\ todo[1].op = "convolve" =>
              Made(Product(From(1), By))
         /\ todo[1].op = "convolve_add" =>
              Made(ConvolveAdd(From(1), By, To))
         /\ todo[1].op = "convolve_inplace" =>
              Made(ConvolveInplace(To, By))
         /\ todo[1].op = "dirac_convolve" =>
              Made(DiracConvolve(From(1)))
         /\ todo[1].op = "crossfade" =>
              \E beyond \in {0, 1} : Made(CrossfadeInplace(beyond))
         /\ todo[1].op = "eval" =>
              EvalCall
         /\ todo[1].op = "td_new" =>
              Made([i \in Whole |-> IF i < 2 * SubBlock THEN TdCoeffs(todo[1].to[2])[i] ELSE 0])
         /\ todo[1].op = "td_convolve" =>
              SubsampleTurn
<1> DEFINE op == todo[1].op
<1>1. ASSUME NEW name, NEW v, Does(name, v)
      PROVE  op = name /\ Made(v)
  BY <1>1 DEF Does, Made
<1>2. ToCbuf =>
        /\ op = "coeffs2cbuf"
        /\ Made(Coeffs2Cbuf(Piece(todo[1].to[1], todo[1].to[2]), PieceLength(todo[1].to[2]), CoeffScale))
  BY <1>1 DEF ToCbuf
<1>3. RuntimeToCbuf =>
        /\ op = "runtime_coeffs2cbuf"
        /\ Made(RuntimeCoeffs2Cbuf([n \in Half |-> IF n < nCoeffs THEN (Taps("A", n) * CoeffScale) % P ELSE 0]))
  BY <1>1 DEF RuntimeToCbuf
<1>4. Dump =>
        /\ op = "dump"
        /\ Made(Dumped(From(1)))
  BY <1>1 DEF Dump
<1>5. Time2FreqCall =>
        /\ op = "time2freq"
        /\ Made(R2HC(NFft, From(1)))
  BY <1>1 DEF Time2FreqCall
<1>6. Freq2TimeCall =>
        /\ op = "freq2time"
        /\ Made(HC2R(NFft, From(1)))
  BY <1>1 DEF Freq2TimeCall
<1>7. MixInputCall =>
        /\ op = "mixin"
        /\ Made(MixInput(Inputs, MixScales(InScale)))
  BY <1>1 DEF MixInputCall, MixScales
<1>8. MixOutputCall =>
        /\ op = "mixout"
        /\ Made(MixOutput(Inputs, MixScales(OutScale)))
  BY <1>1 DEF MixOutputCall, MixScales
<1>9. ConvolveCall =>
        /\ op = "convolve"
        /\ Made(Product(From(1), By))
  BY <1>1 DEF ConvolveCall
<1>10. ConvolveAddCall =>
        /\ op = "convolve_add"
        /\ Made(ConvolveAdd(From(1), By, To))
  BY <1>1 DEF ConvolveAddCall
<1>11. ConvolveInplaceCall =>
        /\ op = "convolve_inplace"
        /\ Made(ConvolveInplace(To, By))
  BY <1>1 DEF ConvolveInplaceCall
<1>12. DiracConvolveCall =>
        /\ op = "dirac_convolve"
        /\ Made(DiracConvolve(From(1)))
  BY <1>1 DEF DiracConvolveCall
<1>13. CrossfadeCall =>
        /\ op = "crossfade"
        /\ \E beyond \in {0, 1} : Made(CrossfadeInplace(beyond))
  BY <1>1 DEF CrossfadeCall
<1>14. EvalCall => op = "eval"
  BY DEF EvalCall
<1>15. TdNew =>
        /\ op = "td_new"
        /\ Made([i \in Whole |-> IF i < 2 * SubBlock THEN TdCoeffs(todo[1].to[2])[i] ELSE 0])
  BY <1>1 DEF TdNew
<1>16. SubsampleTurn => op = "td_convolve"
  BY DEF SubsampleTurn
<1>17. ASSUME NEW x, NEW s
      PROVE  ~ TakeBlock(x) /\ ~ SubsampleUpdate(x, s)
  BY DEF TakeBlock, SubsampleUpdate, NextBlock
<1>18. ToCbuf \/ RuntimeToCbuf \/ Dump \/ Time2FreqCall \/ Freq2TimeCall \/ MixInputCall \/ MixOutputCall \/ ConvolveCall \/ ConvolveAddCall \/ ConvolveInplaceCall \/ DiracConvolveCall \/ CrossfadeCall \/ EvalCall \/ TdNew \/ SubsampleTurn
  BY <1>17 DEF Next
<1>19. op = "coeffs2cbuf" => ToCbuf
  BY ONLY <1>2, <1>3, <1>4, <1>5, <1>6, <1>7, <1>8, <1>9, <1>10, <1>11, <1>12, <1>13, <1>14, <1>15, <1>16, <1>18
<1>20. op = "runtime_coeffs2cbuf" => RuntimeToCbuf
  BY ONLY <1>2, <1>3, <1>4, <1>5, <1>6, <1>7, <1>8, <1>9, <1>10, <1>11, <1>12, <1>13, <1>14, <1>15, <1>16, <1>18
<1>21. op = "dump" => Dump
  BY ONLY <1>2, <1>3, <1>4, <1>5, <1>6, <1>7, <1>8, <1>9, <1>10, <1>11, <1>12, <1>13, <1>14, <1>15, <1>16, <1>18
<1>22. op = "time2freq" => Time2FreqCall
  BY ONLY <1>2, <1>3, <1>4, <1>5, <1>6, <1>7, <1>8, <1>9, <1>10, <1>11, <1>12, <1>13, <1>14, <1>15, <1>16, <1>18
<1>23. op = "freq2time" => Freq2TimeCall
  BY ONLY <1>2, <1>3, <1>4, <1>5, <1>6, <1>7, <1>8, <1>9, <1>10, <1>11, <1>12, <1>13, <1>14, <1>15, <1>16, <1>18
<1>24. op = "mixin" => MixInputCall
  BY ONLY <1>2, <1>3, <1>4, <1>5, <1>6, <1>7, <1>8, <1>9, <1>10, <1>11, <1>12, <1>13, <1>14, <1>15, <1>16, <1>18
<1>25. op = "mixout" => MixOutputCall
  BY ONLY <1>2, <1>3, <1>4, <1>5, <1>6, <1>7, <1>8, <1>9, <1>10, <1>11, <1>12, <1>13, <1>14, <1>15, <1>16, <1>18
<1>26. op = "convolve" => ConvolveCall
  BY ONLY <1>2, <1>3, <1>4, <1>5, <1>6, <1>7, <1>8, <1>9, <1>10, <1>11, <1>12, <1>13, <1>14, <1>15, <1>16, <1>18
<1>27. op = "convolve_add" => ConvolveAddCall
  BY ONLY <1>2, <1>3, <1>4, <1>5, <1>6, <1>7, <1>8, <1>9, <1>10, <1>11, <1>12, <1>13, <1>14, <1>15, <1>16, <1>18
<1>28. op = "convolve_inplace" => ConvolveInplaceCall
  BY ONLY <1>2, <1>3, <1>4, <1>5, <1>6, <1>7, <1>8, <1>9, <1>10, <1>11, <1>12, <1>13, <1>14, <1>15, <1>16, <1>18
<1>29. op = "dirac_convolve" => DiracConvolveCall
  BY ONLY <1>2, <1>3, <1>4, <1>5, <1>6, <1>7, <1>8, <1>9, <1>10, <1>11, <1>12, <1>13, <1>14, <1>15, <1>16, <1>18
<1>30. op = "crossfade" => CrossfadeCall
  BY ONLY <1>2, <1>3, <1>4, <1>5, <1>6, <1>7, <1>8, <1>9, <1>10, <1>11, <1>12, <1>13, <1>14, <1>15, <1>16, <1>18
<1>31. op = "eval" => EvalCall
  BY ONLY <1>2, <1>3, <1>4, <1>5, <1>6, <1>7, <1>8, <1>9, <1>10, <1>11, <1>12, <1>13, <1>14, <1>15, <1>16, <1>18
<1>32. op = "td_new" => TdNew
  BY ONLY <1>2, <1>3, <1>4, <1>5, <1>6, <1>7, <1>8, <1>9, <1>10, <1>11, <1>12, <1>13, <1>14, <1>15, <1>16, <1>18
<1>33. op = "td_convolve" => SubsampleTurn
  BY ONLY <1>2, <1>3, <1>4, <1>5, <1>6, <1>7, <1>8, <1>9, <1>10, <1>11, <1>12, <1>13, <1>14, <1>15, <1>16, <1>18
<1> QED BY ONLY <1>2, <1>3, <1>4, <1>5, <1>6, <1>7, <1>8, <1>9, <1>10, <1>11, <1>12, <1>13, <1>14, <1>15, <1>16, <1>19, <1>20, <1>21, <1>22, <1>23, <1>24, <1>25, <1>26, <1>27, <1>28, <1>29, <1>30, <1>31, <1>32, <1>33

\* A call of a function of the class, with buffers there are.
ValidCall(l, c) ==
  \/ c.op = "coeffs2cbuf" /\ c.to \in {"A", "B"} \X {0, 1}
  \/ c.op = "runtime_coeffs2cbuf" /\ c.to \in Buffers
  \/ /\ c.op \in {"dump", "time2freq", "freq2time", "dirac_convolve", "crossfade", "eval"}
     /\ c.to \in Buffers /\ c.from[1] \in Buffers
  \/ /\ c.op \in {"mixin", "mixout"} /\ c.to \in Buffers
     /\ \E N \in {1, 2, 3} : DOMAIN c.from = 1 .. N /\ \A i \in 1 .. N : c.from[i] \in Buffers
  \/ c.op \in {"convolve", "convolve_add"} /\ c.to \in Buffers /\ c.from[1] \in Buffers /\ c.by \in Buffers
  \/ c.op = "convolve_inplace" /\ c.to \in Buffers /\ c.by \in Buffers
  \/ c.op = "td_new" /\ c.to[2] \in SubSteps /\ c.to = <<"td", c.to[2]>>
  \/ c.op = "td_convolve" /\ c.to[2] \in Nat /\ c.to[2] + 4 <= l /\ c.by \in Buffers

ValidCalls(l, td) == \E S : td \in Seq(S) /\ \A c \in S : ValidCall(l, c)

LEMMA BufferNames ==
  /\ \A c \in Channels : <<"time", c>> \in Buffers /\ <<"freq", c>> \in Buffers
  /\ \A n \in {"win", "acc", "A", "B"} : \A i \in {0, 1} : <<n, i>> \in Buffers
  /\ \A n \in {"fade", "ofreq", "otime", "eval", "buf", "rest", "dump"} : <<n, 0>> \in Buffers
  /\ \A s \in SubSteps : <<"td", s>> \in Buffers
  /\ Channels = {1, 2, 3} /\ SubSteps = {-1, 0, 1}
<1>1. \A n \in {"win", "acc", "A", "B"} : \A i \in {0, 1} : <<n, i>> \in {"win", "acc", "A", "B"} \X {0, 1}
  OBVIOUS
<1>2. \A n \in {"fade", "ofreq", "otime", "eval", "buf", "rest", "dump"} :
        <<n, 0>> \in {"fade", "ofreq", "otime", "eval", "buf", "rest", "dump"} \X {0}
  OBVIOUS
<1>3. SubSteps = {-1, 0, 1}
  BY DEF SubSteps, StepCount
<1> QED BY <1>1, <1>2, <1>3 DEF Buffers, Channels

LEMMA NoCalls ==
  ASSUME NEW l
  PROVE  ValidCalls(l, <<>>)
<1>1. PICK S : S = {}
  OBVIOUS
<1>2. <<>> \in Seq(S) /\ \A c \in S : ValidCall(l, c)
  BY <1>1
<1> QED BY <1>2 DEF ValidCalls

LEMMA CallsLeft ==
  ASSUME NEW l, NEW td, ValidCalls(l, td), td # <<>>
  PROVE  ValidCall(l, td[1]) /\ ValidCalls(l, Tail(td))
<1>1. PICK S : td \in Seq(S) /\ \A c \in S : ValidCall(l, c)
  BY DEF ValidCalls
<1>2. td[1] \in S /\ Tail(td) \in Seq(S)
  BY <1>1
<1> QED BY <1>1, <1>2 DEF ValidCalls

LEMMA CallsAre ==
  ASSUME NEW l, NEW a \in {"A", "B"} \X {0, 1}, NEW b \in Buffers, NEW d \in Buffers, NEW e \in Buffers,
         NEW c \in Channels
  PROVE  /\ ValidCall(l, Call("coeffs2cbuf", <<>>, a, None))
         /\ ValidCall(l, Call("runtime_coeffs2cbuf", <<>>, b, None))
         /\ ValidCall(l, Call("dump", <<b>>, d, None))
         /\ ValidCall(l, Time2FreqOf(c)) /\ ValidCall(l, MixinOf(b)) /\ ValidCall(l, MixinAll)
         /\ ValidCall(l, ConvolveOf(b, d, e)) /\ ValidCall(l, AddOf(b, d, e)) /\ ValidCall(l, InplaceOf(b, d))
         /\ ValidCall(l, DiracOf(b, d)) /\ ValidCall(l, FadeOf(b, d))
         /\ ValidCall(l, MixoutOf(<<b>>)) /\ ValidCall(l, MixoutOf(<<b, d>>))
         /\ ValidCall(l, EvalOf) /\ ValidCall(l, NextOf(b)) /\ ValidCall(l, Freq2TimeOf)
<1>1. /\ <<"time", c>> \in Buffers /\ <<"freq", c>> \in Buffers /\ <<"freq", 1>> \in Buffers
      /\ <<"freq", 2>> \in Buffers /\ <<"freq", 3>> \in Buffers
      /\ <<"win", 0>> \in Buffers /\ <<"ofreq", 0>> \in Buffers /\ <<"otime", 0>> \in Buffers
  BY BufferNames
<1>2. /\ ValidCall(l, Call("coeffs2cbuf", <<>>, a, None))
      /\ ValidCall(l, Call("runtime_coeffs2cbuf", <<>>, b, None))
      /\ ValidCall(l, Call("dump", <<b>>, d, None))
      /\ ValidCall(l, Time2FreqOf(c))
  BY <1>1 DEF ValidCall, Call, Time2FreqOf
<1>3. /\ ValidCall(l, ConvolveOf(b, d, e)) /\ ValidCall(l, AddOf(b, d, e)) /\ ValidCall(l, InplaceOf(b, d))
      /\ ValidCall(l, DiracOf(b, d)) /\ ValidCall(l, FadeOf(b, d))
      /\ ValidCall(l, EvalOf) /\ ValidCall(l, Freq2TimeOf)
  BY <1>1 DEF ValidCall, Call, ConvolveOf, AddOf, InplaceOf, DiracOf, FadeOf, EvalOf, Freq2TimeOf
<1>4. ASSUME NEW x, x.op \in {"mixin", "mixout"}, x.to \in Buffers,
             NEW N \in {1, 2, 3}, DOMAIN x.from = 1 .. N, \A i \in 1 .. N : x.from[i] \in Buffers
      PROVE  ValidCall(l, x)
  BY <1>4 DEF ValidCall
<1>5. ValidCall(l, MixinOf(b)) /\ ValidCall(l, NextOf(b))
  <2>1. /\ MixinOf(b).op \in {"mixin", "mixout"} /\ MixinOf(b).to \in Buffers
        /\ DOMAIN MixinOf(b).from = 1 .. 1 /\ \A i \in 1 .. 1 : MixinOf(b).from[i] \in Buffers
    BY <1>1 DEF MixinOf, Call
  <2>2. /\ NextOf(b).op \in {"mixin", "mixout"} /\ NextOf(b).to \in Buffers
        /\ DOMAIN NextOf(b).from = 1 .. 1 /\ \A i \in 1 .. 1 : NextOf(b).from[i] \in Buffers
    BY <1>1 DEF NextOf, Call
  <2> QED BY <1>4, <2>1, <2>2
<1>6. ValidCall(l, MixinAll)
  <2>1. /\ MixinAll.op \in {"mixin", "mixout"} /\ MixinAll.to \in Buffers
        /\ DOMAIN MixinAll.from = 1 .. 3 /\ \A i \in 1 .. 3 : MixinAll.from[i] \in Buffers
    BY <1>1 DEF MixinAll, Call
  <2> QED BY <1>4, <2>1
<1>7. ValidCall(l, MixoutOf(<<b>>)) /\ ValidCall(l, MixoutOf(<<b, d>>))
  <2>1. /\ MixoutOf(<<b>>).op \in {"mixin", "mixout"} /\ MixoutOf(<<b>>).to \in Buffers
        /\ DOMAIN MixoutOf(<<b>>).from = 1 .. 1 /\ \A i \in 1 .. 1 : MixoutOf(<<b>>).from[i] \in Buffers
    BY <1>1 DEF MixoutOf, Call
  <2>2. /\ MixoutOf(<<b, d>>).op \in {"mixin", "mixout"} /\ MixoutOf(<<b, d>>).to \in Buffers
        /\ DOMAIN MixoutOf(<<b, d>>).from = 1 .. 2 /\ \A i \in 1 .. 2 : MixoutOf(<<b, d>>).from[i] \in Buffers
    BY <1>1 DEF MixoutOf, Call
  <2> QED BY <1>4, <2>1, <2>2
<1> QED BY ONLY <1>2, <1>3, <1>5, <1>6, <1>7

LEMMA OneCall ==
  ASSUME NEW l, NEW a1,
         ValidCall(l, a1)
  PROVE  ValidCalls(l, <<a1>>)
<1>1. PICK td, S : td = <<a1>> /\ S = {a1}
  OBVIOUS
<1>2. td \in Seq(S) /\ \A c \in S : ValidCall(l, c)
  BY <1>1
<1> QED BY ONLY <1>1, <1>2 DEF ValidCalls

LEMMA TwoCalls ==
  ASSUME NEW l, NEW a1, NEW a2,
         ValidCall(l, a1), ValidCall(l, a2)
  PROVE  ValidCalls(l, <<a1, a2>>)
<1>1. PICK td, S : td = <<a1, a2>> /\ S = {a1, a2}
  OBVIOUS
<1>2. td \in Seq(S) /\ \A c \in S : ValidCall(l, c)
  BY <1>1
<1> QED BY ONLY <1>1, <1>2 DEF ValidCalls

LEMMA ThreeCalls ==
  ASSUME NEW l, NEW a1, NEW a2, NEW a3,
         ValidCall(l, a1), ValidCall(l, a2), ValidCall(l, a3)
  PROVE  ValidCalls(l, <<a1, a2, a3>>)
<1>1. PICK td, S : td = <<a1, a2, a3>> /\ S = {a1, a2, a3}
  OBVIOUS
<1>2. td \in Seq(S) /\ \A c \in S : ValidCall(l, c)
  BY <1>1
<1> QED BY ONLY <1>1, <1>2 DEF ValidCalls

LEMMA FiveCalls ==
  ASSUME NEW l, NEW a1, NEW a2, NEW a3, NEW a4, NEW a5,
         ValidCall(l, a1), ValidCall(l, a2), ValidCall(l, a3), ValidCall(l, a4), ValidCall(l, a5)
  PROVE  ValidCalls(l, <<a1, a2, a3, a4, a5>>)
<1>1. PICK td, S : td = <<a1, a2, a3, a4, a5>> /\ S = {a1, a2, a3, a4, a5}
  OBVIOUS
<1>2. td \in Seq(S) /\ \A c \in S : ValidCall(l, c)
  BY <1>1
<1> QED BY ONLY <1>1, <1>2 DEF ValidCalls

LEMMA SixCalls ==
  ASSUME NEW l, NEW a1, NEW a2, NEW a3, NEW a4, NEW a5, NEW a6,
         ValidCall(l, a1), ValidCall(l, a2), ValidCall(l, a3), ValidCall(l, a4), ValidCall(l, a5), ValidCall(l, a6)
  PROVE  ValidCalls(l, <<a1, a2, a3, a4, a5, a6>>)
<1>1. PICK td, S : td = <<a1, a2, a3, a4, a5, a6>> /\ S = {a1, a2, a3, a4, a5, a6}
  OBVIOUS
<1>2. td \in Seq(S) /\ \A c \in S : ValidCall(l, c)
  BY <1>1
<1> QED BY ONLY <1>1, <1>2 DEF ValidCalls

LEMMA SevenCalls ==
  ASSUME NEW l, NEW a1, NEW a2, NEW a3, NEW a4, NEW a5, NEW a6, NEW a7,
         ValidCall(l, a1), ValidCall(l, a2), ValidCall(l, a3), ValidCall(l, a4), ValidCall(l, a5), ValidCall(l, a6), ValidCall(l, a7)
  PROVE  ValidCalls(l, <<a1, a2, a3, a4, a5, a6, a7>>)
<1>1. PICK td, S : td = <<a1, a2, a3, a4, a5, a6, a7>> /\ S = {a1, a2, a3, a4, a5, a6, a7}
  OBVIOUS
<1>2. td \in Seq(S) /\ \A c \in S : ValidCall(l, c)
  BY <1>1
<1> QED BY ONLY <1>1, <1>2 DEF ValidCalls

LEMMA EightCalls ==
  ASSUME NEW l, NEW a1, NEW a2, NEW a3, NEW a4, NEW a5, NEW a6, NEW a7, NEW a8,
         ValidCall(l, a1), ValidCall(l, a2), ValidCall(l, a3), ValidCall(l, a4), ValidCall(l, a5), ValidCall(l, a6), ValidCall(l, a7), ValidCall(l, a8)
  PROVE  ValidCalls(l, <<a1, a2, a3, a4, a5, a6, a7, a8>>)
<1>1. PICK td, S : td = <<a1, a2, a3, a4, a5, a6, a7, a8>> /\ S = {a1, a2, a3, a4, a5, a6, a7, a8}
  OBVIOUS
<1>2. td \in Seq(S) /\ \A c \in S : ValidCall(l, c)
  BY <1>1
<1> QED BY ONLY <1>1, <1>2 DEF ValidCalls

LEMMA NineCalls ==
  ASSUME NEW l, NEW a1, NEW a2, NEW a3, NEW a4, NEW a5, NEW a6, NEW a7, NEW a8, NEW a9,
         ValidCall(l, a1), ValidCall(l, a2), ValidCall(l, a3), ValidCall(l, a4), ValidCall(l, a5), ValidCall(l, a6), ValidCall(l, a7), ValidCall(l, a8), ValidCall(l, a9)
  PROVE  ValidCalls(l, <<a1, a2, a3, a4, a5, a6, a7, a8, a9>>)
<1>1. PICK td, S : td = <<a1, a2, a3, a4, a5, a6, a7, a8, a9>> /\ S = {a1, a2, a3, a4, a5, a6, a7, a8, a9}
  OBVIOUS
<1>2. td \in Seq(S) /\ \A c \in S : ValidCall(l, c)
  BY <1>1
<1> QED BY ONLY <1>1, <1>2 DEF ValidCalls

LEMMA SetupValid ==
  ASSUME NEW l, NEW nt \in Nets
  PROVE  ValidCalls(l, Setup(nt))
<1>0. /\ nt \in {"single", "partitioned", "runtime", "series", "dirac", "mixed", "crossfade", "subsample"}
      /\ \A n \in {"A", "B"} : \A i \in {0, 1} : Coeffs(n, i) \in {"A", "B"} \X {0, 1} /\ Coeffs(n, i) \in Buffers
      /\ <<"dump", 0>> \in Buffers
  BY SpectrumAssumption, BufferNames DEF Coeffs
<1>1. ASSUME NEW n \in {"A", "B"}, NEW i \in {0, 1}
      PROVE  ValidCall(l, Call("coeffs2cbuf", <<>>, Coeffs(n, i), None))
  <2>1. <<"dump", 0>> \in Buffers /\ 1 \in Channels
    BY BufferNames
  <2> QED BY ONLY <1>0, <2>1, CallsAre, <1>1
<1>2. /\ ValidCall(l, Call("runtime_coeffs2cbuf", <<>>, Coeffs("A", 0), None))
      /\ ValidCall(l, Call("dump", <<Coeffs("A", 0)>>, <<"dump", 0>>, None))
  <2>1. 1 \in Channels /\ Coeffs("A", 0) \in Buffers /\ Coeffs("A", 0) \in {"A", "B"} \X {0, 1}
    BY <1>0, BufferNames
  <2> QED BY ONLY <1>0, <2>1, CallsAre
<1>3. CASE nt \in {"single", "partitioned"}
  <2>1. PICK a, b, c : /\ a = Call("coeffs2cbuf", <<>>, Coeffs("A", 0), None)
                       /\ b = Call("coeffs2cbuf", <<>>, Coeffs("A", 1), None)
                       /\ c = Call("dump", <<Coeffs("A", 0)>>, <<"dump", 0>>, None)
    OBVIOUS
  <2>2. Setup(nt) = <<a, b, c>>
    BY <1>3, <2>1 DEF Setup
  <2>3. ValidCall(l, a) /\ ValidCall(l, b) /\ ValidCall(l, c)
    BY <1>1, <1>2, <2>1
  <2> QED BY <2>2, <2>3, ThreeCalls
<1>4. CASE nt = "runtime"
  <2>1. PICK a : a = Call("runtime_coeffs2cbuf", <<>>, Coeffs("A", 0), None)
    OBVIOUS
  <2>2. Setup(nt) = <<a>>
    BY <1>4, <2>1 DEF Setup
  <2> QED BY <1>2, <2>1, <2>2, OneCall
<1>5. CASE nt \in {"series", "mixed", "crossfade"}
  <2>1. PICK a, b : /\ a = Call("coeffs2cbuf", <<>>, Coeffs("A", 0), None)
                    /\ b = Call("coeffs2cbuf", <<>>, Coeffs("B", 0), None)
    OBVIOUS
  <2>2. Setup(nt) = <<a, b>>
    BY <1>5, <2>1 DEF Setup
  <2>3. ValidCall(l, a) /\ ValidCall(l, b)
    BY <1>1, <2>1
  <2> QED BY <2>2, <2>3, TwoCalls
<1>6. CASE nt = "dirac"
  BY <1>6, NoCalls DEF Setup
<1>7. CASE nt = "subsample"
  <2>1. PICK a, b, c : /\ a = Call("td_new", <<>>, <<"td", -1>>, None)
                       /\ b = Call("td_new", <<>>, <<"td", 0>>, None)
                       /\ c = Call("td_new", <<>>, <<"td", 1>>, None)
    OBVIOUS
  <2>2. Setup(nt) = <<a, b, c>>
    BY <1>7, <2>1 DEF Setup
  <2>3. ValidCall(l, a) /\ ValidCall(l, b) /\ ValidCall(l, c)
    <3>1. -1 \in SubSteps /\ 0 \in SubSteps /\ 1 \in SubSteps
      BY BufferNames
    <3>2. a.op = "td_new" /\ a.to = <<"td", -1>>
      BY <2>1 DEF Call
    <3>3. b.op = "td_new" /\ b.to = <<"td", 0>>
      BY <2>1 DEF Call
    <3>4. c.op = "td_new" /\ c.to = <<"td", 1>>
      BY <2>1 DEF Call
    <3> QED BY <3>1, <3>2, <3>3, <3>4 DEF ValidCall
  <2> QED BY <2>2, <2>3, ThreeCalls
<1> QED BY ONLY <1>0, <1>3, <1>4, <1>5, <1>6, <1>7

LEMMA FunctionSeq ==
  ASSUME NEW S, NEW n \in Nat, NEW f \in [1 .. n -> S]
  PROVE  f \in Seq(S)
OBVIOUS

LEMMA CallsValid ==
  ASSUME NEW l \in Lengths, length = l, NEW nt \in Nets, NEW k \in Nat \ {0}, NEW s
  PROVE  ValidCalls(l, Calls(nt, k, s))
<1>0. nt \in {"single", "partitioned", "runtime", "series", "dirac", "mixed", "crossfade", "subsample"}
  BY SpectrumAssumption
<1>1. PICK A, B, A1 : A = Coeffs("A", 0) /\ B = Coeffs("B", 0) /\ A1 = Coeffs("A", 1)
  OBVIOUS
<1>2. PICK a0, a1, w0, fa : a0 = <<"acc", 0>> /\ a1 = <<"acc", 1>> /\ w0 = <<"win", 0>> /\ fa = <<"fade", 0>>
  OBVIOUS
<1>3. PICK wk, wl : wk = <<"win", k % 2>> /\ wl = <<"win", (k - 1) % 2>>
  OBVIOUS
<1>4. /\ A \in Buffers /\ B \in Buffers /\ A1 \in Buffers /\ a0 \in Buffers /\ a1 \in Buffers /\ w0 \in Buffers
      /\ fa \in Buffers
  BY <1>1, <1>2, BufferNames DEF Coeffs
<1>5. wk \in Buffers /\ wl \in Buffers
  <2>1. k % 2 \in {0, 1} /\ (k - 1) % 2 \in {0, 1}
    OBVIOUS
  <2> QED BY <1>3, <2>1, BufferNames
<1>6. ASSUME NEW b \in Buffers, NEW d \in Buffers, NEW e \in Buffers, NEW c \in {1, 2, 3}
      PROVE  /\ ValidCall(l, Time2FreqOf(c)) /\ ValidCall(l, MixinOf(b)) /\ ValidCall(l, MixinAll)
             /\ ValidCall(l, ConvolveOf(b, d, e)) /\ ValidCall(l, AddOf(b, d, e)) /\ ValidCall(l, InplaceOf(b, d))
             /\ ValidCall(l, DiracOf(b, d)) /\ ValidCall(l, FadeOf(b, d))
             /\ ValidCall(l, MixoutOf(<<b>>)) /\ ValidCall(l, MixoutOf(<<b, d>>))
             /\ ValidCall(l, EvalOf) /\ ValidCall(l, NextOf(b)) /\ ValidCall(l, Freq2TimeOf)
  <2>1. c \in Channels /\ Coeffs("A", 0) \in {"A", "B"} \X {0, 1}
    BY BufferNames DEF Coeffs
  <2>2. PICK a : a \in {"A", "B"} \X {0, 1}
    BY <2>1
  <2> QED BY ONLY <1>6, <2>1, <2>2, CallsAre
<1>7. 1 \in {1, 2, 3} /\ 2 \in {1, 2, 3} /\ 3 \in {1, 2, 3}
  OBVIOUS
<1>8. CASE nt \in {"single", "runtime"}
  <2>1. Calls(nt, k, s) = <<Time2FreqOf(1), MixinOf(a0), InplaceOf(a0, A), MixoutOf(<<a0>>), Freq2TimeOf>>
    BY ONLY <1>1, <1>2, <1>8, OneFilterCalls
  <2> QED BY ONLY <1>4, <1>6, <1>7, <2>1, FiveCalls
<1>9. CASE nt = "partitioned"
  <2>1. CASE k = 1
    <3>1. Calls(nt, k, s) = <<Time2FreqOf(1), MixinOf(wk), ConvolveOf(wk, a0, A), MixoutOf(<<a0>>), Freq2TimeOf>>
      BY ONLY <1>1, <1>2, <1>3, <1>9, <2>1, FirstLongCalls
    <3> QED BY ONLY <1>4, <1>5, <1>6, <1>7, <3>1, FiveCalls
  <2>2. CASE k # 1
    <3>1. k \in Int /\ k > 1
      BY <2>2
    <3>2. Calls(nt, k, s) = <<Time2FreqOf(1), MixinOf(wk), ConvolveOf(wk, a0, A), AddOf(wl, a0, A1),
                              MixoutOf(<<a0>>), Freq2TimeOf>>
      BY ONLY <1>1, <1>2, <1>3, <1>9, <3>1, LongCalls
    <3> QED BY ONLY <1>4, <1>5, <1>6, <1>7, <3>2, SixCalls
  <2> QED BY <2>1, <2>2
<1>10. CASE nt = "series"
  <2>1. Calls(nt, k, s) = <<Time2FreqOf(1), MixinOf(w0), ConvolveOf(w0, a0, A), MixoutOf(<<a0>>), EvalOf, NextOf(a1),
                            InplaceOf(a1, B), MixoutOf(<<a1>>), Freq2TimeOf>>
    BY ONLY <1>1, <1>2, <1>10, SeriesCalls
  <2> QED BY ONLY <1>4, <1>6, <1>7, <2>1, NineCalls
<1>11. CASE nt = "dirac"
  <2>1. Calls(nt, k, s) = <<Time2FreqOf(1), MixinOf(w0), DiracOf(w0, a0), MixoutOf(<<a0>>), EvalOf, NextOf(a1),
                            DiracOf(a1, a1), MixoutOf(<<a1>>), Freq2TimeOf>>
    BY ONLY <1>1, <1>2, <1>11, DiracCalls
  <2> QED BY ONLY <1>4, <1>6, <1>7, <2>1, NineCalls
<1>12. CASE nt = "mixed"
  <2>1. Calls(nt, k, s) = <<Time2FreqOf(1), Time2FreqOf(2), Time2FreqOf(3), MixinAll, ConvolveOf(w0, a0, A),
                            ConvolveOf(w0, a1, B), MixoutOf(<<a0, a1>>), Freq2TimeOf>>
    BY ONLY <1>1, <1>2, <1>12, MixedCalls
  <2> QED BY ONLY <1>4, <1>6, <1>7, <2>1, EightCalls
<1>13. CASE nt = "crossfade"
  <2>1. Calls(nt, k, s) = <<Time2FreqOf(1), MixinOf(w0), ConvolveOf(w0, fa, A), InplaceOf(w0, B), FadeOf(fa, w0),
                            MixoutOf(<<w0>>), Freq2TimeOf>>
    BY ONLY <1>1, <1>2, <1>13, CrossfadeCalls
  <2> QED BY ONLY <1>4, <1>6, <1>7, <2>1, SevenCalls
<1>14. CASE nt = "subsample"
  <2>1. CASE s \notin SubSteps
    BY <1>14, <2>1, NoCalls DEF Calls
  <2>2. CASE s \in SubSteps
    <3>1. PICK n \in Int : n = l \div 4 /\ l = 4 * n /\ n \in Nat
      BY LengthIs
    <3> DEFINE c(i) == Call("td_convolve", <<>>, <<"buf", (i - 1) * 4>>, <<"td", s>>)
    <3>2. PICK f : f = [i \in 1 .. n |-> c(i)]
      OBVIOUS
    <3>3. Calls(nt, k, s) = f
      BY <1>14, <2>2, <3>1, <3>2, SubBlockIs DEF Calls
    <3>4. ASSUME NEW i \in 1 .. n
          PROVE  ValidCall(l, f[i])
      <4>1. f[i].op = "td_convolve" /\ f[i].to[2] = (i - 1) * 4 /\ f[i].by = <<"td", s>>
        BY <3>2 DEF Call
      <4>2. (i - 1) * 4 \in Nat /\ (i - 1) * 4 + 4 <= l
        BY <3>1
      <4>3. <<"td", s>> \in Buffers
        BY <2>2, BufferNames
      <4> QED BY ONLY <4>1, <4>2, <4>3 DEF ValidCall
    <3>5. PICK S : S = {f[i] : i \in 1 .. n}
      OBVIOUS
    <3>6. f \in [1 .. n -> S]
      BY <3>2, <3>5
    <3>7. f \in Seq(S)
      BY ONLY <3>1, <3>6, FunctionSeq
    <3>8. \A x \in S : ValidCall(l, x)
      BY ONLY <3>4, <3>5
    <3> QED BY ONLY <3>3, <3>7, <3>8 DEF ValidCalls
  <2> QED BY <2>1, <2>2
<1> QED BY ONLY <1>0, <1>8, <1>9, <1>10, <1>11, <1>12, <1>13, <1>14

-----------------------------------------------------------------------------
(* Types.                                                                  *)

\* The type invariant with the calls that are left: they are all of buffers
\* there are.
TypeInv ==
  /\ length \in Lengths /\ realsize \in RealSizes /\ net \in Nets /\ nCoeffs \in CoeffLengths
  /\ cbuf \in [Buffers -> [Whole -> Field]]
  /\ Fed(length, fed) /\ Len(fed) <= MaxBlocks
  /\ chosen \in Seq(Int) /\ Len(chosen) = Len(fed)
  /\ ValidCalls(length, todo)

LEMMA BufferIs ==
  ASSUME length \in Lengths, NEW cb \in [Buffers -> [Whole -> Field]], NEW b \in Buffers
  PROVE  cb[b] \in [Whole -> Field] /\ Ints(cb[b], 2 * length) /\ Whole = 0 .. 2 * length - 1
<1>1. Whole = 0 .. 2 * length - 1
  BY DEF Whole, NFft
<1>2. cb[b] \in [Whole -> Field]
  OBVIOUS
<1>3. Field \subseteq Int
  BY PNat DEF Field
<1> QED BY <1>1, <1>2, <1>3 DEF Ints

LEMMA MadeTyped ==
  ASSUME cbuf \in [Buffers -> [Whole -> Field]], todo[1].to \in Buffers, NEW v \in [Whole -> Field], Made(v)
  PROVE  /\ cbuf' \in [Buffers -> [Whole -> Field]] /\ todo' = Tail(todo)
         /\ UNCHANGED <<length, realsize, net, nCoeffs, subdelay, fed, chosen>>
BY DEF Made

LEMMA InputsAre ==
  ASSUME length \in Lengths, cbuf \in [Buffers -> [Whole -> Field]],
         NEW N \in {1, 2, 3}, DOMAIN todo[1].from = 1 .. N, \A i \in 1 .. N : todo[1].from[i] \in Buffers,
         NEW a \in Int
  PROVE  /\ Len(Inputs) = N /\ N \in Nat /\ Vectors(Inputs, MixScales(a), N, 2 * length)
         /\ \A i \in 1 .. N : Inputs[i] = cbuf[todo[1].from[i]] /\ MixScales(a)[i] = a + i - 1
<1>1. Inputs = [i \in 1 .. N |-> cbuf[todo[1].from[i]]]
  BY DEF Inputs, From
<1>2. Len(Inputs) = N /\ N \in Nat
  BY <1>1
<1>3. MixScales(a) = [i \in 1 .. N |-> a + i - 1]
  BY <1>1 DEF MixScales
<1>4. ASSUME NEW i \in 1 .. N
      PROVE  Ints(Inputs[i], 2 * length) /\ MixScales(a)[i] \in Int
  <2>1. Inputs[i] = cbuf[todo[1].from[i]] /\ MixScales(a)[i] = a + i - 1
    BY <1>1, <1>3
  <2> QED BY <2>1, BufferIs
<1>5. \A i \in 1 .. N : Inputs[i] = cbuf[todo[1].from[i]] /\ MixScales(a)[i] = a + i - 1
  BY <1>1, <1>3
<1>6. Vectors(Inputs, MixScales(a), N, 2 * length)
  BY ONLY <1>4 DEF Vectors
<1> QED BY ONLY <1>2, <1>5, <1>6

LEMMA ScalesAre ==
  InScale \in Int /\ OutScale \in Int /\ CoeffScale \in Int
BY SpectrumAssumption

\* The transforms of the subsample delay.
LEMMA SubTransforms ==
  ASSUME NEW l \in Lengths, NEW v, Ints(v, 8)
  PROVE  /\ 2 * SubBlock = 8 /\ 8 \in Transforms
         /\ R2HC(8, v) \in [0 .. 7 -> Field] /\ HC2R(8, v) \in [0 .. 7 -> Field]
         /\ Ints(R2HC(8, v), 8) /\ Ordered(8, R2HC(8, v), v)
<1>1. 2 * SubBlock = 8 /\ 8 \in Transforms
  BY SubBlockIs DEF Transforms
<1>2. ASSUME NEW k \in 0 .. 8 - 1
      PROVE  /\ R2HC(8, v)[k] \in Field /\ HC2R(8, v)[k] \in Field /\ R2HC(8, v)[k] \in Int
             /\ Eq(R2HC(8, v)[k], Spectral(8, v, k))
  <2>1. HC2R(8, v)[k] \in Field
    BY <1>1, HC2RIs
  <2>2. R2HC(8, v)[k] \in Field /\ R2HC(8, v)[k] \in Int /\ Eq(R2HC(8, v)[k], Spectral(8, v, k))
    BY <1>1, R2HCIs
  <2> QED BY <2>1, <2>2
<1>3. R2HC(8, v) = [k \in 0 .. 8 - 1 |-> R2HC(8, v)[k]]
  BY DEF R2HC
<1>4. HC2R(8, v) = [k \in 0 .. 8 - 1 |-> HC2R(8, v)[k]]
  BY DEF HC2R
<1>5. R2HC(8, v) \in [0 .. 8 - 1 -> Field]
  BY <1>2, <1>3
<1>6. HC2R(8, v) \in [0 .. 8 - 1 -> Field]
  BY <1>2, <1>4
<1>7. 8 - 1 = 7
  OBVIOUS
<1> QED BY <1>1, <1>2, <1>5, <1>6, <1>7 DEF Ordered, Ints

SubCoeffs(s) == [i \in 0 .. 7 |-> IF 4 <= i /\ i < 7 THEN SubFilter(s, i - 4) ELSE 0]

LEMMA SubFilterIs ==
  ASSUME NEW s, NEW i \in 0 .. 2
  PROVE  SubFilter(s, i) \in Int
<1>1. Taps("early", i) \in Int /\ Taps("late", i) \in Int
  BY SpectrumAssumption
<1> QED BY <1>1 DEF SubFilter

LEMMA SubCoeffsIs ==
  ASSUME NEW l \in Lengths, NEW s
  PROVE  /\ Ints(SubCoeffs(s), 8) /\ TdCoeffs(s) \in [0 .. 7 -> Field]
         /\ \A k \in 0 .. 7 : TdCoeffs(s)[k] = (R2HC(8, SubCoeffs(s))[k] * Inverse(8)) % P
<1>1. Ints(SubCoeffs(s), 8)
  <2>1. ASSUME NEW i \in 0 .. 8 - 1
        PROVE  SubCoeffs(s)[i] \in Int
    <3>1. 4 <= i /\ i < 7 => i - 4 \in 0 .. 2
      OBVIOUS
    <3>2. 4 <= i /\ i < 7 => SubFilter(s, i - 4) \in Int
      BY <3>1, SubFilterIs
    <3> QED BY <3>2 DEF SubCoeffs
  <2> QED BY <2>1 DEF Ints
<1>2. PICK r : r = R2HC(8, SubCoeffs(s)) /\ r \in [0 .. 7 -> Field]
  BY <1>1, SubTransforms
<1>3. SubBlock = 4 /\ SubFilterLength = 3 /\ 2 * SubBlock = 8
  BY SubBlockIs DEF SubFilterLength
<1>4. SubCoeffs(s) = [i \in 0 .. 2 * SubBlock - 1 |->
                        IF SubBlock <= i /\ i < SubBlock + SubFilterLength THEN SubFilter(s, i - SubBlock) ELSE 0]
  BY <1>3 DEF SubCoeffs
<1>5. TdCoeffs(s) = [k \in DOMAIN r |-> (r[k] * Inverse(8)) % P]
  BY <1>2, <1>3, <1>4 DEF TdCoeffs
<1>6. TdCoeffs(s) = [k \in 0 .. 7 |-> (r[k] * Inverse(8)) % P]
  BY <1>2, <1>5
<1>7. Inverse(8) \in Int
  <2>1. 8 \in Transforms
    BY <1>1, SubTransforms
  <2>2. 8 \in Int /\ ~Eq(8, 0)
    BY <2>1, UnitsOf
  <2> QED BY <2>2, InverseIs
<1>8. ASSUME NEW k \in 0 .. 7
      PROVE  (r[k] * Inverse(8)) % P \in Field
  <2>1. PICK a \in Int : a = r[k]
    BY <1>2, PNat DEF Field
  <2>2. PICK b \in Int : b = a * Inverse(8)
    BY <1>7
  <2> QED BY <2>1, <2>2, PNat DEF Field
<1> QED BY <1>1, <1>2, <1>6, <1>8

LEMMA ConvolveOrderedTyped ==
  ASSUME NEW b, NEW c, Ints(b, 8), Ints(c, 8)
  PROVE  ConvolveOrdered(8, b, c) \in [0 .. 7 -> Field] /\ Ints(ConvolveOrdered(8, b, c), 8)
<1>1. ASSUME NEW k \in 0 .. 7
      PROVE  ConvolveOrdered(8, b, c)[k] \in Field /\ ConvolveOrdered(8, b, c)[k] \in Int
  <2>1. k \in 0 .. 8 - 1 /\ (k # 0 => 8 - k \in 0 .. 8 - 1)
    OBVIOUS
  <2>2. PICK u, w \in Int : u = b[k] /\ w = c[k]
    BY <2>1 DEF Ints
  <2>3. PICK v, z \in Int : k # 0 => v = b[8 - k] /\ z = c[8 - k]
    BY <2>1 DEF Ints
  <2>4. PICK uw, vz, vw, uz \in Int : uw = u * w /\ vz = v * z /\ vw = v * w /\ uz = u * z
    OBVIOUS
  <2>5. PICK d \in Int : ConvolveOrdered(8, b, c)[k] = d % P
    <3>1. ConvolveOrdered(8, b, c)[k] =
            (IF k = 0 \/ k = 8 \div 2 THEN uw ELSE IF k < 8 \div 2 THEN uw - vz ELSE vw + uz) % P
      BY <2>1, <2>2, <2>3, <2>4 DEF ConvolveOrdered
    <3> QED BY <3>1
  <2> QED BY <2>5, PNat DEF Field
<1>2. ConvolveOrdered(8, b, c) = [k \in 0 .. 7 |-> ConvolveOrdered(8, b, c)[k]]
  BY DEF ConvolveOrdered
<1> HIDE DEF ConvolveOrdered
<1>3. Ints(ConvolveOrdered(8, b, c), 8)
  BY <1>1 DEF Ints
<1>4. ConvolveOrdered(8, b, c) \in [0 .. 7 -> Field]
  BY ONLY <1>1, <1>2
<1> QED BY <1>3, <1>4

LEMMA TdConvolveTyped ==
  ASSUME NEW l \in Lengths, NEW c, Ints(c, 8), NEW b, Ints(b, 8)
  PROVE  /\ TdConvolve(c, b) = HC2R(8, ConvolveOrdered(8, R2HC(8, b), c))
         /\ TdConvolve(c, b) \in [0 .. 7 -> Field]
<1>1. 2 * SubBlock = 8 /\ Ints(R2HC(8, b), 8)
  BY SubTransforms
<1>2. TdConvolve(c, b) = HC2R(8, ConvolveOrdered(8, R2HC(8, b), c))
  BY <1>1 DEF TdConvolve
<1>3. Ints(ConvolveOrdered(8, R2HC(8, b), c), 8)
  BY <1>1, ConvolveOrderedTyped
<1> QED BY <1>2, <1>3, SubTransforms

LEMMA TurnIndices ==
  ASSUME NEW l \in Int, NEW A, A = 0 .. 2 * l - 1, NEW o \in Nat, o + 4 <= l
  PROVE  /\ \A i \in 0 .. 7 : i \in A /\ (i < 4 => o + i \in A) /\ (~(i < 4) => o + i - 4 \in A)
         /\ \A i \in A : o <= i /\ i < o + 4 => i - o \in 0 .. 7
<1>1. l >= 4 /\ 2 * l - 1 >= 7 /\ o + 4 <= 2 * l - 1
  OBVIOUS
<1> QED BY <1>1

\* A step that makes a call.
LEMMA CallTyped ==
  ASSUME TypeInv, Next, todo # <<>>
  PROVE  /\ cbuf' \in [Buffers -> [Whole -> Field]] /\ todo' = Tail(todo)
         /\ UNCHANGED <<length, realsize, net, nCoeffs, subdelay, fed, chosen>>
<1> DEFINE c == todo[1]
           Typed(v) == v \in [Whole -> Field]
<1>1. length \in Lengths /\ nCoeffs \in CoeffLengths /\ cbuf \in [Buffers -> [Whole -> Field]]
      /\ ValidCall(length, c)
  BY CallsLeft DEF TypeInv
<1>2. ASSUME c.to \in Buffers, NEW v, Typed(v), Made(v)
      PROVE  /\ cbuf' \in [Buffers -> [Whole -> Field]] /\ todo' = Tail(todo)
             /\ UNCHANGED <<length, realsize, net, nCoeffs, subdelay, fed, chosen>>
  BY <1>1, <1>2, MadeTyped
<1>3. \A b \in Buffers : Ints(cbuf[b], 2 * length) /\ Typed(cbuf[b])
  BY <1>1, BufferIs
<1>4. /\ c.to \in Buffers => Ints(To, 2 * length) /\ Typed(To)
      /\ c.from[1] \in Buffers => Ints(From(1), 2 * length) /\ Typed(From(1))
      /\ c.by \in Buffers => Ints(By, 2 * length) /\ Typed(By)
  BY <1>3 DEF To, From, By
<1>5. CASE c.op = "coeffs2cbuf" /\ c.to \in {"A", "B"} \X {0, 1}
  <2>1. c.to[1] \in {"A", "B"} /\ c.to[2] \in {0, 1} /\ c.to \in Buffers
    <3>1. PICK n \in {"A", "B"}, i \in {0, 1} : c.to = <<n, i>>
      BY <1>5
    <3> QED BY <3>1, BufferNames
  <2>2. Typed(Coeffs2Cbuf(Piece(c.to[1], c.to[2]), PieceLength(c.to[2]), CoeffScale))
    BY <1>1, <2>1, CoeffsGive
  <2>3. Made(Coeffs2Cbuf(Piece(c.to[1], c.to[2]), PieceLength(c.to[2]), CoeffScale))
    BY <1>5, CallMade
  <2> QED BY <1>2, <2>1, <2>2, <2>3
<1>6. CASE c.op = "runtime_coeffs2cbuf" /\ c.to \in Buffers
  <2>1. PICK src : src = [n \in Half |-> IF n < nCoeffs THEN (Taps("A", n) * CoeffScale) % P ELSE 0]
    OBVIOUS
  <2>2. Typed(RuntimeCoeffs2Cbuf(src))
    BY <1>1, <2>1, RuntimeGives
  <2>3. Made(RuntimeCoeffs2Cbuf(src))
    BY <1>6, <2>1, CallMade
  <2> QED BY <1>2, <1>6, <2>2, <2>3
<1>7. CASE /\ c.op \in {"dump", "time2freq", "freq2time", "dirac_convolve", "crossfade", "eval"}
           /\ c.to \in Buffers /\ c.from[1] \in Buffers
  <2>1. Ints(From(1), 2 * length) /\ Ints(To, 2 * length)
    BY <1>4, <1>7
  <2>2. CASE c.op = "dump"
    <3>1. Typed(Dumped(From(1))) /\ Made(Dumped(From(1)))
      BY <1>1, <2>1, <2>2, DumpIs, CallMade
    <3> QED BY <1>2, <1>7, <3>1
  <2>3. CASE c.op = "time2freq"
    <3>1. Typed(R2HC(NFft, From(1))) /\ Made(R2HC(NFft, From(1)))
      BY <1>1, <2>1, <2>3, TransformsTyped, CallMade
    <3> QED BY <1>2, <1>7, <3>1
  <2>4. CASE c.op = "freq2time"
    <3>1. Typed(HC2R(NFft, From(1))) /\ Made(HC2R(NFft, From(1)))
      BY <1>1, <2>1, <2>4, TransformsTyped, CallMade
    <3> QED BY <1>2, <1>7, <3>1
  <2>5. CASE c.op = "dirac_convolve"
    <3>1. Typed(DiracConvolve(From(1)))
      BY <1>1, <2>1, DiracConvolveIs, ImpulseIs, ProductTyped
    <3>2. Made(DiracConvolve(From(1)))
      BY <2>5, CallMade
    <3> QED BY <1>2, <1>7, <3>1, <3>2
  <2>6. CASE c.op = "crossfade"
    <3>1. PICK beyond \in {0, 1} : Made(CrossfadeInplace(beyond))
      BY <2>6, CallMade
    <3>2. Typed(CrossfadeInplace(beyond))
      BY <1>1, <2>1, CrossfadeIs
    <3> QED BY <1>2, <1>7, <3>1, <3>2
  <2>7. CASE c.op = "eval"
    <3>1. EvalCall
      BY <2>7, CallMade
    <3>2. PICK e : e = cbuf[<<"eval", 0>>] /\ Ints(e, 2 * length)
      BY <1>3, BufferNames
    <3>3. PICK v, w : v = R2HC(NFft, EvalWindow(From(1), e)) /\ w = EvalKept(From(1))
      OBVIOUS
    <3>4. Typed(v) /\ Typed(w)
      BY <1>1, <2>1, <3>2, <3>3, EvalTyped
    <3>5. cbuf' = [cbuf EXCEPT ![c.to] = v, ![<<"eval", 0>>] = w]
      BY <3>1, <3>2, <3>3 DEF EvalCall, EvalWindow, EvalKept
    <3>6. /\ todo' = Tail(todo)
          /\ UNCHANGED <<length, realsize, net, nCoeffs, subdelay, fed, chosen>>
      BY <3>1 DEF EvalCall
    <3>7. cbuf' \in [Buffers -> [Whole -> Field]]
      BY <1>1, <1>7, <3>4, <3>5
    <3> QED BY <3>6, <3>7
  <2> HIDE DEF Typed
  <2> QED BY <1>7, <2>2, <2>3, <2>4, <2>5, <2>6, <2>7
<1>8. CASE /\ c.op \in {"mixin", "mixout"} /\ c.to \in Buffers
           /\ \E N \in {1, 2, 3} : DOMAIN c.from = 1 .. N /\ \A i \in 1 .. N : c.from[i] \in Buffers
  <2>1. PICK N \in {1, 2, 3} : DOMAIN c.from = 1 .. N /\ \A i \in 1 .. N : c.from[i] \in Buffers
    BY <1>8
  <2>2. CASE c.op = "mixin"
    <3>1. Len(Inputs) = N /\ N \in Nat /\ Vectors(Inputs, MixScales(InScale), N, 2 * length)
      BY <1>1, <2>1, ScalesAre, InputsAre
    <3>2. Typed(MixInput(Inputs, MixScales(InScale)))
      BY <1>1, <3>1, MixTyped
    <3>3. Made(MixInput(Inputs, MixScales(InScale)))
      BY <2>2, CallMade
    <3> QED BY <1>2, <1>8, <3>2, <3>3
  <2>3. CASE c.op = "mixout"
    <3>1. Len(Inputs) = N /\ N \in Nat /\ Vectors(Inputs, MixScales(OutScale), N, 2 * length)
      BY <1>1, <2>1, ScalesAre, InputsAre
    <3>2. Typed(MixOutput(Inputs, MixScales(OutScale)))
      BY <1>1, <3>1, MixTyped
    <3>3. Made(MixOutput(Inputs, MixScales(OutScale)))
      BY <2>3, CallMade
    <3> QED BY <1>2, <1>8, <3>2, <3>3
  <2> QED BY <1>8, <2>2, <2>3
<1>9. CASE /\ c.op \in {"convolve", "convolve_add"}
           /\ c.to \in Buffers /\ c.from[1] \in Buffers /\ c.by \in Buffers
  <2>1. Ints(From(1), 2 * length) /\ Ints(To, 2 * length) /\ Ints(By, 2 * length)
    BY <1>4, <1>9
  <2>2. Typed(Product(From(1), By)) /\ Typed(ConvolveAdd(From(1), By, To))
    BY <1>1, <2>1, ProductTyped, ConvolveAddTyped
  <2>3. \/ Made(Product(From(1), By))
        \/ Made(ConvolveAdd(From(1), By, To))
    BY <1>9, CallMade
  <2> QED BY <1>2, <1>9, <2>2, <2>3
<1>10. CASE c.op = "convolve_inplace" /\ c.to \in Buffers /\ c.by \in Buffers
  <2>1. Ints(To, 2 * length) /\ Ints(By, 2 * length)
    BY <1>4, <1>10
  <2>2. Typed(ConvolveInplace(To, By))
    BY <1>1, <2>1, ProductTyped, ConvolveInplaceIs
  <2>3. Made(ConvolveInplace(To, By))
    BY <1>10, CallMade
  <2> QED BY <1>2, <1>10, <2>2, <2>3
<1>11. CASE c.op = "td_new" /\ c.to[2] \in SubSteps /\ c.to = <<"td", c.to[2]>>
  <2>1. c.to \in Buffers
    BY <1>11, BufferNames
  <2>2. PICK v : v = [i \in Whole |-> IF i < 2 * SubBlock THEN TdCoeffs(c.to[2])[i] ELSE 0]
    OBVIOUS
  <2>3. Typed(v)
    <3>1. TdCoeffs(c.to[2]) \in [0 .. 7 -> Field] /\ 0 \in Field /\ 2 * SubBlock = 8
      BY <1>1, SubCoeffsIs, SubBlockIs, PNat DEF Field
    <3>2. \A i \in Whole : i < 8 => i \in 0 .. 7
      BY DEF Whole
    <3> QED BY ONLY <2>2, <3>1, <3>2
  <2>4. Made(v)
    BY <1>11, <2>2, CallMade
  <2> QED BY <1>2, <2>1, <2>3, <2>4
<1>12. CASE c.op = "td_convolve" /\ c.to[2] \in Nat /\ c.to[2] + 4 <= length /\ c.by \in Buffers
  <2>1. PICK o : o \in Nat /\ o = c.to[2] /\ o + 4 <= length
    BY <1>12
  <2>0. Whole = 0 .. 2 * length - 1 /\ length \in Int
    BY <1>1, LengthIs DEF Whole, NFft
  <2>2. PICK buf, rest : /\ buf = cbuf[<<"buf", 0>>] /\ rest = cbuf[<<"rest", 0>>]
                         /\ buf \in [Whole -> Field] /\ rest \in [Whole -> Field]
    BY <1>3, BufferNames
  <2>3. PICK block : block = [i \in 0 .. 7 |-> IF i < 4 THEN rest[i] ELSE buf[o + i - 4]]
    OBVIOUS
  <2>4. PICK r : r = TdConvolve(By, block)
    OBVIOUS
  <2>5. \A i \in 0 .. 7 : i \in Whole /\ (i < 4 => o + i \in Whole) /\ (~(i < 4) => o + i - 4 \in Whole)
    BY ONLY <2>0, <2>1, TurnIndices
  <2>6. r \in [0 .. 7 -> Field]
    <3>1. Ints(block, 8)
      <4>1. \A i \in 0 .. 8 - 1 : block[i] \in Field
        BY <2>2, <2>3, <2>5
      <4>2. Field \subseteq Int
        BY PNat DEF Field
      <4> QED BY <4>1, <4>2 DEF Ints
    <3>2. Ints(By, 8)
      <4>1. By \in [Whole -> Field]
        BY <1>4, <1>12
      <4>2. \A i \in 0 .. 8 - 1 : i \in Whole
        BY <2>5
      <4>3. Field \subseteq Int
        BY PNat DEF Field
      <4> QED BY <4>1, <4>2, <4>3 DEF Ints
    <3> QED BY <1>1, <2>4, <3>1, <3>2, TdConvolveTyped
  <2>7. /\ cbuf' = [cbuf EXCEPT ![<<"rest", 0>>] = [i \in Whole |-> IF i < 4 THEN buf[o + i] ELSE 0],
                                ![<<"buf", 0>>] = [i \in Whole |-> IF o <= i /\ i < o + 4 THEN r[i - o] ELSE buf[i]]]
        /\ todo' = Tail(todo)
        /\ UNCHANGED <<length, realsize, net, nCoeffs, subdelay, fed, chosen>>
    <3>1. SubsampleTurn
      BY <1>12, CallMade
    <3>2. SubBlock = 4
      BY SubBlockIs
    <3>3. 2 * SubBlock - 1 = 7
      BY <3>2
    <3> QED BY <3>1, <3>2, <3>3, <2>1, <2>2, <2>3, <2>4 DEF SubsampleTurn, Rest
  <2>8. 0 \in Field
    BY PNat DEF Field
  <2>9. PICK v, w : /\ v = [i \in Whole |-> IF i < 4 THEN buf[o + i] ELSE 0]
                    /\ w = [i \in Whole |-> IF o <= i /\ i < o + 4 THEN r[i - o] ELSE buf[i]]
    OBVIOUS
  <2>10. Typed(v)
    <3>1. \A i \in Whole : i < 4 => o + i \in Whole
      BY <2>5 DEF Whole
    <3> QED BY <2>2, <2>8, <2>9, <3>1
  <2>11. Typed(w)
    <3>1. ASSUME NEW i \in Whole, o <= i, i < o + 4 PROVE i - o \in 0 .. 7
      <4>1. i \in Int /\ o \in Int
        BY <2>0, <2>1
      <4> QED BY ONLY <3>1, <4>1
    <3> QED BY <2>2, <2>6, <2>9, <3>1
  <2>12. <<"rest", 0>> \in Buffers /\ <<"buf", 0>> \in Buffers
    BY BufferNames
  <2>13. cbuf' \in [Buffers -> [Whole -> Field]]
    BY <1>1, <2>7, <2>9, <2>10, <2>11, <2>12
  <2> QED BY <2>7, <2>13
<1>13. \/ c.op = "coeffs2cbuf" /\ c.to \in {"A", "B"} \X {0, 1}
       \/ c.op = "runtime_coeffs2cbuf" /\ c.to \in Buffers
       \/ /\ c.op \in {"dump", "time2freq", "freq2time", "dirac_convolve", "crossfade", "eval"}
          /\ c.to \in Buffers /\ c.from[1] \in Buffers
       \/ /\ c.op \in {"mixin", "mixout"} /\ c.to \in Buffers
          /\ \E N \in {1, 2, 3} : DOMAIN c.from = 1 .. N /\ \A i \in 1 .. N : c.from[i] \in Buffers
       \/ /\ c.op \in {"convolve", "convolve_add"} /\ c.to \in Buffers /\ c.from[1] \in Buffers /\ c.by \in Buffers
       \/ c.op = "convolve_inplace" /\ c.to \in Buffers /\ c.by \in Buffers
       \/ c.op = "td_new" /\ c.to[2] \in SubSteps /\ c.to = <<"td", c.to[2]>>
       \/ c.op = "td_convolve" /\ c.to[2] \in Nat /\ c.to[2] + 4 <= length /\ c.by \in Buffers
  BY <1>1 DEF ValidCall
<1> QED BY ONLY <1>5, <1>6, <1>7, <1>8, <1>9, <1>10, <1>11, <1>12, <1>13

LEMMA TypeInvInit == Init => TypeInv
<1> SUFFICES ASSUME Init
             PROVE  TypeInv
  OBVIOUS
<1>1. length \in Lengths /\ realsize \in RealSizes /\ net \in Nets /\ nCoeffs \in CoeffLengths
  BY DEF Init
<1>2. cbuf \in [Buffers -> [Whole -> Field]]
  <2>1. 0 \in Field
    BY PNat DEF Field
  <2>2. Zeros \in [Whole -> Field]
    BY <2>1 DEF Zeros
  <2> QED BY <2>2 DEF Init
<1>3. Fed(length, fed) /\ Len(fed) <= MaxBlocks /\ chosen \in Seq(Int) /\ Len(chosen) = Len(fed)
  <2>1. fed = <<>> /\ chosen = <<>> /\ 0 <= MaxBlocks
    BY SpectrumAssumption DEF Init
  <2> QED BY <2>1 DEF Fed
<1>4. ValidCalls(length, todo)
  BY <1>1, SetupValid DEF Init
<1> QED BY <1>1, <1>2, <1>3, <1>4 DEF TypeInv

LEMMA BlockTyped ==
  ASSUME TypeInv, NEW x \in Blocks(length), NEW s \in Int, NextBlock(x, s)
  PROVE  /\ length' \in Lengths /\ realsize' \in RealSizes /\ net' \in Nets /\ nCoeffs' \in CoeffLengths
         /\ UNCHANGED <<length, realsize, net, nCoeffs>>
         /\ Fed(length', fed') /\ Len(fed') <= MaxBlocks /\ Len(fed') = Len(fed) + 1
         /\ chosen' \in Seq(Int) /\ Len(chosen') = Len(fed')
         /\ ValidCalls(length', todo')
         /\ x \in [0 .. length - 1 -> 0 .. P - 1] /\ todo = <<>>
<1>1. /\ length \in Lengths /\ Fed(length, fed) /\ Len(fed) < MaxBlocks /\ Len(fed) \in Nat
      /\ chosen \in Seq(Int) /\ Len(chosen) = Len(fed) /\ MaxBlocks \in Nat
  BY SpectrumAssumption DEF TypeInv, NextBlock, Fed
<1>2. x \in [0 .. length - 1 -> 0 .. P - 1]
  BY <1>1, SpectrumAssumption
<1>3. UNCHANGED <<length, realsize, net, nCoeffs>> /\ fed' = Append(fed, x) /\ chosen' = Append(chosen, s)
      /\ todo' = Calls(net, Len(fed) + 1, s) /\ todo = <<>>
  BY DEF NextBlock
<1>4. length' \in Lengths /\ realsize' \in RealSizes /\ net' \in Nets /\ nCoeffs' \in CoeffLengths
  BY <1>3 DEF TypeInv
<1>5. Fed(length, fed')
  BY <1>1, <1>2, <1>3 DEF Fed
<1>6. Len(fed') = Len(fed) + 1 /\ chosen' \in Seq(Int) /\ Len(chosen') = Len(fed')
  BY <1>1, <1>2, <1>3 DEF Fed
<1>7. ValidCalls(length, todo')
  <2>1. Len(fed) + 1 \in Nat \ {0} /\ net \in Nets
    BY <1>1 DEF TypeInv
  <2> QED BY <1>1, <1>3, <2>1, CallsValid
<1>8. Fed(length', fed') /\ ValidCalls(length', todo')
  BY <1>3, <1>5, <1>7
<1>9. Len(fed') <= MaxBlocks
  BY <1>1, <1>6
<1> QED BY ONLY <1>2, <1>3, <1>4, <1>6, <1>8, <1>9

LEMMA ChannelBlockIs ==
  ASSUME length \in Lengths, NEW x \in [0 .. length - 1 -> 0 .. P - 1], NEW c \in Channels, NEW k \in 0 .. length - 1
  PROVE  /\ ChannelBlock(x, c)[k] = x[(k + c - 1) % length]
         /\ (k + c - 1) % length \in 0 .. length - 1 /\ ChannelBlock(x, c)[k] \in Field
<1>1. length \in Nat \ {0}
  BY SpectrumAssumption
<1>2. PICK t \in Int : t = k + c - 1
  BY DEF Channels
<1>3. t % length \in 0 .. length - 1
  BY <1>1, <1>2
<1>4. ChannelBlock(x, c)[k] = x[(k + c - 1) % length]
  BY DEF ChannelBlock, Half
<1> QED BY <1>2, <1>3, <1>4 DEF Field

LEMMA RawTyped ==
  ASSUME length \in Lengths, cbuf \in [Buffers -> [Whole -> Field]], NEW c \in Channels,
         NEW x \in [0 .. length - 1 -> 0 .. P - 1]
  PROVE  RawToCbuf(c, x) \in [Whole -> Field]
<1>1. Whole = 0 .. 2 * length - 1 /\ length \in Nat \ {0}
  BY SpectrumAssumption DEF Whole, NFft
<1>2. <<"time", c>> \in Buffers
  BY BufferNames
<1>3. PICK b \in [Whole -> Field] : b = cbuf[<<"time", c>>]
  BY <1>2
<1>4. ASSUME NEW i \in Whole
      PROVE  (IF i < length THEN b[i + length] ELSE ChannelBlock(x, c)[i - length]) \in Field
  <2>1. CASE i < length
    <3>1. i + length \in Whole
      BY <1>1, <2>1
    <3> QED BY <1>3, <2>1, <3>1
  <2>2. CASE ~(i < length)
    <3>1. i - length \in 0 .. length - 1
      BY <1>1, <2>2
    <3> QED BY <2>2, <3>1, ChannelBlockIs
  <2> QED BY <2>1, <2>2
<1> QED BY <1>3, <1>4 DEF RawToCbuf

LEMMA TakeBlockTyped ==
  ASSUME TypeInv, NEW x \in Blocks(length), TakeBlock(x)
  PROVE  TypeInv'
<1>1. NextBlock(x, 0) /\ length \in Lengths /\ cbuf \in [Buffers -> [Whole -> Field]]
  BY DEF TakeBlock, TypeInv
<1>2. /\ length' \in Lengths /\ realsize' \in RealSizes /\ net' \in Nets /\ nCoeffs' \in CoeffLengths
      /\ UNCHANGED <<length, realsize, net, nCoeffs>>
      /\ Fed(length', fed') /\ Len(fed') <= MaxBlocks
      /\ chosen' \in Seq(Int) /\ Len(chosen') = Len(fed')
      /\ ValidCalls(length', todo')
      /\ x \in [0 .. length - 1 -> 0 .. P - 1]
  BY 0 \in Int, <1>1, BlockTyped
<1>3. cbuf' = [b \in Buffers |-> IF b[1] = "time" THEN RawToCbuf(b[2], x) ELSE cbuf[b]]
  BY DEF TakeBlock
<1>4. ASSUME NEW b \in Buffers, b[1] = "time"
      PROVE  b[2] \in Channels
  BY <1>4 DEF Buffers
<1>5. cbuf' \in [Buffers -> [Whole -> Field]]
  <2>1. ASSUME NEW b \in Buffers
        PROVE  (IF b[1] = "time" THEN RawToCbuf(b[2], x) ELSE cbuf[b]) \in [Whole -> Field]
    BY <1>1, <1>2, <1>4, RawTyped
  <2> QED BY <1>3, <2>1
<1>6. Whole' = Whole
  BY <1>2 DEF Whole, NFft
<1> QED BY ONLY <1>2, <1>5, <1>6 DEF TypeInv

LEMMA SubsampleTyped ==
  ASSUME TypeInv, NEW x \in Blocks(length), NEW s \in -StepCount .. StepCount, SubsampleUpdate(x, s)
  PROVE  TypeInv'
<1>0. s \in Int
  BY DEF StepCount
<1>1. NextBlock(x, s) /\ length \in Lengths /\ cbuf \in [Buffers -> [Whole -> Field]]
  BY DEF SubsampleUpdate, TypeInv
<1>2. /\ length' \in Lengths /\ realsize' \in RealSizes /\ net' \in Nets /\ nCoeffs' \in CoeffLengths
      /\ UNCHANGED <<length, realsize, net, nCoeffs>>
      /\ Fed(length', fed') /\ Len(fed') <= MaxBlocks
      /\ chosen' \in Seq(Int) /\ Len(chosen') = Len(fed')
      /\ ValidCalls(length', todo')
      /\ x \in [0 .. length - 1 -> 0 .. P - 1]
  BY <1>0, <1>1, BlockTyped
<1>3. cbuf' = [cbuf EXCEPT ![<<"buf", 0>>] = [i \in Whole |-> IF i < length THEN x[i] ELSE 0]]
  BY DEF SubsampleUpdate
<1>4. [i \in Whole |-> IF i < length THEN x[i] ELSE 0] \in [Whole -> Field]
  <2>1. \A i \in Whole : i < length => i \in 0 .. length - 1
    <3>1. Whole = 0 .. 2 * length - 1 /\ length \in Int
      BY <1>1, LengthIs DEF Whole, NFft
    <3> QED BY ONLY <3>1
  <2>2. 0 \in Field
    BY PNat DEF Field
  <2> QED BY <1>2, <2>1, <2>2 DEF Field
<1>5. cbuf' \in [Buffers -> [Whole -> Field]]
  BY <1>1, <1>3, <1>4, BufferNames
<1>6. Whole' = Whole
  BY <1>2 DEF Whole, NFft
<1> QED BY ONLY <1>2, <1>5, <1>6 DEF TypeInv

LEMMA TypeInvNext == TypeInv /\ [Next]_vars => TypeInv'
<1> SUFFICES ASSUME TypeInv, [Next]_vars
             PROVE  TypeInv'
  OBVIOUS
<1>1. CASE todo # <<>> /\ Next
  <2>1. /\ cbuf' \in [Buffers -> [Whole -> Field]] /\ todo' = Tail(todo)
        /\ UNCHANGED <<length, realsize, net, nCoeffs, subdelay, fed, chosen>>
    BY <1>1, CallTyped
  <2>2. Whole' = Whole
    BY <2>1 DEF Whole, NFft
  <2>3. ValidCalls(length, Tail(todo))
    BY <1>1, CallsLeft DEF TypeInv
  <2> QED BY <2>1, <2>2, <2>3 DEF TypeInv
<1>2. CASE todo = <<>> /\ Next
  <2>1. \/ \E x \in Blocks(length) : TakeBlock(x)
        \/ \E x \in Blocks(length) : \E s \in -StepCount .. StepCount : SubsampleUpdate(x, s)
    BY <1>2 DEF Next, ToCbuf, RuntimeToCbuf, Dump, Time2FreqCall, Freq2TimeCall, MixInputCall, MixOutputCall,
         ConvolveCall, ConvolveAddCall, ConvolveInplaceCall, DiracConvolveCall, CrossfadeCall, EvalCall, TdNew,
         SubsampleTurn, Does
  <2> QED BY <2>1, TakeBlockTyped, SubsampleTyped
<1>3. CASE UNCHANGED vars
  <2>1. Whole' = Whole
    BY <1>3 DEF Whole, NFft, vars
  <2> QED BY <1>3, <2>1 DEF TypeInv, vars
<1> QED BY <1>1, <1>2, <1>3

LEMMA TypeInvTypes == TypeInv => TypeOK
<1>1. ASSUME cbuf \in [Buffers -> [Whole -> Field]]
      PROVE  DOMAIN cbuf = Buffers /\ \A b \in Buffers : cbuf[b] \in [Whole -> 0 .. P - 1]
  BY <1>1 DEF Field
<1> QED BY <1>1 DEF TypeInv, TypeOK

LEMMA TypeInvAlways == Spec => []TypeInv
BY TypeInvInit, TypeInvNext, PTL DEF Spec

\* Every call of every network is of buffers there are, and leaves numbers of
\* the field in each of them (fftw_convolver.cpp:152-403, 474-651, 858-1556).
THEOREM SpectrumTypes == Spec => []TypeOK
BY TypeInvAlways, TypeInvTypes, PTL

-----------------------------------------------------------------------------
(* What each call does.                                                    *)

\* The next call leaves all buffers but b alone.
Put(b) ==
  /\ todo' = Tail(todo) /\ UNCHANGED <<length, realsize, net, nCoeffs, subdelay, fed, chosen>>
  /\ \A a \in Buffers : a # b => cbuf'[a] = cbuf[a]

LEMMA MadePut ==
  ASSUME cbuf \in [Buffers -> [Whole -> Field]], todo[1].to \in Buffers, NEW v, Made(v)
  PROVE  Put(todo[1].to) /\ cbuf'[todo[1].to] = v
BY DEF Made, Put

\* What the time buffers hold.
Windows(l, f, cb) ==
  \A c \in Channels : \A i \in 0 .. 2 * l - 1 : cb[<<"time", c>>][i] = TimeWin(l, f, c)[i]

HasCoefs(l, nc, cb, name, b) == Coefs(l, cb[<<name, b>>], CoefVec(l, nc, name, b))

TypedState ==
  /\ length \in Lengths /\ nCoeffs \in CoeffLengths /\ Fed(length, fed)
  /\ cbuf \in [Buffers -> [Whole -> Field]] /\ Next /\ todo # <<>>

LEMMA TypedInts ==
  ASSUME TypedState, NEW b \in Buffers
  PROVE  Ints(cbuf[b], 2 * length) /\ length \in Lengths
BY BufferIs DEF TypedState

LEMMA OrderedOfSame ==
  ASSUME length \in Lengths, NEW v, NEW x, Ints(x, 2 * length), \A i \in 0 .. 2 * length - 1 : v[i] = x[i]
  PROVE  Ordered(2 * length, R2HC(NFft, v), x)
<1>1. Ints(v, 2 * length)
  BY DEF Ints
<1>2. Ordered(2 * length, R2HC(NFft, v), v)
  BY <1>1, TransformsTyped
<1>3. \A i \in 0 .. 2 * length - 1 : Eq(x[i], v[i])
  BY EqBasics
<1> QED BY <1>1, <1>2, <1>3, OrderedSame

LEMMA Time2FreqDone ==
  ASSUME TypedState, NEW c \in Channels, todo[1] = Time2FreqOf(c), Windows(length, fed, cbuf)
  PROVE  Put(<<"freq", c>>) /\ Ordered(2 * length, cbuf'[<<"freq", c>>], TimeWin(length, fed, c))
<1>1. /\ todo[1].op = "time2freq" /\ todo[1].to = <<"freq", c>> /\ todo[1].from[1] = <<"time", c>>
      /\ <<"freq", c>> \in Buffers
  BY BufferNames DEF Time2FreqOf, Call
<1>2. PICK v : v = cbuf[<<"time", c>>]
  OBVIOUS
<1>3. Made(R2HC(NFft, v))
  BY <1>1, <1>2, CallMade DEF TypedState, From
<1>4. Ints(TimeWin(length, fed, c), 2 * length)
  BY TimeWinIs DEF TypedState
<1>5. \A i \in 0 .. 2 * length - 1 : v[i] = TimeWin(length, fed, c)[i]
  BY <1>2 DEF Windows
<1>6. Ordered(2 * length, R2HC(NFft, v), TimeWin(length, fed, c))
  BY <1>4, <1>5, OrderedOfSame DEF TypedState
<1>7. Put(<<"freq", c>>) /\ cbuf'[<<"freq", c>>] = R2HC(NFft, v)
  BY <1>1, <1>3, MadePut DEF TypedState
<1> QED BY <1>6, <1>7

LEMMA MixinDone ==
  ASSUME TypedState, NEW to \in Buffers, todo[1] = MixinOf(to), net \notin {"mixed", "subsample"},
         Ordered(2 * length, cbuf[<<"freq", 1>>], TimeWin(length, fed, 1))
  PROVE  Put(to) /\ InCbuf(length, cbuf'[to], Seen(length, Input(length, net, fed), Len(fed)))
<1>1. /\ todo[1].op = "mixin" /\ todo[1].to = to /\ todo[1].from = <<<<"freq", 1>>>>
      /\ <<"freq", 1>> \in Buffers
  BY BufferNames DEF MixinOf, Call
<1>2. PICK bufs, scales : bufs = Inputs /\ scales = MixScales(InScale)
  OBVIOUS
<1>3. Len(bufs) = 1 /\ bufs[1] = cbuf[<<"freq", 1>>] /\ scales[1] = InScale
  <2>1. /\ 1 \in {1, 2, 3} /\ DOMAIN todo[1].from = 1 .. 1 /\ \A i \in 1 .. 1 : todo[1].from[i] \in Buffers
        /\ todo[1].from[1] = <<"freq", 1>> /\ 1 \in 1 .. 1
    BY <1>1
  <2>2. InScale + 1 - 1 = InScale
    BY ScalesAre
  <2>3. Len(bufs) = 1 /\ bufs[1] = cbuf[todo[1].from[1]] /\ scales[1] = InScale + 1 - 1
    BY <1>2, <2>1, ScalesAre, InputsAre DEF TypedState
  <2> QED BY <2>1, <2>2, <2>3
<1>4. Made(MixInput(bufs, scales))
  BY <1>1, <1>2, CallMade DEF TypedState
<1>5. InCbuf(length, MixInput(bufs, scales), Seen(length, Input(length, net, fed), Len(fed)))
  BY <1>3, AnalysisGives DEF TypedState
<1>6. Put(to) /\ cbuf'[to] = MixInput(bufs, scales)
  BY <1>1, <1>4, MadePut DEF TypedState
<1> QED BY <1>5, <1>6

LEMMA MixinAllDone ==
  ASSUME TypedState, todo[1] = MixinAll, net = "mixed",
         \A c \in 1 .. 3 : Ordered(2 * length, cbuf[<<"freq", c>>], TimeWin(length, fed, c))
  PROVE  Put(<<"win", 0>>) /\ InCbuf(length, cbuf'[<<"win", 0>>], Seen(length, Input(length, net, fed), Len(fed)))
<1>1. /\ todo[1].op = "mixin" /\ todo[1].to = <<"win", 0>>
      /\ todo[1].from = <<<<"freq", 1>>, <<"freq", 2>>, <<"freq", 3>>>>
      /\ <<"freq", 1>> \in Buffers /\ <<"freq", 2>> \in Buffers /\ <<"freq", 3>> \in Buffers /\ <<"win", 0>> \in Buffers
  BY BufferNames DEF MixinAll, Call
<1>2. PICK bufs, scales : bufs = Inputs /\ scales = MixScales(InScale)
  OBVIOUS
<1>3. /\ Len(bufs) = 3 /\ \A c \in 1 .. 3 : scales[c] = InScale + c - 1
      /\ \A c \in 1 .. 3 : bufs[c] = cbuf[<<"freq", c>>]
  <2>1. /\ 3 \in {1, 2, 3} /\ DOMAIN todo[1].from = 1 .. 3 /\ \A c \in 1 .. 3 : todo[1].from[c] = <<"freq", c>>
    <3>1. \A c \in 1 .. 3 : c = 1 \/ c = 2 \/ c = 3
      OBVIOUS
    <3> QED BY <1>1, <3>1
  <2>2. \A c \in 1 .. 3 : todo[1].from[c] \in Buffers
    <3>1. \A c \in 1 .. 3 : c = 1 \/ c = 2 \/ c = 3
      OBVIOUS
    <3> QED BY <1>1, <2>1, <3>1
  <2>3. Len(bufs) = 3 /\ \A c \in 1 .. 3 : bufs[c] = cbuf[todo[1].from[c]] /\ scales[c] = InScale + c - 1
    BY <1>2, <2>1, <2>2, ScalesAre, InputsAre DEF TypedState
  <2> QED BY <2>1, <2>3
<1>4. Made(MixInput(bufs, scales))
  BY <1>1, <1>2, CallMade DEF TypedState
<1>5. \A c \in 1 .. 3 : Ordered(2 * length, bufs[c], TimeWin(length, fed, c))
  BY <1>3
<1>6. InCbuf(length, MixInput(bufs, scales), Seen(length, Input(length, net, fed), Len(fed)))
  BY <1>3, <1>5, MixedGives DEF TypedState
<1>7. Put(<<"win", 0>>) /\ cbuf'[<<"win", 0>>] = MixInput(bufs, scales)
  BY <1>1, <1>4, MadePut DEF TypedState
<1> QED BY <1>6, <1>7

LEMMA ConvolveDone ==
  ASSUME TypedState, NEW from \in Buffers, NEW to \in Buffers, NEW by \in Buffers
  PROVE  /\ todo[1] = ConvolveOf(from, to, by) => Put(to) /\ cbuf'[to] = Product(cbuf[from], cbuf[by])
         /\ todo[1] = AddOf(from, to, by) => Put(to) /\ cbuf'[to] = ConvolveAdd(cbuf[from], cbuf[by], cbuf[to])
         /\ todo[1] = InplaceOf(to, by) => Put(to) /\ cbuf'[to] = Product(cbuf[to], cbuf[by])
         /\ todo[1] = DiracOf(from, to) => Put(to) /\ cbuf'[to] = Product(cbuf[from], DiracBuf(length))
<1>1. ASSUME todo[1] = ConvolveOf(from, to, by)
      PROVE  Put(to) /\ cbuf'[to] = Product(cbuf[from], cbuf[by])
  <2>1. todo[1].op = "convolve" /\ todo[1].to = to /\ todo[1].from[1] = from /\ todo[1].by = by
    BY <1>1 DEF ConvolveOf, Call
  <2>2. Made(Product(cbuf[from], cbuf[by]))
    BY <2>1, CallMade DEF TypedState, From, By
  <2> QED BY <2>1, <2>2, MadePut DEF TypedState
<1>2. ASSUME todo[1] = AddOf(from, to, by)
      PROVE  Put(to) /\ cbuf'[to] = ConvolveAdd(cbuf[from], cbuf[by], cbuf[to])
  <2>1. todo[1].op = "convolve_add" /\ todo[1].to = to /\ todo[1].from[1] = from /\ todo[1].by = by
    BY <1>2 DEF AddOf, Call
  <2>2. Made(ConvolveAdd(cbuf[from], cbuf[by], cbuf[to]))
    BY <2>1, CallMade DEF TypedState, From, By, To
  <2> QED BY <2>1, <2>2, MadePut DEF TypedState
<1>3. ASSUME todo[1] = InplaceOf(to, by)
      PROVE  Put(to) /\ cbuf'[to] = Product(cbuf[to], cbuf[by])
  <2>1. todo[1].op = "convolve_inplace" /\ todo[1].to = to /\ todo[1].by = by
    BY <1>3 DEF InplaceOf, Call
  <2>2. Made(ConvolveInplace(cbuf[to], cbuf[by]))
    BY <2>1, CallMade DEF TypedState, By, To
  <2>3. ConvolveInplace(cbuf[to], cbuf[by]) = Product(cbuf[to], cbuf[by])
    BY TypedInts, ConvolveInplaceIs
  <2> QED BY <2>1, <2>2, <2>3, MadePut DEF TypedState
<1>4. ASSUME todo[1] = DiracOf(from, to)
      PROVE  Put(to) /\ cbuf'[to] = Product(cbuf[from], DiracBuf(length))
  <2>1. todo[1].op = "dirac_convolve" /\ todo[1].to = to /\ todo[1].from[1] = from
    BY <1>4 DEF DiracOf, Call
  <2>2. Made(DiracConvolve(cbuf[from]))
    BY <2>1, CallMade DEF TypedState, From
  <2>3. DiracConvolve(cbuf[from]) = Product(cbuf[from], DiracBuf(length))
    BY TypedInts, DiracConvolveIs
  <2> QED BY <2>1, <2>2, <2>3, MadePut DEF TypedState
<1> QED BY ONLY <1>1, <1>2, <1>3, <1>4

LEMMA FadeDone ==
  ASSUME TypedState, NEW from \in Buffers, NEW to \in Buffers, todo[1] = FadeOf(from, to)
  PROVE  /\ Put(to)
         /\ \A u, w : \A k \in Int :
              /\ realsize = 4 /\ Known(u, k * length) /\ Known(w, k * length)
              /\ Gives(length, cbuf[from], length, Block(length, u, k)) /\ Gives(length, cbuf[to], length, Block(length, w, k))
              => Gives(length, cbuf'[to], length, Block(length, Fading(length, u, w), k))
<1>1. todo[1].op = "crossfade" /\ todo[1].to = to /\ todo[1].from[1] = from
  BY DEF FadeOf, Call
<1>2. PICK beyond \in {0, 1} : Made(CrossfadeInplace(beyond))
  BY <1>1, CallMade DEF TypedState
<1>3. Put(to) /\ cbuf'[to] = CrossfadeInplace(beyond)
  BY <1>1, <1>2, MadePut DEF TypedState
<1>4. From(1) = cbuf[from] /\ To = cbuf[to]
  BY <1>1 DEF From, To
<1>5. Ints(From(1), 2 * length) /\ Ints(To, 2 * length)
  BY <1>4, TypedInts
<1>6. \A u, w : \A k \in Int :
        /\ realsize = 4 /\ Known(u, k * length) /\ Known(w, k * length)
        /\ Gives(length, From(1), length, Block(length, u, k)) /\ Gives(length, To, length, Block(length, w, k))
        => Gives(length, CrossfadeInplace(beyond), length, Block(length, Fading(length, u, w), k))
  BY <1>5, CrossfadeIs DEF TypedState
<1> QED BY ONLY <1>3, <1>4, <1>6

LEMMA MixoutDone ==
  ASSUME TypedState, NEW b \in Buffers, todo[1] = MixoutOf(<<b>>),
         NEW u, NEW k \in Int, Known(u, k * length), Gives(length, cbuf[b], length, Block(length, u, k))
  PROVE  Put(<<"ofreq", 0>>) /\ Orders(length, cbuf'[<<"ofreq", 0>>], length, Block(length, Scaled(OutScale, u), k))
<1>1. /\ todo[1].op = "mixout" /\ todo[1].to = <<"ofreq", 0>> /\ todo[1].from = <<b>> /\ <<"ofreq", 0>> \in Buffers
  BY BufferNames DEF MixoutOf, Call
<1>2. PICK bufs, scales : bufs = Inputs /\ scales = MixScales(OutScale)
  OBVIOUS
<1>3. Len(bufs) = 1 /\ bufs[1] = cbuf[b] /\ scales[1] = OutScale
  <2>1. /\ 1 \in {1, 2, 3} /\ DOMAIN todo[1].from = 1 .. 1 /\ \A i \in 1 .. 1 : todo[1].from[i] \in Buffers
        /\ todo[1].from[1] = b /\ 1 \in 1 .. 1
    BY <1>1
  <2>2. OutScale + 1 - 1 = OutScale
    BY ScalesAre
  <2>3. Len(bufs) = 1 /\ bufs[1] = cbuf[todo[1].from[1]] /\ scales[1] = OutScale + 1 - 1
    BY <1>2, <2>1, ScalesAre, InputsAre DEF TypedState
  <2> QED BY <2>1, <2>2, <2>3
<1>4. Made(MixOutput(bufs, scales))
  BY <1>1, <1>2, CallMade DEF TypedState
<1>5. Orders(length, MixOutput(bufs, scales), length, Block(length, Scaled(OutScale, u), k))
  BY <1>3, ScalesAre, OutputGives DEF TypedState
<1>6. Put(<<"ofreq", 0>>) /\ cbuf'[<<"ofreq", 0>>] = MixOutput(bufs, scales)
  BY <1>1, <1>4, MadePut DEF TypedState
<1> QED BY <1>5, <1>6

\* Two signals scaled and added.
Added(u, w) == [t \in Int |-> u[t] * OutScale + w[t] * (OutScale + 1)]

LEMMA MixoutTwoDone ==
  ASSUME TypedState, NEW b \in Buffers, NEW d \in Buffers, todo[1] = MixoutOf(<<b, d>>),
         NEW u, NEW w, NEW k \in Int, Known(u, k * length), Known(w, k * length),
         Gives(length, cbuf[b], length, Block(length, u, k)), Gives(length, cbuf[d], length, Block(length, w, k))
  PROVE  Put(<<"ofreq", 0>>) /\ Orders(length, cbuf'[<<"ofreq", 0>>], length, Block(length, Added(u, w), k))
<1>1. /\ todo[1].op = "mixout" /\ todo[1].to = <<"ofreq", 0>> /\ todo[1].from = <<b, d>> /\ <<"ofreq", 0>> \in Buffers
  BY BufferNames DEF MixoutOf, Call
<1>2. PICK bufs, scales : bufs = Inputs /\ scales = MixScales(OutScale)
  OBVIOUS
<1>3. Len(bufs) = 2 /\ bufs[1] = cbuf[b] /\ bufs[2] = cbuf[d] /\ scales[1] = OutScale /\ scales[2] = OutScale + 1
  <2>1. /\ 2 \in {1, 2, 3} /\ DOMAIN todo[1].from = 1 .. 2 /\ \A i \in 1 .. 2 : todo[1].from[i] \in Buffers
        /\ todo[1].from[1] = b /\ todo[1].from[2] = d /\ 1 \in 1 .. 2 /\ 2 \in 1 .. 2
    BY <1>1
  <2>2. OutScale + 1 - 1 = OutScale /\ OutScale + 2 - 1 = OutScale + 1
    BY ScalesAre
  <2>3. Len(bufs) = 2 /\ bufs[1] = cbuf[todo[1].from[1]] /\ scales[1] = OutScale + 1 - 1
        /\ bufs[2] = cbuf[todo[1].from[2]] /\ scales[2] = OutScale + 2 - 1
    <3>1. length \in Lengths /\ cbuf \in [Buffers -> [Whole -> Field]]
      BY DEF TypedState
    <3>2. Len(Inputs) = 2 /\ \A i \in 1 .. 2 :
            Inputs[i] = cbuf[todo[1].from[i]] /\ MixScales(OutScale)[i] = OutScale + i - 1
      BY ONLY <2>1, <3>1, ScalesAre, InputsAre
    <3> QED BY <1>2, <2>1, <3>2
  <2> QED BY <2>1, <2>2, <2>3
<1>4. Made(MixOutput(bufs, scales))
  BY <1>1, <1>2, CallMade DEF TypedState
<1>5. Orders(length, MixOutput(bufs, scales), length, Block(length, Added(u, w), k))
  <2>1. PICK g, h, s : g = Block(length, u, k) /\ h = Block(length, w, k) /\ s = Block(length, Added(u, w), k)
    OBVIOUS
  <2>2. length \in Lengths /\ length \in Nat /\ length \in 0 .. 2 * length
    BY LengthIs DEF TypedState
  <2>3. /\ Ints(g, length) /\ Ints(h, length)
        /\ \A j \in 0 .. length - 1 : (k - 1) * length + j \in Int
    BY <2>1, <2>2, BlockIs
  <2>4. ASSUME NEW i \in 0 .. length - 1
        PROVE  s[i] = g[i] * scales[1] + h[i] * scales[2]
    <3>1. PICK t \in Int : t = (k - 1) * length + i
      BY <2>3
    <3>2. s[i] = Added(u, w)[t] /\ g[i] = u[t] /\ h[i] = w[t]
      BY <2>1, <3>1 DEF Block
    <3> QED BY <1>3, <3>1, <3>2 DEF Added
  <2>5. scales[1] \in Int /\ scales[2] \in Int
    BY <1>3, ScalesAre
  <2>6. Gives(length, bufs[1], length, g) /\ Gives(length, bufs[2], length, h)
    BY <1>3, <2>1
  <2>7. Orders(length, MixOutput(bufs, scales), length, s)
    BY ONLY <1>3, <2>2, <2>3, <2>4, <2>5, <2>6, MixOutTwo
  <2> QED BY <2>1, <2>7
<1>6. Put(<<"ofreq", 0>>) /\ cbuf'[<<"ofreq", 0>>] = MixOutput(bufs, scales)
  BY <1>1, <1>4, MadePut DEF TypedState
<1> QED BY <1>5, <1>6

\* The last output that convolver_convolve_eval keeps.
EvalAt(l, u, k, cb) == \A i \in 0 .. l - 1 : Eq(cb[<<"eval", 0>>][i], Block(l, u, k)[i])

LEMMA EvalDone ==
  ASSUME TypedState, todo[1] = EvalOf, NEW u, NEW k \in Int, Known(u, k * length),
         Orders(length, cbuf[<<"ofreq", 0>>], length, Block(length, u, k)), EvalAt(length, u, k - 1, cbuf)
  PROVE  /\ todo' = Tail(todo) /\ UNCHANGED <<length, realsize, net, nCoeffs, subdelay, fed, chosen>>
         /\ \A a \in Buffers : a \notin {<<"ofreq", 0>>, <<"eval", 0>>} => cbuf'[a] = cbuf[a]
         /\ Ordered(2 * length, cbuf'[<<"ofreq", 0>>], Seen(length, u, k))
         /\ EvalAt(length, u, k, cbuf')
<1>1. /\ todo[1].op = "eval" /\ todo[1].to = <<"ofreq", 0>> /\ todo[1].from[1] = <<"ofreq", 0>>
      /\ <<"ofreq", 0>> \in Buffers /\ <<"eval", 0>> \in Buffers
  BY BufferNames DEF EvalOf, Call
<1>2. EvalCall
  BY <1>1, CallMade DEF TypedState
<1>3. PICK v, e : v = cbuf[<<"ofreq", 0>>] /\ e = cbuf[<<"eval", 0>>]
  OBVIOUS
<1>4. cbuf' = [cbuf EXCEPT ![<<"ofreq", 0>>] = R2HC(NFft, EvalWindow(v, e)), ![<<"eval", 0>>] = EvalKept(v)]
  BY <1>1, <1>2, <1>3 DEF EvalCall, EvalWindow, EvalKept, From
<1>5. cbuf \in [Buffers -> [Whole -> Field]] /\ length \in Lengths
  BY DEF TypedState
<1>6. /\ cbuf'[<<"ofreq", 0>>] = R2HC(NFft, EvalWindow(v, e)) /\ cbuf'[<<"eval", 0>>] = EvalKept(v)
      /\ \A a \in Buffers : a \notin {<<"ofreq", 0>>, <<"eval", 0>>} => cbuf'[a] = cbuf[a]
  <2>1. PICK x, y : x = R2HC(NFft, EvalWindow(v, e)) /\ y = EvalKept(v)
    OBVIOUS
  <2>2. cbuf' = [cbuf EXCEPT ![<<"ofreq", 0>>] = x, ![<<"eval", 0>>] = y]
    BY <1>4, <2>1
  <2> QED BY <1>1, <1>5, <2>1, <2>2
<1>7. Ints(v, 2 * length) /\ Ints(e, 2 * length)
  BY <1>1, <1>3, TypedInts
<1>8. /\ Ordered(2 * length, R2HC(NFft, EvalWindow(v, e)), Seen(length, u, k))
      /\ \A i \in 0 .. length - 1 : Eq(EvalKept(v)[i], Block(length, u, k)[i])
  BY <1>3, <1>5, <1>7, EvalGives DEF EvalAt
<1> QED BY <1>2, <1>6, <1>8 DEF EvalCall, EvalAt

LEMMA NextDone ==
  ASSUME TypedState, NEW to \in Buffers, todo[1] = NextOf(to), NEW u, NEW k \in Int, Known(u, k * length),
         Ordered(2 * length, cbuf[<<"ofreq", 0>>], Seen(length, u, k))
  PROVE  Put(to) /\ InCbuf(length, cbuf'[to], Seen(length, Scaled(InScale, u), k))
<1>1. /\ todo[1].op = "mixin" /\ todo[1].to = to /\ todo[1].from = <<<<"ofreq", 0>>>> /\ <<"ofreq", 0>> \in Buffers
  BY BufferNames DEF NextOf, Call
<1>2. PICK bufs, scales : bufs = Inputs /\ scales = MixScales(InScale)
  OBVIOUS
<1>3. Len(bufs) = 1 /\ bufs[1] = cbuf[<<"ofreq", 0>>] /\ scales[1] = InScale
  <2>1. /\ 1 \in {1, 2, 3} /\ DOMAIN todo[1].from = 1 .. 1 /\ \A i \in 1 .. 1 : todo[1].from[i] \in Buffers
        /\ todo[1].from[1] = <<"ofreq", 0>> /\ 1 \in 1 .. 1
    BY <1>1
  <2>2. InScale + 1 - 1 = InScale
    BY ScalesAre
  <2>3. Len(bufs) = 1 /\ bufs[1] = cbuf[todo[1].from[1]] /\ scales[1] = InScale + 1 - 1
    BY <1>2, <2>1, ScalesAre, InputsAre DEF TypedState
  <2> QED BY <2>1, <2>2, <2>3
<1>4. Made(MixInput(bufs, scales))
  BY <1>1, <1>2, CallMade DEF TypedState
<1>5. InCbuf(length, MixInput(bufs, scales), Seen(length, Scaled(InScale, u), k))
  BY <1>3, ScalesAre, NextGives DEF TypedState
<1>6. Put(to) /\ cbuf'[to] = MixInput(bufs, scales)
  BY <1>1, <1>4, MadePut DEF TypedState
<1> QED BY <1>5, <1>6

\* Block k of a signal has come out.
Out(l, cb, u, k) ==
  \A j \in 0 .. l - 1 : cb[<<"otime", 0>>][j] \in Field /\ Eq(cb[<<"otime", 0>>][j], Block(l, u, k)[j])

LEMMA Freq2TimeDone ==
  ASSUME TypedState, todo[1] = Freq2TimeOf, NEW u, NEW k,
         Orders(length, cbuf[<<"ofreq", 0>>], length, Block(length, u, k))
  PROVE  Put(<<"otime", 0>>) /\ Out(length, cbuf', u, k)
<1>1. /\ todo[1].op = "freq2time" /\ todo[1].to = <<"otime", 0>> /\ todo[1].from[1] = <<"ofreq", 0>>
      /\ <<"otime", 0>> \in Buffers
  BY BufferNames DEF Freq2TimeOf, Call
<1>2. Made(HC2R(NFft, cbuf[<<"ofreq", 0>>]))
  BY <1>1, CallMade DEF TypedState, From
<1>3. Put(<<"otime", 0>>) /\ cbuf'[<<"otime", 0>>] = HC2R(NFft, cbuf[<<"ofreq", 0>>])
  BY <1>1, <1>2, MadePut DEF TypedState
<1>4. PICK g, v : g = Block(length, u, k) /\ v = cbuf[<<"ofreq", 0>>]
  OBVIOUS
<1>5. \A j \in 0 .. length - 1 : HC2R(NFft, v)[j] \in Field /\ Eq(HC2R(NFft, v)[j], g[j])
  BY <1>4, TimeGives DEF TypedState
<1> QED BY <1>3, <1>4, <1>5 DEF Out

LEMMA CoeffsDone ==
  ASSUME TypedState, NEW name \in {"A", "B"}, NEW b \in {0, 1},
         todo[1] = Call("coeffs2cbuf", <<>>, Coeffs(name, b), None)
  PROVE  Put(Coeffs(name, b)) /\ HasCoefs(length, nCoeffs, cbuf', name, b)
<1>0. name \in {"win", "acc", "A", "B"}
  OBVIOUS
<1>1. todo[1].op = "coeffs2cbuf" /\ todo[1].to = <<name, b>> /\ <<name, b>> \in Buffers /\ Coeffs(name, b) = <<name, b>>
  BY <1>0, BufferNames DEF Call, Coeffs
<1>2. Made(Coeffs2Cbuf(Piece(name, b), PieceLength(b), CoeffScale))
  BY <1>1, CallMade DEF TypedState
<1>3. Coefs(length, Coeffs2Cbuf(Piece(name, b), PieceLength(b), CoeffScale), CoefVec(length, nCoeffs, name, b))
  BY CoeffsGive DEF TypedState
<1>4. Put(<<name, b>>) /\ cbuf'[<<name, b>>] = Coeffs2Cbuf(Piece(name, b), PieceLength(b), CoeffScale)
  BY <1>1, <1>2, MadePut DEF TypedState
<1> QED BY <1>1, <1>3, <1>4 DEF HasCoefs

LEMMA RuntimeDone ==
  ASSUME TypedState, todo[1] = Call("runtime_coeffs2cbuf", <<>>, Coeffs("A", 0), None)
  PROVE  Put(Coeffs("A", 0)) /\ HasCoefs(length, nCoeffs, cbuf', "A", 0)
<1>1. /\ todo[1].op = "runtime_coeffs2cbuf" /\ todo[1].to = <<"A", 0>> /\ <<"A", 0>> \in Buffers
      /\ Coeffs("A", 0) = <<"A", 0>>
  BY BufferNames DEF Call, Coeffs
<1>2. PICK src : src = [n \in Half |-> IF n < nCoeffs THEN (Taps("A", n) * CoeffScale) % P ELSE 0]
  OBVIOUS
<1>3. Made(RuntimeCoeffs2Cbuf(src))
  BY <1>1, <1>2, CallMade DEF TypedState
<1>4. Coefs(length, RuntimeCoeffs2Cbuf(src), CoefVec(length, nCoeffs, "A", 0))
  BY <1>2, RuntimeGives DEF TypedState
<1>5. Put(<<"A", 0>>) /\ cbuf'[<<"A", 0>>] = RuntimeCoeffs2Cbuf(src)
  BY <1>1, <1>3, MadePut DEF TypedState
<1> QED BY <1>1, <1>4, <1>5 DEF HasCoefs

\* What convolver_debug_dump_cbuf wrote.
DumpedAll(l, nc, cb) ==
  \A i \in 0 .. l - 1 : cb[<<"dump", 0>>][i] \in Field /\ Eq(cb[<<"dump", 0>>][i], CoefVec(l, nc, "A", 0)[i])

LEMMA DumpDone ==
  ASSUME TypedState, todo[1] = Call("dump", <<Coeffs("A", 0)>>, <<"dump", 0>>, None),
         HasCoefs(length, nCoeffs, cbuf, "A", 0)
  PROVE  Put(<<"dump", 0>>) /\ DumpedAll(length, nCoeffs, cbuf')
<1>1. /\ todo[1].op = "dump" /\ todo[1].to = <<"dump", 0>> /\ todo[1].from[1] = <<"A", 0>>
      /\ <<"A", 0>> \in Buffers /\ <<"dump", 0>> \in Buffers
  BY BufferNames DEF Call, Coeffs
<1>2. PICK b, c : b = cbuf[<<"A", 0>>] /\ c = CoefVec(length, nCoeffs, "A", 0)
  OBVIOUS
<1>3. Made(Dumped(b))
  BY <1>1, <1>2, CallMade DEF TypedState, From
<1>4. Ints(b, 2 * length) /\ Ints(c, length) /\ Coefs(length, b, c)
  <2>1. "A" \in Names /\ 0 \in Nat
    BY DEF Names
  <2>2. Ints(c, length)
    BY <1>2, <2>1, CoefVecIs DEF TypedState
  <2> QED BY <1>1, <1>2, <2>2, TypedInts DEF HasCoefs
<1>5. \A i \in 0 .. length - 1 : Dumped(b)[i] \in Field /\ Eq(Dumped(b)[i], c[i])
  BY <1>4, DumpIs DEF TypedState
<1>6. Put(<<"dump", 0>>) /\ cbuf'[<<"dump", 0>>] = Dumped(b)
  BY <1>1, <1>3, MadePut DEF TypedState
<1> QED BY <1>2, <1>5, <1>6 DEF DumpedAll

-----------------------------------------------------------------------------
(* The networks.                                                           *)

FirstName(nt) == IF nt = "dirac" THEN "D" ELSE "A"
SecondName(nt) == IF nt = "dirac" THEN "D" ELSE "B"

\* What goes from the first filter to the second.
Middle(l, nt, nc, f) == Scaled(OutScale, FltOf(nc, FirstName(nt), Input(l, nt, f), l))

\* What comes out of a network.
Output(l, nt, nc, f) ==
  IF nt \in {"series", "dirac"}
  THEN Scaled(OutScale, FltOf(nc, SecondName(nt), Scaled(InScale, Middle(l, nt, nc, f)), l))
  ELSE IF nt = "mixed" THEN Added(FltOf(nc, "A", Input(l, nt, f), l), FltOf(nc, "B", Input(l, nt, f), l))
  ELSE IF nt = "crossfade"
  THEN Scaled(OutScale, Fading(l, FltOf(nc, "A", Input(l, nt, f), l), FltOf(nc, "B", Input(l, nt, f), l)))
  ELSE Scaled(OutScale, FltOf(nc, "A", Input(l, nt, f), IF nt = "partitioned" THEN 2 * l ELSE l))

\* The coefficients of a network.
NetCoefs(l, nt, nc, cb) ==
  /\ nt \in {"single", "partitioned", "runtime", "series", "mixed", "crossfade"} => HasCoefs(l, nc, cb, "A", 0)
  /\ nt = "partitioned" => HasCoefs(l, nc, cb, "A", 1)
  /\ nt \in {"series", "mixed", "crossfade"} => HasCoefs(l, nc, cb, "B", 0)
  /\ nt = "single" => DumpedAll(l, nc, cb)

\* The steps of a block leave the last samples, the coefficients and the dump
\* alone.
Kept4 == {"time", "A", "B", "dump"}
KeptSame ==
  /\ UNCHANGED <<length, realsize, net, nCoeffs, subdelay, fed, chosen>>
  /\ \A a \in Buffers : a[1] \in Kept4 => cbuf'[a] = cbuf[a]

LEMMA PutKeeps ==
  ASSUME NEW n, NEW i, n \notin Kept4, Put(<<n, i>>)
  PROVE  KeptSame
<1>1. ASSUME NEW a \in Buffers, a[1] \in Kept4
      PROVE  a # <<n, i>>
  BY <1>1
<1> QED BY <1>1 DEF Put, KeptSame

LEMMA SignalsAre ==
  ASSUME NEW l \in Lengths, NEW nt, NEW nc \in CoeffLengths, NEW f, Fed(l, f)
  PROVE  /\ Len(f) \in Nat /\ Len(f) \in Int /\ Len(f) * l \in Nat /\ Len(f) * l \in Int
         /\ Known(Input(l, nt, f), Len(f) * l) /\ Silent(Input(l, nt, f))
         /\ \A name \in Names : Known(FltOf(nc, name, Input(l, nt, f), l), Len(f) * l)
         /\ Known(FltOf(nc, "A", Input(l, nt, f), 2 * l), Len(f) * l)
         /\ Known(Middle(l, nt, nc, f), Len(f) * l) /\ Silent(Middle(l, nt, nc, f))
         /\ Known(Scaled(InScale, Middle(l, nt, nc, f)), Len(f) * l)
         /\ \A name \in Names : Known(FltOf(nc, name, Scaled(InScale, Middle(l, nt, nc, f)), l), Len(f) * l)
         /\ FirstName(nt) \in Names /\ SecondName(nt) \in Names /\ "A" \in Names /\ "B" \in Names
<1>1. Len(f) \in Nat /\ Len(f) \in Int /\ l \in Nat /\ l \in Int /\ 2 * l \in Nat
  BY LengthIs DEF Fed
<1>2. PICK T \in Int : T = Len(f) * l /\ T \in Nat /\ T >= 0
  BY <1>1
<1>3. PICK s : s = Input(l, nt, f) /\ Known(s, T) /\ Silent(s)
  BY <1>2, InputKnown
<1>4. FirstName(nt) \in Names /\ SecondName(nt) \in Names /\ "A" \in Names /\ "B" \in Names
  BY DEF FirstName, SecondName, Names
<1>5. \A name \in Names : Known(FltOf(nc, name, s, l), T) /\ Silent(FltOf(nc, name, s, l))
  BY <1>1, <1>2, <1>3, FltKnown
<1>6. Known(FltOf(nc, "A", s, 2 * l), T)
  BY <1>1, <1>2, <1>3, <1>4, FltKnown
<1>7. PICK m : m = Middle(l, nt, nc, f) /\ Known(m, T) /\ Silent(m)
  <2>1. PICK m : m = Scaled(OutScale, FltOf(nc, FirstName(nt), s, l))
    OBVIOUS
  <2>2. m = Middle(l, nt, nc, f)
    BY <1>3, <2>1 DEF Middle
  <2>3. Known(m, T) /\ Silent(m)
    BY <1>2, <1>4, <1>5, <2>1, ScalesAre, ScaledKnown
  <2> QED BY <2>2, <2>3
<1>8. Known(Scaled(InScale, m), T)
  BY <1>2, <1>7, ScalesAre, ScaledKnown
<1>9. \A name \in Names : Known(FltOf(nc, name, Scaled(InScale, m), l), T)
  BY <1>1, <1>2, <1>8, FltKnown
<1> QED BY ONLY <1>1, <1>2, <1>3, <1>4, <1>5, <1>6, <1>7, <1>8, <1>9

LEMMA KeptCoefs ==
  ASSUME KeptSame, NEW l, NEW nt, NEW nc, NetCoefs(l, nt, nc, cbuf)
  PROVE  NetCoefs(l, nt, nc, cbuf')
<1>1. /\ <<"A", 0>> \in Buffers /\ <<"A", 1>> \in Buffers /\ <<"B", 0>> \in Buffers /\ <<"dump", 0>> \in Buffers
  BY BufferNames
<1>2. /\ cbuf'[<<"A", 0>>] = cbuf[<<"A", 0>>] /\ cbuf'[<<"A", 1>>] = cbuf[<<"A", 1>>]
      /\ cbuf'[<<"B", 0>>] = cbuf[<<"B", 0>>] /\ cbuf'[<<"dump", 0>>] = cbuf[<<"dump", 0>>]
  BY <1>1 DEF KeptSame, Kept4
<1> QED BY <1>2 DEF NetCoefs, HasCoefs, DumpedAll

LEMMA KeptWindows ==
  ASSUME KeptSame, NEW l, NEW f, Windows(l, f, cbuf)
  PROVE  Windows(l, f, cbuf')
<1>1. ASSUME NEW c \in Channels
      PROVE  cbuf'[<<"time", c>>] = cbuf[<<"time", c>>]
  BY BufferNames DEF KeptSame, Kept4
<1> QED BY <1>1 DEF Windows

-----------------------------------------------------------------------------
(* One filter.                                                             *)

OneStage(l, nt, nc, f, td, cb) ==
  \/ td = <<Time2FreqOf(1), MixinOf(<<"acc", 0>>), InplaceOf(<<"acc", 0>>, <<"A", 0>>),
            MixoutOf(<<<<"acc", 0>>>>), Freq2TimeOf>>
  \/ /\ td = <<MixinOf(<<"acc", 0>>), InplaceOf(<<"acc", 0>>, <<"A", 0>>), MixoutOf(<<<<"acc", 0>>>>), Freq2TimeOf>>
     /\ Ordered(2 * l, cb[<<"freq", 1>>], TimeWin(l, f, 1))
  \/ /\ td = <<InplaceOf(<<"acc", 0>>, <<"A", 0>>), MixoutOf(<<<<"acc", 0>>>>), Freq2TimeOf>>
     /\ InCbuf(l, cb[<<"acc", 0>>], Seen(l, Input(l, nt, f), Len(f)))
  \/ /\ td = <<MixoutOf(<<<<"acc", 0>>>>), Freq2TimeOf>>
     /\ Gives(l, cb[<<"acc", 0>>], l, Block(l, FltOf(nc, "A", Input(l, nt, f), l), Len(f)))
  \/ /\ td = <<Freq2TimeOf>>
     /\ Orders(l, cb[<<"ofreq", 0>>], l, Block(l, Output(l, nt, nc, f), Len(f)))
  \/ td = <<>> /\ Out(l, cb, Output(l, nt, nc, f), Len(f))

LEMMA OneStep ==
  ASSUME TypedState, net \in {"single", "runtime"}, NetCoefs(length, net, nCoeffs, cbuf), Windows(length, fed, cbuf),
         OneStage(length, net, nCoeffs, fed, todo, cbuf)
  PROVE  KeptSame /\ OneStage(length, net, nCoeffs, fed, todo', cbuf')
<1> DEFINE a0 == <<"acc", 0>>
           s == Input(length, net, fed)
           k == Len(fed)
           u == FltOf(nCoeffs, "A", s, length)
<1>0. length \in Lengths /\ nCoeffs \in CoeffLengths /\ Fed(length, fed) /\ todo # <<>>
  BY DEF TypedState
<1>1. k \in Int /\ Known(s, k * length) /\ Known(u, k * length) /\ "A" \in Names
  BY <1>0, SignalsAre
<1>2. /\ a0 \in Buffers /\ <<"A", 0>> \in Buffers /\ 1 \in Channels
      /\ "freq" \notin Kept4 /\ "acc" \notin Kept4 /\ "ofreq" \notin Kept4 /\ "otime" \notin Kept4
  BY BufferNames DEF Kept4
<1>3. Output(length, net, nCoeffs, fed) = Scaled(OutScale, u)
  BY DEF Output
<1> HIDE DEF s, k, u, a0
<1>4. CASE todo = <<Time2FreqOf(1), MixinOf(a0), InplaceOf(a0, <<"A", 0>>), MixoutOf(<<a0>>), Freq2TimeOf>>
  <2>1. todo[1] = Time2FreqOf(1)
        /\ Tail(todo) = <<MixinOf(a0), InplaceOf(a0, <<"A", 0>>), MixoutOf(<<a0>>), Freq2TimeOf>>
    BY <1>4
  <2>2. Put(<<"freq", 1>>) /\ Ordered(2 * length, cbuf'[<<"freq", 1>>], TimeWin(length, fed, 1))
    BY <1>2, <2>1, Time2FreqDone
  <2> QED BY <1>2, <2>1, <2>2, PutKeeps DEF OneStage, Put, a0
<1>5. CASE /\ todo = <<MixinOf(a0), InplaceOf(a0, <<"A", 0>>), MixoutOf(<<a0>>), Freq2TimeOf>>
           /\ Ordered(2 * length, cbuf[<<"freq", 1>>], TimeWin(length, fed, 1))
  <2>1. todo[1] = MixinOf(a0) /\ Tail(todo) = <<InplaceOf(a0, <<"A", 0>>), MixoutOf(<<a0>>), Freq2TimeOf>>
    BY <1>5
  <2>2. Put(a0) /\ InCbuf(length, cbuf'[a0], Seen(length, s, k))
    BY <1>2, <1>5, <2>1, MixinDone DEF s, k
  <2> QED BY <1>2, <2>1, <2>2, PutKeeps DEF OneStage, Put, a0, s, k
<1>6. CASE /\ todo = <<InplaceOf(a0, <<"A", 0>>), MixoutOf(<<a0>>), Freq2TimeOf>>
           /\ InCbuf(length, cbuf[a0], Seen(length, s, k))
  <2>1. todo[1] = InplaceOf(a0, <<"A", 0>>) /\ Tail(todo) = <<MixoutOf(<<a0>>), Freq2TimeOf>>
    BY <1>6
  <2>2. Put(a0) /\ cbuf'[a0] = Product(cbuf[a0], cbuf[<<"A", 0>>])
    BY <1>2, <2>1, ConvolveDone
  <2>3. Coefs(length, cbuf[<<"A", 0>>], CoefVec(length, nCoeffs, "A", 0))
    BY DEF NetCoefs, HasCoefs
  <2>4. Gives(length, cbuf'[a0], length, Block(length, u, k))
    BY <1>0, <1>1, <1>6, <2>2, <2>3, FilterGives DEF u
  <2> QED BY <1>2, <2>1, <2>2, <2>4, PutKeeps DEF OneStage, Put, a0, s, k, u
<1>7. CASE /\ todo = <<MixoutOf(<<a0>>), Freq2TimeOf>>
           /\ Gives(length, cbuf[a0], length, Block(length, u, k))
  <2>1. todo[1] = MixoutOf(<<a0>>) /\ Tail(todo) = <<Freq2TimeOf>>
    BY <1>7
  <2>2. Put(<<"ofreq", 0>>) /\ Orders(length, cbuf'[<<"ofreq", 0>>], length, Block(length, Scaled(OutScale, u), k))
    BY <1>1, <1>2, <1>7, <2>1, MixoutDone
  <2> QED BY <1>2, <1>3, <2>1, <2>2, PutKeeps DEF OneStage, Put, k
<1>8. CASE /\ todo = <<Freq2TimeOf>>
           /\ Orders(length, cbuf[<<"ofreq", 0>>], length, Block(length, Scaled(OutScale, u), k))
  <2>1. todo[1] = Freq2TimeOf /\ Tail(todo) = <<>>
    BY <1>8
  <2>2. Put(<<"otime", 0>>) /\ Out(length, cbuf', Scaled(OutScale, u), k)
    BY <1>8, <2>1, Freq2TimeDone
  <2> QED BY <1>2, <1>3, <2>1, <2>2, PutKeeps DEF OneStage, Put, k
<1> QED BY <1>0, <1>3, <1>4, <1>5, <1>6, <1>7, <1>8 DEF OneStage, a0, s, k, u

-----------------------------------------------------------------------------
(* A filter of two blocks.                                                 *)

LongStage(l, nc, f, td, cb) ==
  LET wk == <<"win", Len(f) % 2>>
      wp == <<"win", (Len(f) - 1) % 2>>
      s == Input(l, "partitioned", f)
      Before == Len(f) > 1 => InCbuf(l, cb[wp], Seen(l, s, Len(f) - 1))
      Now == InCbuf(l, cb[wk], Seen(l, s, Len(f)))
      Convolving == ConvolveOf(wk, <<"acc", 0>>, <<"A", 0>>)
      Adding == AddOf(wp, <<"acc", 0>>, <<"A", 1>>)
      Mixing == MixoutOf(<<<<"acc", 0>>>>)
  IN  \/ /\ \/ Len(f) = 1 /\ td = <<Time2FreqOf(1), MixinOf(wk), Convolving, Mixing, Freq2TimeOf>>
            \/ Len(f) > 1 /\ td = <<Time2FreqOf(1), MixinOf(wk), Convolving, Adding, Mixing, Freq2TimeOf>>
         /\ Before
      \/ /\ \/ Len(f) = 1 /\ td = <<MixinOf(wk), Convolving, Mixing, Freq2TimeOf>>
            \/ Len(f) > 1 /\ td = <<MixinOf(wk), Convolving, Adding, Mixing, Freq2TimeOf>>
         /\ Before /\ Ordered(2 * l, cb[<<"freq", 1>>], TimeWin(l, f, 1))
      \/ /\ \/ Len(f) = 1 /\ td = <<Convolving, Mixing, Freq2TimeOf>>
            \/ Len(f) > 1 /\ td = <<Convolving, Adding, Mixing, Freq2TimeOf>>
         /\ Before /\ Now
      \/ /\ Len(f) > 1 /\ td = <<Adding, Mixing, Freq2TimeOf>>
         /\ Before /\ Now /\ Gives(l, cb[<<"acc", 0>>], l, PartGiven(l, nc, "A", 0, s, Len(f)))
      \/ /\ td = <<Mixing, Freq2TimeOf>>
         /\ Now /\ Gives(l, cb[<<"acc", 0>>], l, Block(l, FltOf(nc, "A", s, 2 * l), Len(f)))
      \/ /\ td = <<Freq2TimeOf>>
         /\ Now /\ Orders(l, cb[<<"ofreq", 0>>], l, Block(l, Output(l, "partitioned", nc, f), Len(f)))
      \/ td = <<>> /\ Now /\ Out(l, cb, Output(l, "partitioned", nc, f), Len(f))

LEMMA TwoWindows ==
  ASSUME NEW k \in Int
  PROVE  k % 2 \in {0, 1} /\ (k - 1) % 2 \in {0, 1} /\ k % 2 # (k - 1) % 2
OBVIOUS

LEMMA LongStep ==
  ASSUME TypedState, net = "partitioned", NetCoefs(length, net, nCoeffs, cbuf), Windows(length, fed, cbuf), fed # <<>>,
         LongStage(length, nCoeffs, fed, todo, cbuf)
  PROVE  KeptSame /\ LongStage(length, nCoeffs, fed, todo', cbuf')
<1> DEFINE a0 == <<"acc", 0>>
           s == Input(length, "partitioned", fed)
           k == Len(fed)
           wk == <<"win", k % 2>>
           wp == <<"win", (k - 1) % 2>>
           u == FltOf(nCoeffs, "A", s, 2 * length)
           Before(cb) == k > 1 => InCbuf(length, cb[wp], Seen(length, s, k - 1))
           Now(cb) == InCbuf(length, cb[wk], Seen(length, s, k))
           Convolving == ConvolveOf(wk, a0, <<"A", 0>>)
           Adding == AddOf(wp, a0, <<"A", 1>>)
           Mixing == MixoutOf(<<a0>>)
           S1 == /\ \/ k = 1 /\ todo = <<Time2FreqOf(1), MixinOf(wk), Convolving, Mixing, Freq2TimeOf>>
                    \/ k > 1 /\ todo = <<Time2FreqOf(1), MixinOf(wk), Convolving, Adding, Mixing, Freq2TimeOf>>
                 /\ Before(cbuf)
           S2(td, cb) ==
                 /\ \/ k = 1 /\ td = <<MixinOf(wk), Convolving, Mixing, Freq2TimeOf>>
                    \/ k > 1 /\ td = <<MixinOf(wk), Convolving, Adding, Mixing, Freq2TimeOf>>
                 /\ Before(cb) /\ Ordered(2 * length, cb[<<"freq", 1>>], TimeWin(length, fed, 1))
           S3(td, cb) ==
                 /\ \/ k = 1 /\ td = <<Convolving, Mixing, Freq2TimeOf>>
                    \/ k > 1 /\ td = <<Convolving, Adding, Mixing, Freq2TimeOf>>
                 /\ Before(cb) /\ Now(cb)
           S4(td, cb) ==
                 /\ k > 1 /\ td = <<Adding, Mixing, Freq2TimeOf>>
                 /\ Before(cb) /\ Now(cb) /\ Gives(length, cb[a0], length, PartGiven(length, nCoeffs, "A", 0, s, k))
           S5(td, cb) ==
                 /\ td = <<Mixing, Freq2TimeOf>>
                 /\ Now(cb) /\ Gives(length, cb[a0], length, Block(length, u, k))
           S6(td, cb) ==
                 /\ td = <<Freq2TimeOf>>
                 /\ Now(cb) /\ Orders(length, cb[<<"ofreq", 0>>], length, Block(length, Output(length, net, nCoeffs, fed), k))
           S7(td, cb) == td = <<>> /\ Now(cb) /\ Out(length, cb, Output(length, net, nCoeffs, fed), k)
<1>0. length \in Lengths /\ nCoeffs \in CoeffLengths /\ Fed(length, fed) /\ todo # <<>>
  BY DEF TypedState
<1>1. k \in Nat \ {0} /\ k \in Int /\ Known(s, k * length) /\ Known(u, k * length) /\ Silent(s) /\ "A" \in Names
  <2>1. k # 0
    BY <1>0 DEF Fed
  <2> QED BY <1>0, <2>1, SignalsAre
<1>2. /\ a0 \in Buffers /\ <<"A", 0>> \in Buffers /\ <<"A", 1>> \in Buffers /\ 1 \in Channels
      /\ "freq" \notin Kept4 /\ "acc" \notin Kept4 /\ "ofreq" \notin Kept4 /\ "otime" \notin Kept4 /\ "win" \notin Kept4
  BY BufferNames DEF Kept4
<1>3. wk \in Buffers /\ wp \in Buffers /\ wk # wp
  <2>1. k % 2 \in {0, 1} /\ (k - 1) % 2 \in {0, 1} /\ k % 2 # (k - 1) % 2
    BY <1>1, TwoWindows
  <2> QED BY <2>1, BufferNames
<1>4. Output(length, net, nCoeffs, fed) = Scaled(OutScale, u)
  BY DEF Output
<1>5. ASSUME NEW n, NEW i, n # "win", Put(<<n, i>>)
      PROVE  (Before(cbuf) => Before(cbuf')) /\ (Now(cbuf) => Now(cbuf'))
  <2>1. <<n, i>> # wk /\ <<n, i>> # wp
    BY <1>5
  <2> QED BY <1>3, <1>5, <2>1 DEF Put
<1>6. \/ S1 \/ S2(todo, cbuf) \/ S3(todo, cbuf) \/ S4(todo, cbuf) \/ S5(todo, cbuf) \/ S6(todo, cbuf)
      \/ S7(todo, cbuf)
  BY DEF LongStage
<1>7. S2(todo', cbuf') \/ S3(todo', cbuf') \/ S4(todo', cbuf') \/ S5(todo', cbuf') \/ S6(todo', cbuf')
      \/ S7(todo', cbuf') => LongStage(length, nCoeffs, fed, todo', cbuf')
  BY DEF LongStage
<1>8. "win" # "freq" /\ "win" # "acc" /\ "win" # "ofreq" /\ "win" # "otime" /\ k - 1 \in Int /\ k - 0 = k
      /\ HasCoefs(length, nCoeffs, cbuf, "A", 0) /\ HasCoefs(length, nCoeffs, cbuf, "A", 1)
  BY <1>1 DEF NetCoefs
<1> HIDE DEF s, k, u
<1>9. CASE S1
  <2>1. /\ todo[1] = Time2FreqOf(1)
        /\ \/ k = 1 /\ Tail(todo) = <<MixinOf(wk), Convolving, Mixing, Freq2TimeOf>>
           \/ k > 1 /\ Tail(todo) = <<MixinOf(wk), Convolving, Adding, Mixing, Freq2TimeOf>>
    <3>1. CASE k = 1 /\ todo = <<Time2FreqOf(1), MixinOf(wk), Convolving, Mixing, Freq2TimeOf>>
      BY ONLY <3>1
    <3>2. CASE k > 1 /\ todo = <<Time2FreqOf(1), MixinOf(wk), Convolving, Adding, Mixing, Freq2TimeOf>>
      BY ONLY <3>2
    <3> QED BY <1>9, <3>1, <3>2
  <2>2. Put(<<"freq", 1>>) /\ Ordered(2 * length, cbuf'[<<"freq", 1>>], TimeWin(length, fed, 1))
    BY <1>2, <2>1, Time2FreqDone
  <2>3. Before(cbuf')
    BY <1>5, <1>8, <1>9, <2>2
  <2>4. S2(todo', cbuf')
    BY <2>1, <2>2, <2>3 DEF Put
  <2> QED BY <1>2, <1>7, <2>2, <2>4, PutKeeps
<1>10. CASE S2(todo, cbuf)
  <2>1. /\ todo[1] = MixinOf(wk)
        /\ \/ k = 1 /\ Tail(todo) = <<Convolving, Mixing, Freq2TimeOf>>
           \/ k > 1 /\ Tail(todo) = <<Convolving, Adding, Mixing, Freq2TimeOf>>
    <3>1. CASE k = 1 /\ todo = <<MixinOf(wk), Convolving, Mixing, Freq2TimeOf>>
      BY ONLY <3>1
    <3>2. CASE k > 1 /\ todo = <<MixinOf(wk), Convolving, Adding, Mixing, Freq2TimeOf>>
      BY ONLY <3>2
    <3> QED BY <1>10, <3>1, <3>2
  <2>2. Put(wk) /\ Now(cbuf')
    BY <1>3, <1>10, <2>1, MixinDone DEF s, k
  <2>3. Before(cbuf')
    BY <1>3, <1>10, <2>2 DEF Put
  <2>4. S3(todo', cbuf')
    BY <2>1, <2>2, <2>3 DEF Put
  <2> QED BY <1>2, <1>7, <2>2, <2>4, PutKeeps
<1>11. CASE S3(todo, cbuf)
  <2>1. /\ todo[1] = Convolving
        /\ \/ k = 1 /\ Tail(todo) = <<Mixing, Freq2TimeOf>>
           \/ k > 1 /\ Tail(todo) = <<Adding, Mixing, Freq2TimeOf>>
    <3>1. CASE k = 1 /\ todo = <<Convolving, Mixing, Freq2TimeOf>>
      BY ONLY <3>1
    <3>2. CASE k > 1 /\ todo = <<Convolving, Adding, Mixing, Freq2TimeOf>>
      BY ONLY <3>2
    <3> QED BY <1>11, <3>1, <3>2
  <2>2. Put(a0) /\ cbuf'[a0] = Product(cbuf[wk], cbuf[<<"A", 0>>])
    BY <1>2, <1>3, <2>1, ConvolveDone
  <2>3. Before(cbuf') /\ Now(cbuf')
    BY <1>5, <1>8, <1>11, <2>2
  <2>4. Gives(length, cbuf'[a0], length, PartGiven(length, nCoeffs, "A", 0, s, k))
    <3>1. /\ Known(s, (k - 0) * length) /\ InCbuf(length, cbuf[wk], Seen(length, s, k - 0))
          /\ Coefs(length, cbuf[<<"A", 0>>], CoefVec(length, nCoeffs, "A", 0)) /\ 0 \in Nat
      BY <1>1, <1>8, <1>11 DEF HasCoefs
    <3> QED BY <1>0, <1>1, <2>2, <3>1, PartGives
  <2>5. k = 1 => Gives(length, cbuf'[a0], length, Block(length, u, k))
    BY <1>0, <1>1, <2>4, LongFilterGives DEF u
  <2>6. S4(todo', cbuf') \/ S5(todo', cbuf')
    BY <2>1, <2>2, <2>3, <2>4, <2>5 DEF Put
  <2> QED BY <1>2, <1>7, <2>2, <2>6, PutKeeps
<1>12. CASE S4(todo, cbuf)
  <2>1. todo[1] = Adding /\ Tail(todo) = <<Mixing, Freq2TimeOf>>
    BY <1>12
  <2>2. Put(a0) /\ cbuf'[a0] = ConvolveAdd(cbuf[wp], cbuf[<<"A", 1>>], cbuf[a0])
    BY <1>2, <1>3, <2>1, ConvolveDone
  <2>3. Now(cbuf')
    BY <1>5, <1>8, <1>12, <2>2
  <2>4. Gives(length, Product(cbuf[wp], cbuf[<<"A", 1>>]), length, PartGiven(length, nCoeffs, "A", 1, s, k))
    <3>1. /\ Known(s, (k - 1) * length) /\ InCbuf(length, cbuf[wp], Seen(length, s, k - 1))
          /\ Coefs(length, cbuf[<<"A", 1>>], CoefVec(length, nCoeffs, "A", 1)) /\ 1 \in Nat
      <4>1. (k - 1) * length <= k * length /\ (k - 1) * length \in Int /\ k * length \in Int
        BY <1>0, <1>1, LengthIs
      <4>2. Known(s, (k - 1) * length)
        <5>1. PICK p, q \in Int : p = (k - 1) * length /\ q = k * length /\ p <= q
          BY <4>1
        <5> QED BY <1>1, <5>1 DEF Known
      <4> QED BY <1>8, <1>12, <4>2 DEF HasCoefs
    <3> QED BY <1>0, <1>1, <3>1, PartGives
  <2>5. Ints(cbuf[wp], 2 * length) /\ Ints(cbuf[<<"A", 1>>], 2 * length)
    BY <1>2, <1>3, TypedInts
  <2>6. Gives(length, cbuf'[a0], length, Block(length, u, k))
    BY <1>0, <1>1, <1>12, <2>2, <2>4, <2>5, LongFilterGives DEF u
  <2>7. S5(todo', cbuf')
    BY <2>1, <2>2, <2>3, <2>6 DEF Put
  <2> QED BY <1>2, <1>7, <2>2, <2>7, PutKeeps
<1>13. CASE S5(todo, cbuf)
  <2>1. todo[1] = Mixing /\ Tail(todo) = <<Freq2TimeOf>>
    BY <1>13
  <2>2. Put(<<"ofreq", 0>>) /\ Orders(length, cbuf'[<<"ofreq", 0>>], length, Block(length, Scaled(OutScale, u), k))
    BY <1>1, <1>2, <1>13, <2>1, MixoutDone
  <2>3. Now(cbuf')
    BY <1>5, <1>8, <1>13, <2>2
  <2>4. S6(todo', cbuf')
    BY <1>4, <2>1, <2>2, <2>3 DEF Put
  <2> QED BY <1>2, <1>7, <2>2, <2>4, PutKeeps
<1>14. CASE S6(todo, cbuf)
  <2>1. todo[1] = Freq2TimeOf /\ Tail(todo) = <<>>
    BY <1>14
  <2>2. Put(<<"otime", 0>>) /\ Out(length, cbuf', Output(length, net, nCoeffs, fed), k)
    BY <1>14, <2>1, Freq2TimeDone
  <2>3. Now(cbuf')
    BY <1>5, <1>8, <1>14, <2>2
  <2>4. S7(todo', cbuf')
    BY <2>1, <2>2, <2>3 DEF Put
  <2> QED BY <1>2, <1>7, <2>2, <2>4, PutKeeps
<1>15. ~ S7(todo, cbuf)
  BY <1>0
<1> QED BY <1>6, <1>9, <1>10, <1>11, <1>12, <1>13, <1>14, <1>15

-----------------------------------------------------------------------------
(* Two filters in series.                                                  *)

FirstCall(nt) ==
  IF nt = "dirac" THEN DiracOf(<<"win", 0>>, <<"acc", 0>>) ELSE ConvolveOf(<<"win", 0>>, <<"acc", 0>>, <<"A", 0>>)
SecondCall(nt) ==
  IF nt = "dirac" THEN DiracOf(<<"acc", 1>>, <<"acc", 1>>) ELSE InplaceOf(<<"acc", 1>>, <<"B", 0>>)

TwoStage(l, nt, nc, f, td, cb) ==
  LET w0 == <<"win", 0>>
      a0 == <<"acc", 0>>
      a1 == <<"acc", 1>>
      k == Len(f)
      s == Input(l, nt, f)
      m == Middle(l, nt, nc, f)
      first == FltOf(nc, FirstName(nt), s, l)
      second == FltOf(nc, SecondName(nt), Scaled(InScale, m), l)
  IN  \/ /\ td = <<Time2FreqOf(1), MixinOf(w0), FirstCall(nt), MixoutOf(<<a0>>), EvalOf, NextOf(a1), SecondCall(nt), MixoutOf(<<a1>>), Freq2TimeOf>>
         /\ EvalAt(l, m, k - 1, cb)
      \/ /\ td = <<MixinOf(w0), FirstCall(nt), MixoutOf(<<a0>>), EvalOf, NextOf(a1), SecondCall(nt), MixoutOf(<<a1>>), Freq2TimeOf>>
         /\ EvalAt(l, m, k - 1, cb) /\ Ordered(2 * l, cb[<<"freq", 1>>], TimeWin(l, f, 1))
      \/ /\ td = <<FirstCall(nt), MixoutOf(<<a0>>), EvalOf, NextOf(a1), SecondCall(nt), MixoutOf(<<a1>>), Freq2TimeOf>>
         /\ EvalAt(l, m, k - 1, cb) /\ InCbuf(l, cb[w0], Seen(l, s, k))
      \/ /\ td = <<MixoutOf(<<a0>>), EvalOf, NextOf(a1), SecondCall(nt), MixoutOf(<<a1>>), Freq2TimeOf>>
         /\ EvalAt(l, m, k - 1, cb) /\ Gives(l, cb[a0], l, Block(l, first, k))
      \/ /\ td = <<EvalOf, NextOf(a1), SecondCall(nt), MixoutOf(<<a1>>), Freq2TimeOf>>
         /\ EvalAt(l, m, k - 1, cb) /\ Orders(l, cb[<<"ofreq", 0>>], l, Block(l, m, k))
      \/ /\ td = <<NextOf(a1), SecondCall(nt), MixoutOf(<<a1>>), Freq2TimeOf>>
         /\ EvalAt(l, m, k, cb) /\ Ordered(2 * l, cb[<<"ofreq", 0>>], Seen(l, m, k))
      \/ /\ td = <<SecondCall(nt), MixoutOf(<<a1>>), Freq2TimeOf>>
         /\ EvalAt(l, m, k, cb) /\ InCbuf(l, cb[a1], Seen(l, Scaled(InScale, m), k))
      \/ /\ td = <<MixoutOf(<<a1>>), Freq2TimeOf>>
         /\ EvalAt(l, m, k, cb) /\ Gives(l, cb[a1], l, Block(l, second, k))
      \/ /\ td = <<Freq2TimeOf>>
         /\ EvalAt(l, m, k, cb) /\ Orders(l, cb[<<"ofreq", 0>>], l, Block(l, Output(l, nt, nc, f), k))
      \/ /\ td = <<>>
         /\ EvalAt(l, m, k, cb) /\ Out(l, cb, Output(l, nt, nc, f), k)

LEMMA EvalKeeps ==
  ASSUME NEW n, NEW i, n # "eval", Put(<<n, i>>), NEW l, NEW u, NEW k, EvalAt(l, u, k, cbuf)
  PROVE  EvalAt(l, u, k, cbuf')
<1>1. <<"eval", 0>> \in Buffers /\ <<"eval", 0>> # <<n, i>>
  BY BufferNames
<1> QED BY <1>1 DEF Put, EvalAt

\* What the filters do.
LEMMA FirstDone ==
  ASSUME TypedState, net \in {"series", "dirac"}, NetCoefs(length, net, nCoeffs, cbuf), todo[1] = FirstCall(net),
         NEW s, NEW k \in Int, Known(s, k * length), InCbuf(length, cbuf[<<"win", 0>>], Seen(length, s, k))
  PROVE  Put(<<"acc", 0>>) /\ Gives(length, cbuf'[<<"acc", 0>>], length, Block(length, FltOf(nCoeffs, FirstName(net), s, length), k))
<1>0. /\ length \in Lengths /\ nCoeffs \in CoeffLengths
      /\ <<"win", 0>> \in Buffers /\ <<"acc", 0>> \in Buffers /\ <<"A", 0>> \in Buffers /\ FirstName(net) \in Names
  BY BufferNames DEF TypedState, FirstName, Names
<1>1. PICK cf : /\ Put(<<"acc", 0>>) /\ cbuf'[<<"acc", 0>>] = Product(cbuf[<<"win", 0>>], cf)
                /\ Coefs(length, cf, CoefVec(length, nCoeffs, FirstName(net), 0))
  <2>1. CASE net = "series"
    <3>1. todo[1] = ConvolveOf(<<"win", 0>>, <<"acc", 0>>, <<"A", 0>>) /\ FirstName(net) = "A"
      BY <2>1 DEF FirstCall, FirstName
    <3>2. Put(<<"acc", 0>>) /\ cbuf'[<<"acc", 0>>] = Product(cbuf[<<"win", 0>>], cbuf[<<"A", 0>>])
      BY <1>0, <3>1, ConvolveDone
    <3>3. Coefs(length, cbuf[<<"A", 0>>], CoefVec(length, nCoeffs, "A", 0))
      BY <2>1 DEF NetCoefs, HasCoefs
    <3> QED BY <3>1, <3>2, <3>3
  <2>2. CASE net = "dirac"
    <3>1. todo[1] = DiracOf(<<"win", 0>>, <<"acc", 0>>) /\ FirstName(net) = "D"
      BY <2>2 DEF FirstCall, FirstName
    <3>2. Put(<<"acc", 0>>) /\ cbuf'[<<"acc", 0>>] = Product(cbuf[<<"win", 0>>], DiracBuf(length))
      BY <1>0, <3>1, ConvolveDone
    <3>3. Coefs(length, DiracBuf(length), CoefVec(length, nCoeffs, "D", 0))
      BY <1>0, DiracGives
    <3> QED BY <3>1, <3>2, <3>3
  <2> QED BY <2>1, <2>2
<1> QED BY <1>0, <1>1, FilterGives

LEMMA SecondDone ==
  ASSUME TypedState, net \in {"series", "dirac"}, NetCoefs(length, net, nCoeffs, cbuf), todo[1] = SecondCall(net),
         NEW s, NEW k \in Int, Known(s, k * length), InCbuf(length, cbuf[<<"acc", 1>>], Seen(length, s, k))
  PROVE  Put(<<"acc", 1>>) /\ Gives(length, cbuf'[<<"acc", 1>>], length, Block(length, FltOf(nCoeffs, SecondName(net), s, length), k))
<1>0. /\ length \in Lengths /\ nCoeffs \in CoeffLengths
      /\ <<"acc", 1>> \in Buffers /\ <<"B", 0>> \in Buffers /\ SecondName(net) \in Names
  BY BufferNames DEF TypedState, SecondName, Names
<1>1. PICK cf : /\ Put(<<"acc", 1>>) /\ cbuf'[<<"acc", 1>>] = Product(cbuf[<<"acc", 1>>], cf)
                /\ Coefs(length, cf, CoefVec(length, nCoeffs, SecondName(net), 0))
  <2>1. CASE net = "series"
    <3>1. todo[1] = InplaceOf(<<"acc", 1>>, <<"B", 0>>) /\ SecondName(net) = "B"
      BY <2>1 DEF SecondCall, SecondName
    <3>2. Put(<<"acc", 1>>) /\ cbuf'[<<"acc", 1>>] = Product(cbuf[<<"acc", 1>>], cbuf[<<"B", 0>>])
      BY <1>0, <3>1, ConvolveDone
    <3>3. Coefs(length, cbuf[<<"B", 0>>], CoefVec(length, nCoeffs, "B", 0))
      BY <2>1 DEF NetCoefs, HasCoefs
    <3> QED BY <3>1, <3>2, <3>3
  <2>2. CASE net = "dirac"
    <3>1. todo[1] = DiracOf(<<"acc", 1>>, <<"acc", 1>>) /\ SecondName(net) = "D"
      BY <2>2 DEF SecondCall, SecondName
    <3>2. Put(<<"acc", 1>>) /\ cbuf'[<<"acc", 1>>] = Product(cbuf[<<"acc", 1>>], DiracBuf(length))
      BY <1>0, <3>1, ConvolveDone
    <3>3. Coefs(length, DiracBuf(length), CoefVec(length, nCoeffs, "D", 0))
      BY <1>0, DiracGives
    <3> QED BY <3>1, <3>2, <3>3
  <2> QED BY <2>1, <2>2
<1> QED BY <1>0, <1>1, FilterGives

LEMMA TwoStep ==
  ASSUME TypedState, net \in {"series", "dirac"}, NetCoefs(length, net, nCoeffs, cbuf), Windows(length, fed, cbuf),
         TwoStage(length, net, nCoeffs, fed, todo, cbuf)
  PROVE  KeptSame /\ TwoStage(length, net, nCoeffs, fed, todo', cbuf')
<1> DEFINE w0 == <<"win", 0>>
           a0 == <<"acc", 0>>
           a1 == <<"acc", 1>>
           l == length
           f == fed
           nt == net
           nc == nCoeffs
           k == Len(fed)
           s == Input(length, net, fed)
           m == Middle(length, net, nCoeffs, fed)
           first == FltOf(nCoeffs, FirstName(net), s, length)
           second == FltOf(nCoeffs, SecondName(net), Scaled(InScale, m), length)
           S0(td, cb) ==
             /\ td = <<Time2FreqOf(1), MixinOf(w0), FirstCall(nt), MixoutOf(<<a0>>), EvalOf, NextOf(a1), SecondCall(nt), MixoutOf(<<a1>>), Freq2TimeOf>>
             /\ EvalAt(l, m, k - 1, cb)
           S1(td, cb) ==
             /\ td = <<MixinOf(w0), FirstCall(nt), MixoutOf(<<a0>>), EvalOf, NextOf(a1), SecondCall(nt), MixoutOf(<<a1>>), Freq2TimeOf>>
             /\ EvalAt(l, m, k - 1, cb) /\ Ordered(2 * l, cb[<<"freq", 1>>], TimeWin(l, f, 1))
           S2(td, cb) ==
             /\ td = <<FirstCall(nt), MixoutOf(<<a0>>), EvalOf, NextOf(a1), SecondCall(nt), MixoutOf(<<a1>>), Freq2TimeOf>>
             /\ EvalAt(l, m, k - 1, cb) /\ InCbuf(l, cb[w0], Seen(l, s, k))
           S3(td, cb) ==
             /\ td = <<MixoutOf(<<a0>>), EvalOf, NextOf(a1), SecondCall(nt), MixoutOf(<<a1>>), Freq2TimeOf>>
             /\ EvalAt(l, m, k - 1, cb) /\ Gives(l, cb[a0], l, Block(l, first, k))
           S4(td, cb) ==
             /\ td = <<EvalOf, NextOf(a1), SecondCall(nt), MixoutOf(<<a1>>), Freq2TimeOf>>
             /\ EvalAt(l, m, k - 1, cb) /\ Orders(l, cb[<<"ofreq", 0>>], l, Block(l, m, k))
           S5(td, cb) ==
             /\ td = <<NextOf(a1), SecondCall(nt), MixoutOf(<<a1>>), Freq2TimeOf>>
             /\ EvalAt(l, m, k, cb) /\ Ordered(2 * l, cb[<<"ofreq", 0>>], Seen(l, m, k))
           S6(td, cb) ==
             /\ td = <<SecondCall(nt), MixoutOf(<<a1>>), Freq2TimeOf>>
             /\ EvalAt(l, m, k, cb) /\ InCbuf(l, cb[a1], Seen(l, Scaled(InScale, m), k))
           S7(td, cb) ==
             /\ td = <<MixoutOf(<<a1>>), Freq2TimeOf>>
             /\ EvalAt(l, m, k, cb) /\ Gives(l, cb[a1], l, Block(l, second, k))
           S8(td, cb) ==
             /\ td = <<Freq2TimeOf>>
             /\ EvalAt(l, m, k, cb) /\ Orders(l, cb[<<"ofreq", 0>>], l, Block(l, Output(l, nt, nc, f), k))
           S9(td, cb) ==
             /\ td = <<>>
             /\ EvalAt(l, m, k, cb) /\ Out(l, cb, Output(l, nt, nc, f), k)
<1>0. length \in Lengths /\ nCoeffs \in CoeffLengths /\ Fed(length, fed) /\ todo # <<>>
  BY DEF TypedState
<1>1. /\ k \in Int /\ Known(s, k * length) /\ Known(first, k * length) /\ Known(m, k * length)
      /\ Known(Scaled(InScale, m), k * length) /\ Known(second, k * length)
  BY <1>0, SignalsAre
<1>2. /\ w0 \in Buffers /\ a0 \in Buffers /\ a1 \in Buffers /\ 1 \in Channels
      /\ "freq" \notin Kept4 /\ "acc" \notin Kept4 /\ "ofreq" \notin Kept4 /\ "otime" \notin Kept4 /\ "win" \notin Kept4
      /\ "freq" # "eval" /\ "acc" # "eval" /\ "ofreq" # "eval" /\ "otime" # "eval" /\ "win" # "eval"
  BY BufferNames DEF Kept4
<1>3. m = Scaled(OutScale, first) /\ Output(length, net, nCoeffs, fed) = Scaled(OutScale, second)
  BY DEF Output, Middle
<1>4. S0(todo, cbuf) \/ S1(todo, cbuf) \/ S2(todo, cbuf) \/ S3(todo, cbuf) \/ S4(todo, cbuf) \/ S5(todo, cbuf) \/ S6(todo, cbuf) \/ S7(todo, cbuf) \/ S8(todo, cbuf) \/ S9(todo, cbuf)
  BY DEF TwoStage
<1>5. S1(todo', cbuf') \/ S2(todo', cbuf') \/ S3(todo', cbuf') \/ S4(todo', cbuf') \/ S5(todo', cbuf') \/ S6(todo', cbuf') \/ S7(todo', cbuf') \/ S8(todo', cbuf') \/ S9(todo', cbuf')
      => TwoStage(length, net, nCoeffs, fed, todo', cbuf')
  BY DEF TwoStage
<1> HIDE DEF s, k, m, first, second
<1>6. CASE S0(todo, cbuf)
  <2>1. todo[1] = Time2FreqOf(1) /\ Tail(todo) = <<MixinOf(w0), FirstCall(nt), MixoutOf(<<a0>>), EvalOf, NextOf(a1), SecondCall(nt), MixoutOf(<<a1>>), Freq2TimeOf>>
    BY <1>6
  <2>2. Put(<<"freq", 1>>) /\ Ordered(2 * l, cbuf'[<<"freq", 1>>], TimeWin(l, f, 1))
    BY <1>2, <2>1, Time2FreqDone
  <2>3. EvalAt(l, m, k - 1, cbuf')
    BY <1>2, <1>6, <2>2, EvalKeeps
  <2>4. S1(todo', cbuf')
    BY <2>1, <2>2, <2>3 DEF Put
  <2> QED BY <1>2, <1>5, <2>2, <2>4, PutKeeps
<1>7. CASE S1(todo, cbuf)
  <2>1. todo[1] = MixinOf(w0) /\ Tail(todo) = <<FirstCall(nt), MixoutOf(<<a0>>), EvalOf, NextOf(a1), SecondCall(nt), MixoutOf(<<a1>>), Freq2TimeOf>>
    BY <1>7
  <2>2. Put(w0) /\ InCbuf(l, cbuf'[w0], Seen(l, s, k))
    BY <1>2, <1>7, <2>1, MixinDone DEF s, k
  <2>3. EvalAt(l, m, k - 1, cbuf')
    BY <1>2, <1>7, <2>2, EvalKeeps
  <2>4. S2(todo', cbuf')
    BY <2>1, <2>2, <2>3 DEF Put
  <2> QED BY <1>2, <1>5, <2>2, <2>4, PutKeeps
<1>8. CASE S2(todo, cbuf)
  <2>1. todo[1] = FirstCall(nt) /\ Tail(todo) = <<MixoutOf(<<a0>>), EvalOf, NextOf(a1), SecondCall(nt), MixoutOf(<<a1>>), Freq2TimeOf>>
    BY <1>8
  <2>2. Put(a0) /\ Gives(l, cbuf'[a0], l, Block(l, first, k))
    BY <1>1, <1>8, <2>1, FirstDone DEF first
  <2>3. EvalAt(l, m, k - 1, cbuf')
    BY <1>2, <1>8, <2>2, EvalKeeps
  <2>4. S3(todo', cbuf')
    BY <2>1, <2>2, <2>3 DEF Put
  <2> QED BY <1>2, <1>5, <2>2, <2>4, PutKeeps
<1>9. CASE S3(todo, cbuf)
  <2>1. todo[1] = MixoutOf(<<a0>>) /\ Tail(todo) = <<EvalOf, NextOf(a1), SecondCall(nt), MixoutOf(<<a1>>), Freq2TimeOf>>
    BY <1>9
  <2>2. Put(<<"ofreq", 0>>) /\ Orders(l, cbuf'[<<"ofreq", 0>>], l, Block(l, m, k))
    BY <1>1, <1>2, <1>3, <1>9, <2>1, MixoutDone
  <2>3. EvalAt(l, m, k - 1, cbuf')
    BY <1>2, <1>9, <2>2, EvalKeeps
  <2>4. S4(todo', cbuf')
    BY <2>1, <2>2, <2>3 DEF Put
  <2> QED BY <1>2, <1>5, <2>2, <2>4, PutKeeps
<1>10. CASE S4(todo, cbuf)
  <2>1. todo[1] = EvalOf /\ Tail(todo) = <<NextOf(a1), SecondCall(nt), MixoutOf(<<a1>>), Freq2TimeOf>>
    BY <1>10
  <2>2. /\ todo' = Tail(todo) /\ UNCHANGED <<length, realsize, net, nCoeffs, subdelay, fed, chosen>>
        /\ \A a \in Buffers : a \notin {<<"ofreq", 0>>, <<"eval", 0>>} => cbuf'[a] = cbuf[a]
        /\ Ordered(2 * l, cbuf'[<<"ofreq", 0>>], Seen(l, m, k))
        /\ EvalAt(l, m, k, cbuf')
    BY <1>1, <1>10, <2>1, EvalDone
  <2>3. KeptSame
    BY <2>2 DEF KeptSame, Kept4
  <2>4. S5(todo', cbuf')
    BY <2>1, <2>2
  <2> QED BY <1>5, <2>3, <2>4
<1>11. CASE S5(todo, cbuf)
  <2>1. todo[1] = NextOf(a1) /\ Tail(todo) = <<SecondCall(nt), MixoutOf(<<a1>>), Freq2TimeOf>>
    BY <1>11
  <2>2. Put(a1) /\ InCbuf(l, cbuf'[a1], Seen(l, Scaled(InScale, m), k))
    BY <1>1, <1>2, <1>11, <2>1, NextDone
  <2>3. EvalAt(l, m, k, cbuf')
    BY <1>2, <1>11, <2>2, EvalKeeps
  <2>4. S6(todo', cbuf')
    BY <2>1, <2>2, <2>3 DEF Put
  <2> QED BY <1>2, <1>5, <2>2, <2>4, PutKeeps
<1>12. CASE S6(todo, cbuf)
  <2>1. todo[1] = SecondCall(nt) /\ Tail(todo) = <<MixoutOf(<<a1>>), Freq2TimeOf>>
    BY <1>12
  <2>2. Put(a1) /\ Gives(l, cbuf'[a1], l, Block(l, second, k))
    BY <1>1, <1>12, <2>1, SecondDone DEF second
  <2>3. EvalAt(l, m, k, cbuf')
    BY <1>2, <1>12, <2>2, EvalKeeps
  <2>4. S7(todo', cbuf')
    BY <2>1, <2>2, <2>3 DEF Put
  <2> QED BY <1>2, <1>5, <2>2, <2>4, PutKeeps
<1>13. CASE S7(todo, cbuf)
  <2>1. todo[1] = MixoutOf(<<a1>>) /\ Tail(todo) = <<Freq2TimeOf>>
    BY <1>13
  <2>2. Put(<<"ofreq", 0>>) /\ Orders(l, cbuf'[<<"ofreq", 0>>], l, Block(l, Output(l, nt, nc, f), k))
    BY <1>1, <1>2, <1>3, <1>13, <2>1, MixoutDone
  <2>3. EvalAt(l, m, k, cbuf')
    BY <1>2, <1>13, <2>2, EvalKeeps
  <2>4. S8(todo', cbuf')
    BY <2>1, <2>2, <2>3 DEF Put
  <2> QED BY <1>2, <1>5, <2>2, <2>4, PutKeeps
<1>14. CASE S8(todo, cbuf)
  <2>1. todo[1] = Freq2TimeOf /\ Tail(todo) = <<>>
    BY <1>14
  <2>2. Put(<<"otime", 0>>) /\ Out(l, cbuf', Output(l, nt, nc, f), k)
    BY <1>14, <2>1, Freq2TimeDone
  <2>3. EvalAt(l, m, k, cbuf')
    BY <1>2, <1>14, <2>2, EvalKeeps
  <2>4. S9(todo', cbuf')
    BY <2>1, <2>2, <2>3 DEF Put
  <2> QED BY <1>2, <1>5, <2>2, <2>4, PutKeeps
<1>15. ~ S9(todo, cbuf)
  BY <1>0
<1> QED BY <1>4, <1>6, <1>7, <1>8, <1>9, <1>10, <1>11, <1>12, <1>13, <1>14, <1>15

-----------------------------------------------------------------------------
(* Three channels through two filters.                                     *)

MixedStage(l, rs, nt, nc, f, td, cb) ==
  LET w0 == <<"win", 0>>
      a0 == <<"acc", 0>>
      a1 == <<"acc", 1>>
      k == Len(f)
      s == Input(l, nt, f)
      u == FltOf(nc, "A", s, l)
      w == FltOf(nc, "B", s, l)
  IN  \/ /\ td = <<Time2FreqOf(1), Time2FreqOf(2), Time2FreqOf(3), MixinAll, ConvolveOf(w0, a0, <<"A", 0>>), ConvolveOf(w0, a1, <<"B", 0>>), MixoutOf(<<a0, a1>>), Freq2TimeOf>>
      \/ /\ td = <<Time2FreqOf(2), Time2FreqOf(3), MixinAll, ConvolveOf(w0, a0, <<"A", 0>>), ConvolveOf(w0, a1, <<"B", 0>>), MixoutOf(<<a0, a1>>), Freq2TimeOf>>
         /\ Ordered(2 * l, cb[<<"freq", 1>>], TimeWin(l, f, 1))
      \/ /\ td = <<Time2FreqOf(3), MixinAll, ConvolveOf(w0, a0, <<"A", 0>>), ConvolveOf(w0, a1, <<"B", 0>>), MixoutOf(<<a0, a1>>), Freq2TimeOf>>
         /\ Ordered(2 * l, cb[<<"freq", 1>>], TimeWin(l, f, 1))
         /\ Ordered(2 * l, cb[<<"freq", 2>>], TimeWin(l, f, 2))
      \/ /\ td = <<MixinAll, ConvolveOf(w0, a0, <<"A", 0>>), ConvolveOf(w0, a1, <<"B", 0>>), MixoutOf(<<a0, a1>>), Freq2TimeOf>>
         /\ Ordered(2 * l, cb[<<"freq", 1>>], TimeWin(l, f, 1))
         /\ Ordered(2 * l, cb[<<"freq", 2>>], TimeWin(l, f, 2))
         /\ Ordered(2 * l, cb[<<"freq", 3>>], TimeWin(l, f, 3))
      \/ /\ td = <<ConvolveOf(w0, a0, <<"A", 0>>), ConvolveOf(w0, a1, <<"B", 0>>), MixoutOf(<<a0, a1>>), Freq2TimeOf>>
         /\ InCbuf(l, cb[w0], Seen(l, s, k))
      \/ /\ td = <<ConvolveOf(w0, a1, <<"B", 0>>), MixoutOf(<<a0, a1>>), Freq2TimeOf>>
         /\ InCbuf(l, cb[w0], Seen(l, s, k))
         /\ Gives(l, cb[a0], l, Block(l, u, k))
      \/ /\ td = <<MixoutOf(<<a0, a1>>), Freq2TimeOf>>
         /\ Gives(l, cb[a0], l, Block(l, u, k))
         /\ Gives(l, cb[a1], l, Block(l, w, k))
      \/ /\ td = <<Freq2TimeOf>>
         /\ Orders(l, cb[<<"ofreq", 0>>], l, Block(l, Output(l, nt, nc, f), k))
      \/ /\ td = <<>>
         /\ Out(l, cb, Output(l, nt, nc, f), k)

LEMMA MixedStep ==
  ASSUME TypedState, net = "mixed", NetCoefs(length, net, nCoeffs, cbuf), Windows(length, fed, cbuf),
         MixedStage(length, realsize, net, nCoeffs, fed, todo, cbuf)
  PROVE  KeptSame /\ MixedStage(length, realsize, net, nCoeffs, fed, todo', cbuf')
<1> DEFINE l == length
           f == fed
           nt == net
           nc == nCoeffs
           rs == realsize
           w0 == <<"win", 0>>
           a0 == <<"acc", 0>>
           a1 == <<"acc", 1>>
           k == Len(f)
           s == Input(l, nt, f)
           u == FltOf(nc, "A", s, l)
           w == FltOf(nc, "B", s, l)
           S0(td, cb) ==
             /\ td = <<Time2FreqOf(1), Time2FreqOf(2), Time2FreqOf(3), MixinAll, ConvolveOf(w0, a0, <<"A", 0>>), ConvolveOf(w0, a1, <<"B", 0>>), MixoutOf(<<a0, a1>>), Freq2TimeOf>>
           S1(td, cb) ==
             /\ td = <<Time2FreqOf(2), Time2FreqOf(3), MixinAll, ConvolveOf(w0, a0, <<"A", 0>>), ConvolveOf(w0, a1, <<"B", 0>>), MixoutOf(<<a0, a1>>), Freq2TimeOf>>
             /\ Ordered(2 * l, cb[<<"freq", 1>>], TimeWin(l, f, 1))
           S2(td, cb) ==
             /\ td = <<Time2FreqOf(3), MixinAll, ConvolveOf(w0, a0, <<"A", 0>>), ConvolveOf(w0, a1, <<"B", 0>>), MixoutOf(<<a0, a1>>), Freq2TimeOf>>
             /\ Ordered(2 * l, cb[<<"freq", 1>>], TimeWin(l, f, 1))
             /\ Ordered(2 * l, cb[<<"freq", 2>>], TimeWin(l, f, 2))
           S3(td, cb) ==
             /\ td = <<MixinAll, ConvolveOf(w0, a0, <<"A", 0>>), ConvolveOf(w0, a1, <<"B", 0>>), MixoutOf(<<a0, a1>>), Freq2TimeOf>>
             /\ Ordered(2 * l, cb[<<"freq", 1>>], TimeWin(l, f, 1))
             /\ Ordered(2 * l, cb[<<"freq", 2>>], TimeWin(l, f, 2))
             /\ Ordered(2 * l, cb[<<"freq", 3>>], TimeWin(l, f, 3))
           S4(td, cb) ==
             /\ td = <<ConvolveOf(w0, a0, <<"A", 0>>), ConvolveOf(w0, a1, <<"B", 0>>), MixoutOf(<<a0, a1>>), Freq2TimeOf>>
             /\ InCbuf(l, cb[w0], Seen(l, s, k))
           S5(td, cb) ==
             /\ td = <<ConvolveOf(w0, a1, <<"B", 0>>), MixoutOf(<<a0, a1>>), Freq2TimeOf>>
             /\ InCbuf(l, cb[w0], Seen(l, s, k))
             /\ Gives(l, cb[a0], l, Block(l, u, k))
           S6(td, cb) ==
             /\ td = <<MixoutOf(<<a0, a1>>), Freq2TimeOf>>
             /\ Gives(l, cb[a0], l, Block(l, u, k))
             /\ Gives(l, cb[a1], l, Block(l, w, k))
           S7(td, cb) ==
             /\ td = <<Freq2TimeOf>>
             /\ Orders(l, cb[<<"ofreq", 0>>], l, Block(l, Output(l, nt, nc, f), k))
           S8(td, cb) ==
             /\ td = <<>>
             /\ Out(l, cb, Output(l, nt, nc, f), k)
<1>0. length \in Lengths /\ nCoeffs \in CoeffLengths /\ Fed(length, fed) /\ todo # <<>>
  BY DEF TypedState
<1>1. /\ k \in Int /\ Known(s, k * length) /\ Known(u, k * length) /\ Known(w, k * length)
      /\ "A" \in Names /\ "B" \in Names
  BY <1>0, SignalsAre
<1>2. /\ w0 \in Buffers /\ a0 \in Buffers /\ a1 \in Buffers /\ <<"A", 0>> \in Buffers /\ <<"B", 0>> \in Buffers
      /\ 1 \in Channels /\ 2 \in Channels /\ 3 \in Channels
      /\ <<"freq", 1>> \in Buffers /\ <<"freq", 2>> \in Buffers /\ <<"freq", 3>> \in Buffers
      /\ "freq" \notin Kept4 /\ "acc" \notin Kept4 /\ "ofreq" \notin Kept4 /\ "otime" \notin Kept4 /\ "win" \notin Kept4
  BY BufferNames DEF Kept4
<1>3. Output(length, net, nCoeffs, fed) = Added(u, w)
  BY DEF Output
<1>4. S0(todo, cbuf) \/ S1(todo, cbuf) \/ S2(todo, cbuf) \/ S3(todo, cbuf) \/ S4(todo, cbuf) \/ S5(todo, cbuf) \/ S6(todo, cbuf) \/ S7(todo, cbuf) \/ S8(todo, cbuf)
  BY DEF MixedStage
<1>5. S1(todo', cbuf') \/ S2(todo', cbuf') \/ S3(todo', cbuf') \/ S4(todo', cbuf') \/ S5(todo', cbuf') \/ S6(todo', cbuf') \/ S7(todo', cbuf') \/ S8(todo', cbuf')
      => MixedStage(length, realsize, net, nCoeffs, fed, todo', cbuf')
  BY DEF MixedStage
<1> HIDE DEF s, k, u, w
<1>6. CASE S0(todo, cbuf)
  <2>1. todo[1] = Time2FreqOf(1) /\ Tail(todo) = <<Time2FreqOf(2), Time2FreqOf(3), MixinAll, ConvolveOf(w0, a0, <<"A", 0>>), ConvolveOf(w0, a1, <<"B", 0>>), MixoutOf(<<a0, a1>>), Freq2TimeOf>>
    BY <1>6
  <2>2. Put(<<"freq", 1>>)
    BY <1>2, <2>1, Time2FreqDone
  <2>3. Ordered(2 * l, cbuf'[<<"freq", 1>>], TimeWin(l, f, 1))
    BY <1>2, <2>1, Time2FreqDone
  <2>8. S1(todo', cbuf')
    BY <1>2, <1>6, <2>1, <2>2, <2>3 DEF Put
  <2> QED BY <1>2, <1>5, <2>2, <2>8, PutKeeps
<1>7. CASE S1(todo, cbuf)
  <2>1. todo[1] = Time2FreqOf(2) /\ Tail(todo) = <<Time2FreqOf(3), MixinAll, ConvolveOf(w0, a0, <<"A", 0>>), ConvolveOf(w0, a1, <<"B", 0>>), MixoutOf(<<a0, a1>>), Freq2TimeOf>>
    BY <1>7
  <2>2. Put(<<"freq", 2>>)
    BY <1>2, <2>1, Time2FreqDone
  <2>3. Ordered(2 * l, cbuf'[<<"freq", 2>>], TimeWin(l, f, 2))
    BY <1>2, <2>1, Time2FreqDone
  <2>8. S2(todo', cbuf')
    BY <1>2, <1>7, <2>1, <2>2, <2>3 DEF Put
  <2> QED BY <1>2, <1>5, <2>2, <2>8, PutKeeps
<1>8. CASE S2(todo, cbuf)
  <2>1. todo[1] = Time2FreqOf(3) /\ Tail(todo) = <<MixinAll, ConvolveOf(w0, a0, <<"A", 0>>), ConvolveOf(w0, a1, <<"B", 0>>), MixoutOf(<<a0, a1>>), Freq2TimeOf>>
    BY <1>8
  <2>2. Put(<<"freq", 3>>)
    BY <1>2, <2>1, Time2FreqDone
  <2>3. Ordered(2 * l, cbuf'[<<"freq", 3>>], TimeWin(l, f, 3))
    BY <1>2, <2>1, Time2FreqDone
  <2>8. S3(todo', cbuf')
    BY <1>2, <1>8, <2>1, <2>2, <2>3 DEF Put
  <2> QED BY <1>2, <1>5, <2>2, <2>8, PutKeeps
<1>9. CASE S3(todo, cbuf)
  <2>1. todo[1] = MixinAll /\ Tail(todo) = <<ConvolveOf(w0, a0, <<"A", 0>>), ConvolveOf(w0, a1, <<"B", 0>>), MixoutOf(<<a0, a1>>), Freq2TimeOf>>
    BY <1>9
  <2>a. \A c \in 1 .. 3 : Ordered(2 * length, cbuf[<<"freq", c>>], TimeWin(length, fed, c))
    <3>1. \A c \in 1 .. 3 : c = 1 \/ c = 2 \/ c = 3
      OBVIOUS
    <3> QED BY <1>9, <3>1
  <2>2. Put(w0)
    BY <2>1, <2>a, MixinAllDone DEF s, k
  <2>3. InCbuf(l, cbuf'[w0], Seen(l, s, k))
    BY <2>1, <2>a, MixinAllDone DEF s, k
  <2>8. S4(todo', cbuf')
    BY <1>2, <1>9, <2>1, <2>2, <2>3 DEF Put
  <2> QED BY <1>2, <1>5, <2>2, <2>8, PutKeeps
<1>10. CASE S4(todo, cbuf)
  <2>1. todo[1] = ConvolveOf(w0, a0, <<"A", 0>>) /\ Tail(todo) = <<ConvolveOf(w0, a1, <<"B", 0>>), MixoutOf(<<a0, a1>>), Freq2TimeOf>>
    BY <1>10
  <2>a. Put(a0) /\ cbuf'[a0] = Product(cbuf[w0], cbuf[<<"A", 0>>])
    BY <1>2, <2>1, ConvolveDone
  <2>b. Coefs(length, cbuf[<<"A", 0>>], CoefVec(length, nCoeffs, "A", 0))
    BY DEF NetCoefs, HasCoefs
  <2>2. Put(a0)
    BY <2>a
  <2>3. Gives(l, cbuf'[a0], l, Block(l, u, k))
    BY <1>0, <1>1, <1>10, <2>a, <2>b, FilterGives DEF u
  <2>8. S5(todo', cbuf')
    BY <1>2, <1>10, <2>1, <2>2, <2>3 DEF Put
  <2> QED BY <1>2, <1>5, <2>2, <2>8, PutKeeps
<1>11. CASE S5(todo, cbuf)
  <2>1. todo[1] = ConvolveOf(w0, a1, <<"B", 0>>) /\ Tail(todo) = <<MixoutOf(<<a0, a1>>), Freq2TimeOf>>
    BY <1>11
  <2>a. Put(a1) /\ cbuf'[a1] = Product(cbuf[w0], cbuf[<<"B", 0>>])
    BY <1>2, <2>1, ConvolveDone
  <2>b. Coefs(length, cbuf[<<"B", 0>>], CoefVec(length, nCoeffs, "B", 0))
    BY DEF NetCoefs, HasCoefs
  <2>2. Put(a1)
    BY <2>a
  <2>3. Gives(l, cbuf'[a1], l, Block(l, w, k))
    BY <1>0, <1>1, <1>11, <2>a, <2>b, FilterGives DEF w
  <2>8. S6(todo', cbuf')
    BY <1>2, <1>11, <2>1, <2>2, <2>3 DEF Put
  <2> QED BY <1>2, <1>5, <2>2, <2>8, PutKeeps
<1>12. CASE S6(todo, cbuf)
  <2>1. todo[1] = MixoutOf(<<a0, a1>>) /\ Tail(todo) = <<Freq2TimeOf>>
    BY <1>12
  <2>2. Put(<<"ofreq", 0>>)
    BY <1>1, <1>2, <1>3, <1>12, <2>1, MixoutTwoDone
  <2>3. Orders(l, cbuf'[<<"ofreq", 0>>], l, Block(l, Output(l, nt, nc, f), k))
    BY <1>1, <1>2, <1>3, <1>12, <2>1, MixoutTwoDone
  <2>8. S7(todo', cbuf')
    BY <1>2, <1>12, <2>1, <2>2, <2>3 DEF Put
  <2> QED BY <1>2, <1>5, <2>2, <2>8, PutKeeps
<1>13. CASE S7(todo, cbuf)
  <2>1. todo[1] = Freq2TimeOf /\ Tail(todo) = <<>>
    BY <1>13
  <2>2. Put(<<"otime", 0>>)
    BY <1>13, <2>1, Freq2TimeDone
  <2>3. Out(l, cbuf', Output(l, nt, nc, f), k)
    BY <1>13, <2>1, Freq2TimeDone
  <2>8. S8(todo', cbuf')
    BY <1>2, <1>13, <2>1, <2>2, <2>3 DEF Put
  <2> QED BY <1>2, <1>5, <2>2, <2>8, PutKeeps
<1>14. ~ S8(todo, cbuf)
  BY <1>0
<1> QED BY <1>4, <1>6, <1>7, <1>8, <1>9, <1>10, <1>11, <1>12, <1>13, <1>14

-----------------------------------------------------------------------------
(* The crossfade.                                                          *)

FadeStage(l, rs, nt, nc, f, td, cb) ==
  LET w0 == <<"win", 0>>
      fa == <<"fade", 0>>
      k == Len(f)
      s == Input(l, nt, f)
      u == FltOf(nc, "A", s, l)
      w == FltOf(nc, "B", s, l)
  IN  \/ /\ td = <<Time2FreqOf(1), MixinOf(w0), ConvolveOf(w0, fa, <<"A", 0>>), InplaceOf(w0, <<"B", 0>>), FadeOf(fa, w0), MixoutOf(<<w0>>), Freq2TimeOf>>
      \/ /\ td = <<MixinOf(w0), ConvolveOf(w0, fa, <<"A", 0>>), InplaceOf(w0, <<"B", 0>>), FadeOf(fa, w0), MixoutOf(<<w0>>), Freq2TimeOf>>
         /\ Ordered(2 * l, cb[<<"freq", 1>>], TimeWin(l, f, 1))
      \/ /\ td = <<ConvolveOf(w0, fa, <<"A", 0>>), InplaceOf(w0, <<"B", 0>>), FadeOf(fa, w0), MixoutOf(<<w0>>), Freq2TimeOf>>
         /\ InCbuf(l, cb[w0], Seen(l, s, k))
      \/ /\ td = <<InplaceOf(w0, <<"B", 0>>), FadeOf(fa, w0), MixoutOf(<<w0>>), Freq2TimeOf>>
         /\ InCbuf(l, cb[w0], Seen(l, s, k))
         /\ Gives(l, cb[fa], l, Block(l, u, k))
      \/ /\ td = <<FadeOf(fa, w0), MixoutOf(<<w0>>), Freq2TimeOf>>
         /\ Gives(l, cb[fa], l, Block(l, u, k))
         /\ Gives(l, cb[w0], l, Block(l, w, k))
      \/ /\ td = <<MixoutOf(<<w0>>), Freq2TimeOf>>
         /\ (rs = 4 => Gives(l, cb[w0], l, Block(l, Fading(l, u, w), k)))
      \/ /\ td = <<Freq2TimeOf>>
         /\ (rs = 4 => Orders(l, cb[<<"ofreq", 0>>], l, Block(l, Output(l, nt, nc, f), k)))
      \/ /\ td = <<>>
         /\ (rs = 4 => Out(l, cb, Output(l, nt, nc, f), k))

LEMMA MixoutPut ==
  ASSUME TypedState, NEW b, todo[1] = MixoutOf(<<b>>)
  PROVE  Put(<<"ofreq", 0>>)
<1>1. todo[1].op = "mixout" /\ todo[1].to = <<"ofreq", 0>> /\ <<"ofreq", 0>> \in Buffers
  BY BufferNames DEF MixoutOf, Call
<1>2. Made(MixOutput(Inputs, MixScales(OutScale)))
  BY <1>1, CallMade DEF TypedState
<1> QED BY <1>1, <1>2, MadePut DEF TypedState

LEMMA Freq2TimePut ==
  ASSUME TypedState, todo[1] = Freq2TimeOf
  PROVE  Put(<<"otime", 0>>)
<1>1. todo[1].op = "freq2time" /\ todo[1].to = <<"otime", 0>> /\ <<"otime", 0>> \in Buffers
  BY BufferNames DEF Freq2TimeOf, Call
<1>2. Made(HC2R(NFft, From(1)))
  BY <1>1, CallMade DEF TypedState
<1> QED BY <1>1, <1>2, MadePut DEF TypedState

LEMMA FadeStep ==
  ASSUME TypedState, net = "crossfade", NetCoefs(length, net, nCoeffs, cbuf), Windows(length, fed, cbuf),
         FadeStage(length, realsize, net, nCoeffs, fed, todo, cbuf)
  PROVE  KeptSame /\ FadeStage(length, realsize, net, nCoeffs, fed, todo', cbuf')
<1> DEFINE l == length
           f == fed
           nt == net
           nc == nCoeffs
           rs == realsize
           w0 == <<"win", 0>>
           fa == <<"fade", 0>>
           k == Len(f)
           s == Input(l, nt, f)
           u == FltOf(nc, "A", s, l)
           w == FltOf(nc, "B", s, l)
           S0(td, cb) ==
             /\ td = <<Time2FreqOf(1), MixinOf(w0), ConvolveOf(w0, fa, <<"A", 0>>), InplaceOf(w0, <<"B", 0>>), FadeOf(fa, w0), MixoutOf(<<w0>>), Freq2TimeOf>>
           S1(td, cb) ==
             /\ td = <<MixinOf(w0), ConvolveOf(w0, fa, <<"A", 0>>), InplaceOf(w0, <<"B", 0>>), FadeOf(fa, w0), MixoutOf(<<w0>>), Freq2TimeOf>>
             /\ Ordered(2 * l, cb[<<"freq", 1>>], TimeWin(l, f, 1))
           S2(td, cb) ==
             /\ td = <<ConvolveOf(w0, fa, <<"A", 0>>), InplaceOf(w0, <<"B", 0>>), FadeOf(fa, w0), MixoutOf(<<w0>>), Freq2TimeOf>>
             /\ InCbuf(l, cb[w0], Seen(l, s, k))
           S3(td, cb) ==
             /\ td = <<InplaceOf(w0, <<"B", 0>>), FadeOf(fa, w0), MixoutOf(<<w0>>), Freq2TimeOf>>
             /\ InCbuf(l, cb[w0], Seen(l, s, k))
             /\ Gives(l, cb[fa], l, Block(l, u, k))
           S4(td, cb) ==
             /\ td = <<FadeOf(fa, w0), MixoutOf(<<w0>>), Freq2TimeOf>>
             /\ Gives(l, cb[fa], l, Block(l, u, k))
             /\ Gives(l, cb[w0], l, Block(l, w, k))
           S5(td, cb) ==
             /\ td = <<MixoutOf(<<w0>>), Freq2TimeOf>>
             /\ (rs = 4 => Gives(l, cb[w0], l, Block(l, Fading(l, u, w), k)))
           S6(td, cb) ==
             /\ td = <<Freq2TimeOf>>
             /\ (rs = 4 => Orders(l, cb[<<"ofreq", 0>>], l, Block(l, Output(l, nt, nc, f), k)))
           S7(td, cb) ==
             /\ td = <<>>
             /\ (rs = 4 => Out(l, cb, Output(l, nt, nc, f), k))
<1>0. length \in Lengths /\ nCoeffs \in CoeffLengths /\ Fed(length, fed) /\ todo # <<>>
  BY DEF TypedState
<1>1. /\ k \in Int /\ Known(s, k * length) /\ Known(u, k * length) /\ Known(w, k * length)
      /\ Known(Fading(length, u, w), k * length) /\ "A" \in Names /\ "B" \in Names
  <2>1. /\ k \in Int /\ k * length \in Int /\ Known(s, k * length) /\ Known(u, k * length) /\ Known(w, k * length)
        /\ "A" \in Names /\ "B" \in Names
    BY <1>0, SignalsAre
  <2> HIDE DEF k, u, w, s
  <2> QED BY <1>0, <2>1, FadingKnown
<1>2. /\ w0 \in Buffers /\ fa \in Buffers /\ <<"A", 0>> \in Buffers /\ <<"B", 0>> \in Buffers
      /\ 1 \in Channels
      /\ "freq" \notin Kept4 /\ "fade" \notin Kept4 /\ "ofreq" \notin Kept4 /\ "otime" \notin Kept4 /\ "win" \notin Kept4
  BY BufferNames DEF Kept4
<1>3. Output(length, net, nCoeffs, fed) = Scaled(OutScale, Fading(length, u, w))
  BY DEF Output
<1>4. S0(todo, cbuf) \/ S1(todo, cbuf) \/ S2(todo, cbuf) \/ S3(todo, cbuf) \/ S4(todo, cbuf) \/ S5(todo, cbuf) \/ S6(todo, cbuf) \/ S7(todo, cbuf)
  BY DEF FadeStage
<1>5. S1(todo', cbuf') \/ S2(todo', cbuf') \/ S3(todo', cbuf') \/ S4(todo', cbuf') \/ S5(todo', cbuf') \/ S6(todo', cbuf') \/ S7(todo', cbuf')
      => FadeStage(length, realsize, net, nCoeffs, fed, todo', cbuf')
  BY DEF FadeStage
<1> HIDE DEF s, k, u, w
<1>6. CASE S0(todo, cbuf)
  <2>1. todo[1] = Time2FreqOf(1) /\ Tail(todo) = <<MixinOf(w0), ConvolveOf(w0, fa, <<"A", 0>>), InplaceOf(w0, <<"B", 0>>), FadeOf(fa, w0), MixoutOf(<<w0>>), Freq2TimeOf>>
    BY <1>6
  <2>2. Put(<<"freq", 1>>)
    BY <1>2, <2>1, Time2FreqDone
  <2>3. Ordered(2 * l, cbuf'[<<"freq", 1>>], TimeWin(l, f, 1))
    BY <1>2, <2>1, Time2FreqDone
  <2>8. S1(todo', cbuf')
    BY <1>2, <1>6, <2>1, <2>2, <2>3 DEF Put
  <2> QED BY <1>2, <1>5, <2>2, <2>8, PutKeeps
<1>7. CASE S1(todo, cbuf)
  <2>1. todo[1] = MixinOf(w0) /\ Tail(todo) = <<ConvolveOf(w0, fa, <<"A", 0>>), InplaceOf(w0, <<"B", 0>>), FadeOf(fa, w0), MixoutOf(<<w0>>), Freq2TimeOf>>
    BY <1>7
  <2>2. Put(w0)
    BY <1>2, <1>7, <2>1, MixinDone DEF s, k
  <2>3. InCbuf(l, cbuf'[w0], Seen(l, s, k))
    BY <1>2, <1>7, <2>1, MixinDone DEF s, k
  <2>8. S2(todo', cbuf')
    BY <1>2, <1>7, <2>1, <2>2, <2>3 DEF Put
  <2> QED BY <1>2, <1>5, <2>2, <2>8, PutKeeps
<1>8. CASE S2(todo, cbuf)
  <2>1. todo[1] = ConvolveOf(w0, fa, <<"A", 0>>) /\ Tail(todo) = <<InplaceOf(w0, <<"B", 0>>), FadeOf(fa, w0), MixoutOf(<<w0>>), Freq2TimeOf>>
    BY <1>8
  <2>a. Put(fa) /\ cbuf'[fa] = Product(cbuf[w0], cbuf[<<"A", 0>>])
    BY <1>2, <2>1, ConvolveDone
  <2>b. Coefs(length, cbuf[<<"A", 0>>], CoefVec(length, nCoeffs, "A", 0))
    BY DEF NetCoefs, HasCoefs
  <2>2. Put(fa)
    BY <2>a
  <2>3. Gives(l, cbuf'[fa], l, Block(l, u, k))
    BY <1>0, <1>1, <1>8, <2>a, <2>b, FilterGives DEF u
  <2>8. S3(todo', cbuf')
    BY <1>2, <1>8, <2>1, <2>2, <2>3 DEF Put
  <2> QED BY <1>2, <1>5, <2>2, <2>8, PutKeeps
<1>9. CASE S3(todo, cbuf)
  <2>1. todo[1] = InplaceOf(w0, <<"B", 0>>) /\ Tail(todo) = <<FadeOf(fa, w0), MixoutOf(<<w0>>), Freq2TimeOf>>
    BY <1>9
  <2>a. Put(w0) /\ cbuf'[w0] = Product(cbuf[w0], cbuf[<<"B", 0>>])
    BY <1>2, <2>1, ConvolveDone
  <2>b. Coefs(length, cbuf[<<"B", 0>>], CoefVec(length, nCoeffs, "B", 0))
    BY DEF NetCoefs, HasCoefs
  <2>2. Put(w0)
    BY <2>a
  <2>3. Gives(l, cbuf'[w0], l, Block(l, w, k))
    BY <1>0, <1>1, <1>9, <2>a, <2>b, FilterGives DEF w
  <2>8. S4(todo', cbuf')
    BY <1>2, <1>9, <2>1, <2>2, <2>3 DEF Put
  <2> QED BY <1>2, <1>5, <2>2, <2>8, PutKeeps
<1>10. CASE S4(todo, cbuf)
  <2>1. todo[1] = FadeOf(fa, w0) /\ Tail(todo) = <<MixoutOf(<<w0>>), Freq2TimeOf>>
    BY <1>10
  <2>2. Put(w0)
    BY <1>1, <1>2, <1>10, <2>1, FadeDone
  <2>3. (rs = 4 => Gives(l, cbuf'[w0], l, Block(l, Fading(l, u, w), k)))
    BY <1>1, <1>2, <1>10, <2>1, FadeDone
  <2>8. S5(todo', cbuf')
    BY <1>2, <1>10, <2>1, <2>2, <2>3 DEF Put
  <2> QED BY <1>2, <1>5, <2>2, <2>8, PutKeeps
<1>11. CASE S5(todo, cbuf)
  <2>1. todo[1] = MixoutOf(<<w0>>) /\ Tail(todo) = <<Freq2TimeOf>>
    BY <1>11
  <2>a. Put(<<"ofreq", 0>>)
    BY <2>1, MixoutPut, <1>2
  <2>b. ASSUME rs = 4 PROVE Orders(l, cbuf'[<<"ofreq", 0>>], l, Block(l, Output(l, nt, nc, f), k))
    <3>1. Gives(l, cbuf[w0], l, Block(l, Fading(l, u, w), k))
      BY <1>11, <2>b
    <3> QED BY <1>1, <1>2, <1>3, <2>1, <3>1, MixoutDone
  <2>2. Put(<<"ofreq", 0>>)
    BY <2>a
  <2>3. (rs = 4 => Orders(l, cbuf'[<<"ofreq", 0>>], l, Block(l, Output(l, nt, nc, f), k)))
    BY <2>b
  <2>8. S6(todo', cbuf')
    BY <1>2, <1>11, <2>1, <2>2, <2>3 DEF Put
  <2> QED BY <1>2, <1>5, <2>2, <2>8, PutKeeps
<1>12. CASE S6(todo, cbuf)
  <2>1. todo[1] = Freq2TimeOf /\ Tail(todo) = <<>>
    BY <1>12
  <2>a. Put(<<"otime", 0>>)
    BY <2>1, Freq2TimePut
  <2>b. ASSUME rs = 4 PROVE Out(l, cbuf', Output(l, nt, nc, f), k)
    <3>1. Orders(l, cbuf[<<"ofreq", 0>>], l, Block(l, Output(l, nt, nc, f), k))
      BY <1>12, <2>b
    <3> QED BY <2>1, <3>1, Freq2TimeDone
  <2>2. Put(<<"otime", 0>>)
    BY <2>a
  <2>3. (rs = 4 => Out(l, cbuf', Output(l, nt, nc, f), k))
    BY <2>b
  <2>8. S7(todo', cbuf')
    BY <1>2, <1>12, <2>1, <2>2, <2>3 DEF Put
  <2> QED BY <1>2, <1>5, <2>2, <2>8, PutKeeps
<1>13. ~ S7(todo, cbuf)
  BY <1>0
<1> QED BY <1>4, <1>6, <1>7, <1>8, <1>9, <1>10, <1>11, <1>12, <1>13

-----------------------------------------------------------------------------
(* Every network, from its coefficients on.                                *)

ToCoeffs(name, b) == Call("coeffs2cbuf", <<>>, Coeffs(name, b), None)
ToRuntime == Call("runtime_coeffs2cbuf", <<>>, Coeffs("A", 0), None)
ToDump == Call("dump", <<Coeffs("A", 0)>>, <<"dump", 0>>, None)

SetupStage(l, nt, nc, td, cb) ==
  \/ /\ nt \in {"single", "partitioned"}
     /\ \/ td = <<ToCoeffs("A", 0), ToCoeffs("A", 1), ToDump>>
        \/ td = <<ToCoeffs("A", 1), ToDump>> /\ HasCoefs(l, nc, cb, "A", 0)
        \/ td = <<ToDump>> /\ HasCoefs(l, nc, cb, "A", 0) /\ HasCoefs(l, nc, cb, "A", 1)
  \/ nt = "runtime" /\ td = <<ToRuntime>>
  \/ /\ nt \in {"series", "mixed", "crossfade"}
     /\ \/ td = <<ToCoeffs("A", 0), ToCoeffs("B", 0)>>
        \/ td = <<ToCoeffs("B", 0)>> /\ HasCoefs(l, nc, cb, "A", 0)
  \/ td = <<>> /\ NetCoefs(l, nt, nc, cb)

Stage(l, rs, nt, nc, f, td, cb) ==
  /\ nt \in {"single", "runtime"} => OneStage(l, nt, nc, f, td, cb)
  /\ nt = "partitioned" => LongStage(l, nc, f, td, cb)
  /\ nt \in {"series", "dirac"} => TwoStage(l, nt, nc, f, td, cb)
  /\ nt = "mixed" => MixedStage(l, rs, nt, nc, f, td, cb)
  /\ nt = "crossfade" => FadeStage(l, rs, nt, nc, f, td, cb)

\* Whatever a network is about to do, its buffers are what they should be.
Progress(l, rs, nt, nc, f, td, cb) ==
  /\ Windows(l, f, cb)
  /\ \/ f = <<>> /\ SetupStage(l, nt, nc, td, cb) /\ EvalAt(l, Middle(l, nt, nc, f), 0, cb)
     \/ f # <<>> /\ NetCoefs(l, nt, nc, cb) /\ Stage(l, rs, nt, nc, f, td, cb)

ConvolvingNets == {"single", "partitioned", "runtime", "series", "dirac", "mixed", "crossfade"}

LEMMA ProgressInit ==
  ASSUME Init, net # "subsample"
  PROVE  Progress(length, realsize, net, nCoeffs, fed, todo, cbuf)
<1>0. /\ length \in Lengths /\ nCoeffs \in CoeffLengths /\ net \in ConvolvingNets /\ length \in Nat \ {0}
      /\ todo = Setup(net) /\ fed = <<>> /\ cbuf = [b \in Buffers |-> Zeros] /\ Fed(length, <<>>)
  <2>1. /\ length \in Lengths /\ nCoeffs \in CoeffLengths /\ net \in Nets
        /\ todo = Setup(net) /\ fed = <<>> /\ cbuf = [b \in Buffers |-> Zeros]
    BY DEF Init
  <2>2. net \in ConvolvingNets
    BY <2>1, SpectrumAssumption DEF ConvolvingNets
  <2>3. length \in Nat \ {0}
    BY <2>1, LengthPos
  <2>4. Fed(length, <<>>)
    BY DEF Fed
  <2> QED BY <2>1, <2>2, <2>3, <2>4
<1>1. Windows(length, <<>>, cbuf)
  <2>1. ASSUME NEW c \in Channels, NEW i \in 0 .. 2 * length - 1
        PROVE  cbuf[<<"time", c>>][i] = TimeWin(length, <<>>, c)[i]
    <3>1. cbuf[<<"time", c>>][i] = 0
      BY <1>0, BufferNames DEF Zeros, Whole, NFft
    <3>2. TimeWin(length, <<>>, c)[i] = Smp(length, <<>>, c, (Len(<<>>) - 2) * length + i)
      BY DEF TimeWin
    <3>3. PICK t \in Int : t = (Len(<<>>) - 2) * length + i /\ t < 0
      BY <1>0
    <3>4. Smp(length, <<>>, c, t) = 0
      BY <3>3 DEF Smp
    <3> QED BY <3>1, <3>2, <3>3, <3>4
  <2> QED BY <2>1 DEF Windows
<1>2. EvalAt(length, Middle(length, net, nCoeffs, <<>>), 0, cbuf)
  <2>1. PICK m : m = Middle(length, net, nCoeffs, <<>>) /\ Silent(m)
    BY <1>0, SignalsAre
  <2>2. ASSUME NEW i \in 0 .. length - 1
        PROVE  Eq(cbuf[<<"eval", 0>>][i], Block(length, m, 0)[i])
    <3>1. cbuf[<<"eval", 0>>][i] = 0
      BY <1>0, BufferNames DEF Zeros, Whole, NFft
    <3>2. Block(length, m, 0)[i] = m[(0 - 1) * length + i]
      BY DEF Block
    <3>3. PICK t \in Int : t = (0 - 1) * length + i /\ t < 0
      BY <1>0
    <3>4. m[t] = 0
      BY <2>1, <3>3 DEF Silent
    <3> QED BY <3>1, <3>2, <3>3, <3>4 DEF Eq
  <2> QED BY <2>1, <2>2 DEF EvalAt
<1>3. SetupStage(length, net, nCoeffs, todo, cbuf)
  <2>1. CASE net \in {"single", "partitioned"}
    BY <1>0, <2>1 DEF Setup, SetupStage, ToCoeffs, ToDump
  <2>2. CASE net = "runtime"
    BY <1>0, <2>2 DEF Setup, SetupStage, ToRuntime
  <2>3. CASE net \in {"series", "mixed", "crossfade"}
    BY <1>0, <2>3 DEF Setup, SetupStage, ToCoeffs
  <2>4. CASE net = "dirac"
    <3>1. NetCoefs(length, net, nCoeffs, cbuf)
      BY <2>4 DEF NetCoefs
    <3> QED BY <1>0, <2>4, <3>1 DEF Setup, SetupStage
  <2> QED BY <1>0, <2>1, <2>2, <2>3, <2>4 DEF ConvolvingNets
<1> QED BY <1>0, <1>1, <1>2, <1>3 DEF Progress

LEMMA SetupKeeps ==
  ASSUME NEW n \in {"A", "B", "dump"}, NEW i, Put(<<n, i>>), NEW l, NEW f, NEW u, NEW nc,
         Windows(l, f, cbuf), EvalAt(l, u, 0, cbuf)
  PROVE  /\ UNCHANGED <<length, realsize, net, nCoeffs, subdelay, fed, chosen>>
         /\ Windows(l, f, cbuf') /\ EvalAt(l, u, 0, cbuf')
         /\ \A m \in {"A", "B"} : \A j \in {0, 1} :
              <<m, j>> # <<n, i>> /\ HasCoefs(l, nc, cbuf, m, j) => HasCoefs(l, nc, cbuf', m, j)
<1>1. \A c \in Channels : cbuf'[<<"time", c>>] = cbuf[<<"time", c>>]
  BY BufferNames DEF Put
<1>2. cbuf'[<<"eval", 0>>] = cbuf[<<"eval", 0>>]
  BY BufferNames DEF Put
<1>3. \A m \in {"A", "B"} : \A j \in {0, 1} : <<m, j>> # <<n, i>> => cbuf'[<<m, j>>] = cbuf[<<m, j>>]
  BY BufferNames DEF Put
<1>4. Windows(l, f, cbuf')
  BY <1>1 DEF Windows
<1>5. EvalAt(l, u, 0, cbuf')
  BY <1>2 DEF EvalAt
<1>6. \A m \in {"A", "B"} : \A j \in {0, 1} :
        <<m, j>> # <<n, i>> /\ HasCoefs(l, nc, cbuf, m, j) => HasCoefs(l, nc, cbuf', m, j)
  BY <1>3 DEF HasCoefs
<1> QED BY <1>4, <1>5, <1>6 DEF Put

LEMMA SetupStep ==
  ASSUME TypedState, SetupStage(length, net, nCoeffs, todo, cbuf), Windows(length, fed, cbuf),
         NEW u, EvalAt(length, u, 0, cbuf)
  PROVE  /\ UNCHANGED <<length, realsize, net, nCoeffs, subdelay, fed, chosen>>
         /\ Windows(length, fed, cbuf') /\ EvalAt(length, u, 0, cbuf')
         /\ SetupStage(length, net, nCoeffs, todo', cbuf')
<1> DEFINE Goal == /\ UNCHANGED <<length, realsize, net, nCoeffs, subdelay, fed, chosen>>
                   /\ Windows(length, fed, cbuf') /\ EvalAt(length, u, 0, cbuf')
                   /\ SetupStage(length, net, nCoeffs, todo', cbuf')
<1>0. todo # <<>>
  BY DEF TypedState
<1>1. CASE net \in {"single", "partitioned"} /\ todo = <<ToCoeffs("A", 0), ToCoeffs("A", 1), ToDump>>
  <2>1. todo[1] = Call("coeffs2cbuf", <<>>, Coeffs("A", 0), None) /\ Tail(todo) = <<ToCoeffs("A", 1), ToDump>>
    BY <1>1 DEF ToCoeffs
  <2>2. Put(<<"A", 0>>) /\ HasCoefs(length, nCoeffs, cbuf', "A", 0)
    BY <2>1, CoeffsDone DEF Coeffs
  <2>3. todo' = <<ToCoeffs("A", 1), ToDump>>
    BY <2>1, <2>2 DEF Put
  <2>4. SetupStage(length, net, nCoeffs, todo', cbuf')
    BY <1>1, <2>2, <2>3 DEF SetupStage
  <2> QED BY <2>2, <2>4, SetupKeeps
<1>2. CASE /\ net \in {"single", "partitioned"} /\ todo = <<ToCoeffs("A", 1), ToDump>>
           /\ HasCoefs(length, nCoeffs, cbuf, "A", 0)
  <2>1. todo[1] = Call("coeffs2cbuf", <<>>, Coeffs("A", 1), None) /\ Tail(todo) = <<ToDump>>
    BY <1>2 DEF ToCoeffs
  <2>2. Put(<<"A", 1>>) /\ HasCoefs(length, nCoeffs, cbuf', "A", 1)
    BY <2>1, CoeffsDone DEF Coeffs
  <2>3. todo' = <<ToDump>>
    BY <2>1, <2>2 DEF Put
  <2>4. HasCoefs(length, nCoeffs, cbuf', "A", 0)
    BY <1>2, <2>2, SetupKeeps
  <2>5. SetupStage(length, net, nCoeffs, todo', cbuf')
    BY <1>2, <2>2, <2>3, <2>4 DEF SetupStage
  <2> QED BY <2>2, <2>5, SetupKeeps
<1>3. CASE /\ net \in {"single", "partitioned"} /\ todo = <<ToDump>>
           /\ HasCoefs(length, nCoeffs, cbuf, "A", 0) /\ HasCoefs(length, nCoeffs, cbuf, "A", 1)
  <2>1. todo[1] = Call("dump", <<Coeffs("A", 0)>>, <<"dump", 0>>, None) /\ Tail(todo) = <<>>
    BY <1>3 DEF ToDump
  <2>2. Put(<<"dump", 0>>) /\ DumpedAll(length, nCoeffs, cbuf')
    BY <1>3, <2>1, DumpDone
  <2>3. todo' = <<>>
    BY <2>1, <2>2 DEF Put
  <2>4. HasCoefs(length, nCoeffs, cbuf', "A", 0) /\ HasCoefs(length, nCoeffs, cbuf', "A", 1)
    BY <1>3, <2>2, SetupKeeps
  <2>5. NetCoefs(length, net, nCoeffs, cbuf')
    BY <1>3, <2>2, <2>4 DEF NetCoefs
  <2>6. SetupStage(length, net, nCoeffs, todo', cbuf')
    BY <2>3, <2>5 DEF SetupStage
  <2> QED BY <2>2, <2>6, SetupKeeps
<1>4. CASE net = "runtime" /\ todo = <<ToRuntime>>
  <2>1. todo[1] = Call("runtime_coeffs2cbuf", <<>>, Coeffs("A", 0), None) /\ Tail(todo) = <<>>
    BY <1>4 DEF ToRuntime
  <2>2. Put(<<"A", 0>>) /\ HasCoefs(length, nCoeffs, cbuf', "A", 0)
    BY <2>1, RuntimeDone DEF Coeffs
  <2>3. todo' = <<>>
    BY <2>1, <2>2 DEF Put
  <2>5. NetCoefs(length, net, nCoeffs, cbuf')
    BY <1>4, <2>2 DEF NetCoefs
  <2>6. SetupStage(length, net, nCoeffs, todo', cbuf')
    BY <2>3, <2>5 DEF SetupStage
  <2> QED BY <2>2, <2>6, SetupKeeps
<1>5. CASE net \in {"series", "mixed", "crossfade"} /\ todo = <<ToCoeffs("A", 0), ToCoeffs("B", 0)>>
  <2>1. todo[1] = Call("coeffs2cbuf", <<>>, Coeffs("A", 0), None) /\ Tail(todo) = <<ToCoeffs("B", 0)>>
    BY <1>5 DEF ToCoeffs
  <2>2. Put(<<"A", 0>>) /\ HasCoefs(length, nCoeffs, cbuf', "A", 0)
    BY <2>1, CoeffsDone DEF Coeffs
  <2>3. todo' = <<ToCoeffs("B", 0)>>
    BY <2>1, <2>2 DEF Put
  <2>4. SetupStage(length, net, nCoeffs, todo', cbuf')
    BY <1>5, <2>2, <2>3 DEF SetupStage
  <2> QED BY <2>2, <2>4, SetupKeeps
<1>6. CASE /\ net \in {"series", "mixed", "crossfade"} /\ todo = <<ToCoeffs("B", 0)>>
           /\ HasCoefs(length, nCoeffs, cbuf, "A", 0)
  <2>1. todo[1] = Call("coeffs2cbuf", <<>>, Coeffs("B", 0), None) /\ Tail(todo) = <<>>
    BY <1>6 DEF ToCoeffs
  <2>2. Put(<<"B", 0>>) /\ HasCoefs(length, nCoeffs, cbuf', "B", 0)
    BY <2>1, CoeffsDone DEF Coeffs
  <2>3. todo' = <<>>
    BY <2>1, <2>2 DEF Put
  <2>4. HasCoefs(length, nCoeffs, cbuf', "A", 0)
    BY <1>6, <2>2, SetupKeeps
  <2>5. NetCoefs(length, net, nCoeffs, cbuf')
    BY <1>6, <2>2, <2>4 DEF NetCoefs
  <2>6. SetupStage(length, net, nCoeffs, todo', cbuf')
    BY <2>3, <2>5 DEF SetupStage
  <2> QED BY <2>2, <2>6, SetupKeeps
<1> QED BY <1>0, <1>1, <1>2, <1>3, <1>4, <1>5, <1>6 DEF SetupStage

LEMMA StageStep ==
  ASSUME TypedState, net \in ConvolvingNets, fed # <<>>, NetCoefs(length, net, nCoeffs, cbuf),
         Windows(length, fed, cbuf), Stage(length, realsize, net, nCoeffs, fed, todo, cbuf)
  PROVE  KeptSame /\ Stage(length, realsize, net, nCoeffs, fed, todo', cbuf')
<1>1. CASE net \in {"single", "runtime"}
  BY <1>1, OneStep DEF Stage
<1>2. CASE net = "partitioned"
  <2>1. LongStage(length, nCoeffs, fed, todo, cbuf)
    BY <1>2 DEF Stage
  <2>2. KeptSame /\ LongStage(length, nCoeffs, fed, todo', cbuf')
    BY <1>2, <2>1, LongStep
  <2> QED BY <1>2, <2>2 DEF Stage
<1>3. CASE net \in {"series", "dirac"}
  BY <1>3, TwoStep DEF Stage
<1>4. CASE net = "mixed"
  <2>1. MixedStage(length, realsize, net, nCoeffs, fed, todo, cbuf)
    BY <1>4 DEF Stage
  <2>2. KeptSame /\ MixedStage(length, realsize, net, nCoeffs, fed, todo', cbuf')
    BY <1>4, <2>1, MixedStep
  <2> QED BY <1>4, <2>2 DEF Stage
<1>5. CASE net = "crossfade"
  <2>1. FadeStage(length, realsize, net, nCoeffs, fed, todo, cbuf)
    BY <1>5 DEF Stage
  <2>2. KeptSame /\ FadeStage(length, realsize, net, nCoeffs, fed, todo', cbuf')
    BY <1>5, <2>1, FadeStep
  <2> QED BY <1>5, <2>2 DEF Stage
<1> QED BY <1>1, <1>2, <1>3, <1>4, <1>5 DEF ConvolvingNets

LEMMA ProgressStep ==
  ASSUME TypedState, net \in ConvolvingNets, Progress(length, realsize, net, nCoeffs, fed, todo, cbuf)
  PROVE  /\ UNCHANGED <<length, realsize, net, nCoeffs, subdelay, fed, chosen>>
         /\ Progress(length, realsize, net, nCoeffs, fed, todo', cbuf')
<1>1. CASE fed = <<>>
  <2>1. PICK m : m = Middle(length, net, nCoeffs, fed)
    OBVIOUS
  <2>2. SetupStage(length, net, nCoeffs, todo, cbuf) /\ EvalAt(length, m, 0, cbuf) /\ Windows(length, fed, cbuf)
    BY <1>1, <2>1 DEF Progress
  <2>3. /\ UNCHANGED <<length, realsize, net, nCoeffs, subdelay, fed, chosen>>
        /\ Windows(length, fed, cbuf') /\ EvalAt(length, m, 0, cbuf')
        /\ SetupStage(length, net, nCoeffs, todo', cbuf')
    BY <2>2, SetupStep
  <2> QED BY <1>1, <2>1, <2>3 DEF Progress
<1>2. CASE fed # <<>>
  <2>1. /\ NetCoefs(length, net, nCoeffs, cbuf) /\ Windows(length, fed, cbuf)
        /\ Stage(length, realsize, net, nCoeffs, fed, todo, cbuf)
    BY <1>2 DEF Progress
  <2>2. KeptSame /\ Stage(length, realsize, net, nCoeffs, fed, todo', cbuf')
    BY <1>2, <2>1, StageStep
  <2>3. NetCoefs(length, net, nCoeffs, cbuf') /\ Windows(length, fed, cbuf')
    BY <2>1, <2>2, KeptCoefs, KeptWindows
  <2> QED BY <1>2, <2>2, <2>3 DEF Progress, KeptSame
<1> QED BY <1>1, <1>2

\* What is left of a block when it is done.
LEMMA StageLeft ==
  ASSUME NEW l, NEW rs, NEW nt, NEW nc, NEW f, f # <<>>, NEW cb, Stage(l, rs, nt, nc, f, <<>>, cb)
  PROVE  /\ nt = "partitioned" => InCbuf(l, cb[<<"win", Len(f) % 2>>], Seen(l, Input(l, nt, f), Len(f)))
         /\ nt \in {"series", "dirac"} => EvalAt(l, Middle(l, nt, nc, f), Len(f), cb)
         /\ nt \in ConvolvingNets /\ (nt = "crossfade" => rs = 4) => Out(l, cb, Output(l, nt, nc, f), Len(f))
<1>1. CASE nt \in {"single", "runtime"}
  <2>1. OneStage(l, nt, nc, f, <<>>, cb)
    BY <1>1 DEF Stage
  <2>2. Out(l, cb, Output(l, nt, nc, f), Len(f))
    BY <2>1 DEF OneStage
  <2> QED BY <1>1, <2>2
<1>2. CASE nt = "partitioned"
  <2>1. LongStage(l, nc, f, <<>>, cb)
    BY <1>2 DEF Stage
  <2>2. /\ InCbuf(l, cb[<<"win", Len(f) % 2>>], Seen(l, Input(l, "partitioned", f), Len(f)))
        /\ Out(l, cb, Output(l, "partitioned", nc, f), Len(f))
    BY <2>1 DEF LongStage
  <2> QED BY <1>2, <2>2
<1>3. CASE nt \in {"series", "dirac"}
  <2>1. TwoStage(l, nt, nc, f, <<>>, cb)
    BY <1>3 DEF Stage
  <2>2. EvalAt(l, Middle(l, nt, nc, f), Len(f), cb) /\ Out(l, cb, Output(l, nt, nc, f), Len(f))
    BY <2>1 DEF TwoStage
  <2> QED BY <1>3, <2>2
<1>4. CASE nt = "mixed"
  <2>1. MixedStage(l, rs, nt, nc, f, <<>>, cb)
    BY <1>4 DEF Stage
  <2>2. Out(l, cb, Output(l, nt, nc, f), Len(f))
    BY <2>1 DEF MixedStage
  <2> QED BY <1>4, <2>2
<1>5. CASE nt = "crossfade"
  <2>1. FadeStage(l, rs, nt, nc, f, <<>>, cb)
    BY <1>5 DEF Stage
  <2>2. rs = 4 => Out(l, cb, Output(l, nt, nc, f), Len(f))
    BY <2>1 DEF FadeStage
  <2> QED BY <1>5, <2>2
<1>6. CASE nt \notin ConvolvingNets
  BY <1>6 DEF ConvolvingNets
<1> QED BY <1>1, <1>2, <1>3, <1>4, <1>5, <1>6 DEF ConvolvingNets

\* The calls of a block.
LEMMA StageStarts ==
  ASSUME NEW l, NEW rs, NEW nt \in ConvolvingNets, NEW nc, NEW f, Len(f) \in Nat \ {0}, NEW cb,
         nt = "partitioned" /\ Len(f) > 1 => InCbuf(l, cb[<<"win", (Len(f) - 1) % 2>>], Seen(l, Input(l, nt, f), Len(f) - 1)),
         nt \in {"series", "dirac"} => EvalAt(l, Middle(l, nt, nc, f), Len(f) - 1, cb)
  PROVE  Stage(l, rs, nt, nc, f, Calls(nt, Len(f), 0), cb)
<1>1. CASE nt \in {"single", "runtime"}
  <2>1. OneStage(l, nt, nc, f, Calls(nt, Len(f), 0), cb)
    BY <1>1, OneFilterCalls DEF OneStage, Coeffs
  <2> QED BY <1>1, <2>1 DEF Stage
<1>2. CASE nt = "partitioned"
  <2>1. CASE Len(f) = 1
    <3>1. Calls("partitioned", Len(f), 0) =
            <<Time2FreqOf(1), MixinOf(<<"win", Len(f) % 2>>), ConvolveOf(<<"win", Len(f) % 2>>, <<"acc", 0>>, <<"A", 0>>),
              MixoutOf(<<<<"acc", 0>>>>), Freq2TimeOf>>
      BY <2>1, FirstLongCalls DEF Coeffs
    <3> QED BY <1>2, <2>1, <3>1 DEF LongStage, Stage
  <2>2. CASE Len(f) > 1
    <3>1. Calls("partitioned", Len(f), 0) =
            <<Time2FreqOf(1), MixinOf(<<"win", Len(f) % 2>>), ConvolveOf(<<"win", Len(f) % 2>>, <<"acc", 0>>, <<"A", 0>>),
              AddOf(<<"win", (Len(f) - 1) % 2>>, <<"acc", 0>>, <<"A", 1>>), MixoutOf(<<<<"acc", 0>>>>), Freq2TimeOf>>
      BY <2>2, LongCalls DEF Coeffs
    <3> QED BY <1>2, <2>2, <3>1 DEF LongStage, Stage
  <2>3. \A k \in Nat \ {0} : k = 1 \/ k > 1
    OBVIOUS
  <2>4. Len(f) = 1 \/ Len(f) > 1
    BY ONLY Len(f) \in Nat \ {0}, <2>3
  <2> QED BY ONLY <2>1, <2>2, <2>4
<1>3. CASE nt = "series"
  <2>1. TwoStage(l, nt, nc, f, Calls(nt, Len(f), 0), cb)
    BY <1>3, SeriesCalls DEF TwoStage, FirstCall, SecondCall, Coeffs
  <2> QED BY <1>3, <2>1 DEF Stage
<1>4. CASE nt = "dirac"
  <2>1. TwoStage(l, nt, nc, f, Calls(nt, Len(f), 0), cb)
    BY <1>4, DiracCalls DEF TwoStage, FirstCall, SecondCall, Coeffs
  <2> QED BY <1>4, <2>1 DEF Stage
<1>5. CASE nt = "mixed"
  <2>1. MixedStage(l, rs, nt, nc, f, Calls(nt, Len(f), 0), cb)
    BY <1>5, MixedCalls DEF MixedStage, Coeffs
  <2> QED BY <1>5, <2>1 DEF Stage
<1>6. CASE nt = "crossfade"
  <2>1. FadeStage(l, rs, nt, nc, f, Calls(nt, Len(f), 0), cb)
    BY <1>6, CrossfadeCalls DEF FadeStage, Coeffs
  <2> QED BY <1>6, <2>1 DEF Stage
<1> QED BY <1>1, <1>2, <1>3, <1>4, <1>5, <1>6 DEF ConvolvingNets

LEMMA DivIs ==
  ASSUME NEW b \in Nat \ {0}, NEW q \in Int, NEW r \in 0 .. b - 1, NEW x \in Int, x = q * b + r
  PROVE  x % b = r /\ x \div b = q
<1>1. x % b = r
  BY RemIs
<1>2. PICK d \in Int : d = x \div b /\ x = b * d + r
  BY <1>1, RemFacts
<1>3. b * d = q * b
  <2>1. PICK y \in Int : y = b * d
    BY b \in Int
  <2>2. PICK z \in Int : z = q * b
    BY b \in Int
  <2>3. y + r = z + r
    BY <1>2, <2>1, <2>2
  <2>4. y = z
    BY ONLY <2>1, <2>2, <2>3, r \in Int
  <2> QED BY <2>1, <2>2, <2>4
<1>4. b * (d - q) = 0
  BY <1>2, <1>3, b \in Int
<1>5. d - q = 0
  BY ONLY <1>2, <1>4, b \in Nat \ {0}, q \in Int
<1> QED BY <1>1, <1>2, <1>5

LEMMA RawWindow ==
  ASSUME NEW l \in Lengths, NEW f, Fed(l, f), NEW x \in [0 .. l - 1 -> 0 .. P - 1], NEW c \in Channels,
         NEW i \in 0 .. 2 * l - 1
  PROVE  TimeWin(l, Append(f, x), c)[i] =
           IF i < l THEN TimeWin(l, f, c)[i + l] ELSE x[((i - l) + c - 1) % l]
<1>1. PICK k \in Int : k = Len(f) /\ l \in Nat \ {0} /\ k \in Nat /\ Len(Append(f, x)) = k + 1
  BY SpectrumAssumption DEF Fed
<1>2. TimeWin(l, Append(f, x), c)[i] = Smp(l, Append(f, x), c, (k + 1 - 2) * l + i)
  BY <1>1 DEF TimeWin
<1>3. CASE i < l
  <2>1. PICK t \in Int : t = (k + 1 - 2) * l + i
    BY <1>1
  <2>2. PICK T \in Int : T = k * l
    BY <1>1
  <2>3. t = T - l + i
    BY <1>1, <2>1, <2>2
  <2>4. t < T
    BY ONLY <1>1, <1>3, <2>3, <2>2, t \in Int, i \in 0 .. 2 * l - 1
  <2>5. Smp(l, Append(f, x), c, t) = Smp(l, f, c, t)
    BY <1>1, <2>2, <2>4, SmpGrows
  <2>6. i + l \in 0 .. 2 * l - 1
    BY <1>1, <1>3
  <2>7. TimeWin(l, f, c)[i + l] = Smp(l, f, c, (k - 2) * l + (i + l))
    BY <1>1, <2>6 DEF TimeWin
  <2>8. (k - 2) * l + (i + l) = t
    BY <1>1, <2>1
  <2> QED BY <1>2, <1>3, <2>1, <2>5, <2>7, <2>8
<1>4. CASE ~(i < l)
  <2>1. PICK j : j \in 0 .. l - 1 /\ j = i - l
    BY <1>1, <1>4
  <2>2. (k + 1 - 2) * l + i = k * l + j
    BY <1>1, <2>1
  <2>3. c \in Int
    BY DEF Channels
  <2>5. PICK u : u \in Int /\ u = k * l + j
    BY <1>1, <2>1
  <2>6. ~(u < 0)
    <3>1. k \in Nat /\ l \in Nat
      BY <1>1
    <3>2. PICK T : T = k * l /\ T \in Nat
      BY ONLY <3>1
    <3> QED BY <2>1, <2>5, <3>2
  <2>7. u % l = j /\ u \div l = k
    <3>1. l \in Nat \ {0} /\ k \in Int /\ j \in 0 .. l - 1 /\ u \in Int
      BY <1>1, <2>1, <2>5
    <3>2. u = k * l + j
      BY <2>5
    <3> QED BY ONLY <3>1, <3>2, DivIs
  <2>8. Append(f, x)[k + 1] = x
    BY <1>1 DEF Fed
  <2>4. Smp(l, Append(f, x), c, u) = x[(j + c - 1) % l]
    BY <2>6, <2>7, <2>8 DEF Smp
  <2> QED BY <1>2, <1>4, <2>1, <2>2, <2>4, <2>5
<1> QED BY <1>3, <1>4

\* What was before a block does not change with it.
LEMMA InputSame ==
  ASSUME NEW l \in Lengths, NEW nt, NEW nc \in CoeffLengths, NEW f, Fed(l, f), NEW x \in [0 .. l - 1 -> 0 .. P - 1]
  PROVE  /\ Seen(l, Input(l, nt, Append(f, x)), Len(f)) = Seen(l, Input(l, nt, f), Len(f))
         /\ Block(l, Middle(l, nt, nc, Append(f, x)), Len(f)) = Block(l, Middle(l, nt, nc, f), Len(f))
<1>1. PICK k \in Int, T \in Int : k = Len(f) /\ T = k * l /\ l \in Nat
  <2>1. Len(f) \in Int /\ Len(f) * l \in Int /\ l \in Nat
    BY SignalsAre, LengthIs
  <2> QED BY <2>1
<1>2. PICK s, v : s = Input(l, nt, f) /\ v = Input(l, nt, Append(f, x))
  OBVIOUS
<1>3. Known(s, T) /\ Agree(v, s, T) /\ FirstName(nt) \in Names
  BY <1>1, <1>2, InputGrows, SignalsAre
<1>4. Seen(l, v, k) = Seen(l, s, k)
  BY <1>1, <1>3, SeenIs
<1>5. PICK p, q : p = FltOf(nc, FirstName(nt), s, l) /\ q = FltOf(nc, FirstName(nt), v, l)
  OBVIOUS
<1>6. Known(p, T) /\ Agree(q, p, T)
  BY <1>1, <1>3, <1>5, FltKnown
<1>7. Known(Scaled(OutScale, p), T) /\ Agree(Scaled(OutScale, q), Scaled(OutScale, p), T)
  BY <1>1, <1>6, ScalesAre, ScaledKnown
<1>8. Block(l, Scaled(OutScale, q), k) = Block(l, Scaled(OutScale, p), k)
  BY <1>1, <1>7, BlockIs
<1>9. Middle(l, nt, nc, f) = Scaled(OutScale, p) /\ Middle(l, nt, nc, Append(f, x)) = Scaled(OutScale, q)
  BY <1>2, <1>5 DEF Middle
<1> QED BY <1>1, <1>2, <1>4, <1>8, <1>9

\* The buffers when the next block is taken.
LEMMA BlockTaken ==
  ASSUME TypeInv, NEW x \in Blocks(length), TakeBlock(x), net \in ConvolvingNets,
         Progress(length, realsize, net, nCoeffs, fed, todo, cbuf)
  PROVE  /\ UNCHANGED <<length, realsize, net, nCoeffs>>
         /\ Progress(length, realsize, net, nCoeffs, fed', todo', cbuf')
<1> DEFINE l == length
           g == Append(fed, x)
<1>0. NextBlock(x, 0) /\ length \in Lengths /\ Fed(l, fed) /\ nCoeffs \in CoeffLengths
      /\ cbuf \in [Buffers -> [Whole -> Field]]
  BY DEF TakeBlock, TypeInv
<1>1. /\ todo = <<>> /\ fed' = g /\ todo' = Calls(net, Len(fed) + 1, 0)
      /\ UNCHANGED <<length, realsize, net, nCoeffs>> /\ x \in [0 .. l - 1 -> 0 .. P - 1]
  BY <1>0, 0 \in Int, BlockTyped DEF NextBlock
<1>2. /\ Len(g) = Len(fed) + 1 /\ Len(fed) \in Nat /\ g # <<>> /\ Fed(l, g)
      /\ fed # <<>> => Len(fed) > 0
  BY <1>0, <1>1 DEF Fed
<1>3. \A b \in Buffers : cbuf'[b] = IF b[1] = "time" THEN RawToCbuf(b[2], x) ELSE cbuf[b]
  BY DEF TakeBlock
<1>4. Windows(l, g, cbuf')
  <2>1. ASSUME NEW c \in Channels, NEW i \in 0 .. 2 * l - 1
        PROVE  cbuf'[<<"time", c>>][i] = TimeWin(l, g, c)[i]
    <3>1. cbuf'[<<"time", c>>] = RawToCbuf(c, x)
      BY <1>3, BufferNames
    <3>2. RawToCbuf(c, x)[i] = IF i < l THEN cbuf[<<"time", c>>][i + l] ELSE ChannelBlock(x, c)[i - l]
      BY DEF RawToCbuf, Whole, NFft
    <3>3. TimeWin(l, g, c)[i] = IF i < l THEN TimeWin(l, fed, c)[i + l] ELSE x[((i - l) + c - 1) % l]
      BY <1>0, <1>1, RawWindow
    <3>4. l \in Nat \ {0}
      BY <1>0, SpectrumAssumption
    <3>5. CASE i < l
      <4>1. i + l \in 0 .. 2 * l - 1
        BY <3>4, <3>5
      <4>2. cbuf[<<"time", c>>][i + l] = TimeWin(l, fed, c)[i + l]
        BY <4>1 DEF Progress, Windows
      <4> QED BY <3>1, <3>2, <3>3, <3>5, <4>2
    <3>6. CASE ~(i < l)
      <4>1. PICK j : j \in 0 .. l - 1 /\ j = i - l
        BY <3>4, <3>6
      <4>2. ChannelBlock(x, c)[j] = x[(j + c - 1) % l]
        BY <1>0, <1>1, <4>1, ChannelBlockIs
      <4> QED BY <3>1, <3>2, <3>3, <3>6, <4>1, <4>2
    <3> QED BY <3>5, <3>6
  <2> QED BY <2>1 DEF Windows
<1>5. \A b \in Buffers : b[1] # "time" => cbuf'[b] = cbuf[b]
  BY <1>3
<1>6. NetCoefs(l, net, nCoeffs, cbuf')
  <2>1. NetCoefs(l, net, nCoeffs, cbuf)
    <3>1. CASE fed = <<>>
      <4>1. SetupStage(l, net, nCoeffs, <<>>, cbuf)
        BY <1>1, <3>1 DEF Progress
      <4> QED BY <4>1 DEF SetupStage
    <3>2. CASE fed # <<>>
      BY <3>2 DEF Progress
    <3> QED BY <3>1, <3>2
  <2>2. /\ cbuf'[<<"A", 0>>] = cbuf[<<"A", 0>>] /\ cbuf'[<<"A", 1>>] = cbuf[<<"A", 1>>]
        /\ cbuf'[<<"B", 0>>] = cbuf[<<"B", 0>>] /\ cbuf'[<<"dump", 0>>] = cbuf[<<"dump", 0>>]
    BY <1>5, BufferNames
  <2> QED BY <2>1, <2>2 DEF NetCoefs, HasCoefs, DumpedAll
<1>7. net = "partitioned" /\ fed # <<>> =>
        InCbuf(l, cbuf'[<<"win", Len(fed) % 2>>], Seen(l, Input(l, net, g), Len(fed)))
  <2>1. SUFFICES ASSUME net = "partitioned", fed # <<>>
                 PROVE  InCbuf(l, cbuf'[<<"win", Len(fed) % 2>>], Seen(l, Input(l, net, g), Len(fed)))
    OBVIOUS
  <2>2. Stage(l, realsize, net, nCoeffs, fed, <<>>, cbuf)
    BY <1>1, <2>1 DEF Progress
  <2>3. InCbuf(l, cbuf[<<"win", Len(fed) % 2>>], Seen(l, Input(l, net, fed), Len(fed)))
    BY <2>1, <2>2, StageLeft
  <2>4. cbuf'[<<"win", Len(fed) % 2>>] = cbuf[<<"win", Len(fed) % 2>>]
    <3>1. PICK i : i \in {0, 1} /\ i = Len(fed) % 2
      BY <1>2
    <3>2. <<"win", i>> \in Buffers
      BY <3>1, BufferNames
    <3> QED BY <1>5, <3>1, <3>2
  <2>5. Seen(l, Input(l, net, g), Len(fed)) = Seen(l, Input(l, net, fed), Len(fed))
    BY <1>0, <1>1, InputSame
  <2> QED BY <2>3, <2>4, <2>5
<1>8. net \in {"series", "dirac"} => EvalAt(l, Middle(l, net, nCoeffs, g), Len(fed), cbuf')
  <2>1. SUFFICES ASSUME net \in {"series", "dirac"}
                 PROVE  EvalAt(l, Middle(l, net, nCoeffs, g), Len(fed), cbuf')
    OBVIOUS
  <2>2. EvalAt(l, Middle(l, net, nCoeffs, fed), Len(fed), cbuf)
    <3>1. CASE fed = <<>>
      <4>1. Len(fed) = 0
        BY <3>1
      <4> QED BY <3>1, <4>1 DEF Progress
    <3>2. CASE fed # <<>>
      <4>1. Stage(l, realsize, net, nCoeffs, fed, <<>>, cbuf)
        BY <1>1, <3>2 DEF Progress
      <4> QED BY <2>1, <3>2, <4>1, StageLeft
    <3> QED BY <3>1, <3>2
  <2>3. cbuf'[<<"eval", 0>>] = cbuf[<<"eval", 0>>]
    BY <1>5, BufferNames
  <2>4. Block(l, Middle(l, net, nCoeffs, g), Len(fed)) = Block(l, Middle(l, net, nCoeffs, fed), Len(fed))
    BY <1>0, <1>1, InputSame
  <2> QED BY <2>2, <2>3, <2>4 DEF EvalAt
<1>9. Stage(l, realsize, net, nCoeffs, g, todo', cbuf')
  <2>1. PICK k \in Nat : k = Len(fed) /\ Len(g) = k + 1 /\ Len(g) - 1 = k /\ Len(g) \in Nat \ {0}
                        /\ (k + 1 > 1 => fed # <<>>)
    BY <1>2
  <2>2. net = "partitioned" /\ Len(g) > 1 =>
          InCbuf(l, cbuf'[<<"win", (Len(g) - 1) % 2>>], Seen(l, Input(l, net, g), Len(g) - 1))
    BY <1>7, <2>1
  <2>3. net \in {"series", "dirac"} => EvalAt(l, Middle(l, net, nCoeffs, g), Len(g) - 1, cbuf')
    BY <1>8, <2>1
  <2>4. Stage(l, realsize, net, nCoeffs, g, Calls(net, Len(g), 0), cbuf')
    BY <2>1, <2>2, <2>3, StageStarts
  <2> QED BY <1>1, <1>2, <2>4
<1>10. Progress(l, realsize, net, nCoeffs, g, todo', cbuf')
  BY <1>2, <1>4, <1>6, <1>9 DEF Progress
<1> QED BY <1>1, <1>10

\* The inductive invariant of the networks that convolve: between any two calls,
\* each buffer holds what the calls made so far have to leave in it.
ConvolvingInv ==
  /\ TypeInv
  /\ net # "subsample" => Progress(length, realsize, net, nCoeffs, fed, todo, cbuf)

LEMMA ConvolvingInvInit == Init => ConvolvingInv
BY TypeInvInit, ProgressInit DEF ConvolvingInv

LEMMA ConvolvingInvNext == ConvolvingInv /\ [Next]_vars => ConvolvingInv'
<1> SUFFICES ASSUME ConvolvingInv, [Next]_vars
             PROVE  ConvolvingInv'
  OBVIOUS
<1>0. TypeInv /\ TypeInv' /\ (net # "subsample" => net \in ConvolvingNets)
  BY TypeInvNext, SpectrumAssumption DEF ConvolvingInv, TypeInv, ConvolvingNets
<1>1. CASE UNCHANGED vars
  BY <1>0, <1>1 DEF vars, ConvolvingInv
<1>2. CASE Next /\ todo # <<>>
  <2>1. cbuf' \in [Buffers -> [Whole -> Field]] /\ UNCHANGED <<length, realsize, net, nCoeffs, subdelay, fed, chosen>>
    BY <1>0, <1>2, CallTyped
  <2>2. ASSUME net # "subsample"
        PROVE  Progress(length, realsize, net, nCoeffs, fed, todo', cbuf')
    <3>1. TypedState
      BY <1>0, <1>2 DEF TypedState, TypeInv
    <3> QED BY <1>0, <2>2, <3>1, ProgressStep DEF ConvolvingInv
  <2> QED BY <1>0, <2>1, <2>2 DEF ConvolvingInv
<1>3. CASE Next /\ todo = <<>>
  <2>1. \/ \E x \in Blocks(length) : TakeBlock(x)
        \/ \E x \in Blocks(length) : \E s \in -StepCount .. StepCount : SubsampleUpdate(x, s)
    BY <1>3 DEF Next, ToCbuf, RuntimeToCbuf, Dump, Time2FreqCall, Freq2TimeCall, MixInputCall, MixOutputCall,
         ConvolveCall, ConvolveAddCall, ConvolveInplaceCall, DiracConvolveCall, CrossfadeCall, EvalCall, TdNew,
         SubsampleTurn, Does
  <2>2. CASE \E x \in Blocks(length) : TakeBlock(x)
    <3>1. PICK x \in Blocks(length) : TakeBlock(x)
      BY <2>2
    <3>2. net # "subsample"
      BY <3>1 DEF TakeBlock
    <3>3. /\ UNCHANGED <<length, realsize, net, nCoeffs>>
          /\ Progress(length, realsize, net, nCoeffs, fed', todo', cbuf')
      BY <1>0, <3>1, <3>2, BlockTaken DEF ConvolvingInv
    <3> QED BY <1>0, <3>3 DEF ConvolvingInv
  <2>3. CASE \E x \in Blocks(length) : \E s \in -StepCount .. StepCount : SubsampleUpdate(x, s)
    <3>1. net = "subsample" /\ net' = net
      BY <2>3 DEF SubsampleUpdate, NextBlock
    <3> QED BY <1>0, <3>1 DEF ConvolvingInv
  <2> QED BY <2>1, <2>2, <2>3
<1> QED BY <1>1, <1>2, <1>3

LEMMA ConvolvingInvAlways == Spec => []ConvolvingInv
BY ConvolvingInvInit, ConvolvingInvNext, PTL DEF Spec

LEMMA SampleIs ==
  ASSUME length \in Lengths, NEW c \in Int, NEW t \in Int
  PROVE  Sample(c, t) = Smp(length, fed, c, t)
<1>1. length \in Nat \ {0}
  BY SpectrumAssumption
<1>2. PICK r : r = t % length /\ r \in Half
  BY <1>1 DEF Half
<1> QED BY <1>2 DEF Sample, ChannelBlock, Smp

LEMMA SignalIs ==
  ASSUME length \in Lengths, NEW t \in Int
  PROVE  Signal(t) = Input(length, net, fed)[t]
<1>1. \A c \in 0 .. 2 : Sample(c + 1, t) = Smp(length, fed, c + 1, t)
  BY SampleIs
<1>2. Sample(1, t) = Smp(length, fed, 1, t)
  BY SampleIs, 1 \in Int
<1>3. [c \in 0 .. 2 |-> (InScale + c) * Sample(c + 1, t)] = [c \in 0 .. 2 |-> (InScale + c) * Smp(length, fed, c + 1, t)]
  BY <1>1
<1> QED BY <1>2, <1>3 DEF Signal, Input, Sig

LEMMA FilterSignal ==
  ASSUME length \in Lengths, NEW name \in {"A", "B"}, NEW t \in Int
  PROVE  Filter(name, t, Signal) = FltOf(nCoeffs, name, Input(length, net, fed), TapCount)[t]
<1> DEFINE s == Input(length, net, fed)
<1>1. TapCount \in Nat
  BY SpectrumAssumption DEF TapCount
<1>2. ASSUME NEW i \in 0 .. TapCount - 1
      PROVE  (IF i < nCoeffs THEN CoeffScale * Taps(name, i) ELSE 0) * Signal(t - i) = Tap(nCoeffs, name, i) * s[t - i]
  <2>1. Signal(t - i) = s[t - i]
    BY <1>1, SignalIs
  <2>2. Tap(nCoeffs, name, i) = IF i < nCoeffs THEN CoeffScale * Taps(name, i) ELSE 0
    BY DEF Tap
  <2> QED BY <2>1, <2>2
<1>3. [i \in 0 .. TapCount - 1 |-> (IF i < nCoeffs THEN CoeffScale * Taps(name, i) ELSE 0) * Signal(t - i)]
      = FltTerms(nCoeffs, name, s, TapCount, t)
  BY <1>2 DEF FltTerms
<1>4. Filter(name, t, Signal) =
        Sum([i \in 0 .. TapCount - 1 |-> (IF i < nCoeffs THEN CoeffScale * Taps(name, i) ELSE 0) * Signal(t - i)], TapCount)
  BY DEF Filter, Direct
<1> QED BY <1>3, <1>4 DEF FltOf

\* The second of two filters in series.
LEMMA FilterBetween ==
  ASSUME length \in Lengths, NEW t \in Int, NEW m,
         \A u \in Int : u <= t => m[u] = OutScale * InScale * Filter("A", u, Signal)
  PROVE  LET between(u) == OutScale * InScale * Filter("A", u, Signal)
         IN  Filter("B", t, between) = FltOf(nCoeffs, "B", m, TapCount)[t]
<1>1. TapCount \in Nat
  BY SpectrumAssumption DEF TapCount
<1>2. ASSUME NEW i \in 0 .. TapCount - 1
      PROVE  (IF i < nCoeffs THEN CoeffScale * Taps("B", i) ELSE 0) * (OutScale * InScale * Filter("A", t - i, Signal))
             = Tap(nCoeffs, "B", i) * m[t - i]
  <2>1. t - i \in Int /\ t - i <= t
    BY <1>1
  <2>2. m[t - i] = OutScale * InScale * Filter("A", t - i, Signal)
    BY <2>1
  <2>3. Tap(nCoeffs, "B", i) = IF i < nCoeffs THEN CoeffScale * Taps("B", i) ELSE 0
    BY DEF Tap
  <2> QED BY <2>2, <2>3
<1>3. [i \in 0 .. TapCount - 1 |->
         (IF i < nCoeffs THEN CoeffScale * Taps("B", i) ELSE 0) * (OutScale * InScale * Filter("A", t - i, Signal))]
      = FltTerms(nCoeffs, "B", m, TapCount, t)
  BY <1>2 DEF FltTerms
<1> DEFINE between(u) == OutScale * InScale * Filter("A", u, Signal)
<1>4. Filter("B", t, between) =
        Sum([i \in 0 .. TapCount - 1 |->
               (IF i < nCoeffs THEN CoeffScale * Taps("B", i) ELSE 0) * between(t - i)], TapCount)
  BY DEF Filter, Direct
<1>5. Filter("B", t, between) = FltOf(nCoeffs, "B", m, TapCount)[t]
  BY <1>3, <1>4 DEF FltOf
<1> QED BY <1>5

LEMMA ExpectedIs ==
  ASSUME length \in Lengths, nCoeffs \in CoeffLengths, net \in ConvolvingNets, Fed(length, fed),
         NEW t \in Int, t < Len(fed) * length
  PROVE  Expected(t) \in Int /\ Eq(Output(length, net, nCoeffs, fed)[t], Expected(t))
<1> DEFINE s == Input(length, net, fed)
           a == FltOf(nCoeffs, "A", s, length)[t]
           b == FltOf(nCoeffs, "B", s, length)[t]
<1>0. OutScale \in Int /\ InScale \in Int /\ length \in Nat /\ length >= 4 /\ length % 4 = 0
  BY SpectrumAssumption
<1>1. PICK T \in Int : T = Len(fed) * length /\ t < T /\ Known(s, T)
  BY SignalsAre
<1>2. net # "partitioned" => TapCount = length
  BY DEF TapCount
<1>3. a \in Int /\ b \in Int
  BY <1>1, SignalsAre DEF Known
<1>4. /\ net # "partitioned" => Filter("A", t, Signal) = a /\ Filter("B", t, Signal) = b
  BY <1>2, FilterSignal
<1>5. CASE net \in {"single", "runtime"}
  <2>1. Expected(t) = OutScale * a
    BY <1>4, <1>5 DEF Expected
  <2>2. Output(length, net, nCoeffs, fed)[t] = OutScale * a
    BY <1>5 DEF Output, Scaled
  <2> QED BY <1>0, <1>3, <2>1, <2>2 DEF Eq
<1>6. CASE net = "partitioned"
  <2>1. TapCount = 2 * length
    BY <1>6 DEF TapCount
  <2>2. PICK v \in Int : v = FltOf(nCoeffs, "A", s, 2 * length)[t]
    BY <1>1, SignalsAre DEF Known
  <2>3. Expected(t) = OutScale * v
    BY <1>6, <2>1, <2>2, FilterSignal DEF Expected
  <2>4. Output(length, net, nCoeffs, fed)[t] = OutScale * v
    BY <1>6, <2>2 DEF Output, Scaled
  <2> QED BY <1>0, <2>3, <2>4 DEF Eq
<1>7. CASE net = "series"
  <2>1. PICK m : m = Scaled(InScale, Middle(length, net, nCoeffs, fed))
    OBVIOUS
  <2>2. ASSUME NEW u \in Int, u <= t
        PROVE  m[u] = OutScale * InScale * Filter("A", u, Signal)
    <3>0. u < T
      BY <1>1, <2>2
    <3>5. Known(FltOf(nCoeffs, "A", s, length), T)
      BY <1>1, SignalsAre
    <3>1. PICK y \in Int : y = FltOf(nCoeffs, "A", s, length)[u]
      BY <3>0, <3>5 DEF Known
    <3>2. m[u] = InScale * (OutScale * y)
      BY <1>7, <2>1, <3>1 DEF Middle, Scaled, FirstName
    <3>3. Filter("A", u, Signal) = y
      BY <1>2, <1>7, <3>1, FilterSignal
    <3>4. InScale * (OutScale * y) = OutScale * InScale * y
      BY ONLY <1>0, <3>1
    <3> QED BY <3>2, <3>3, <3>4
  <2>3. PICK v : v = FltOf(nCoeffs, "B", m, length)[t] /\ v \in Int
    BY <1>1, <2>1, SignalsAre DEF Known
  <2>4. Expected(t) = OutScale * v
    BY <1>2, <1>7, <2>2, <2>3, FilterBetween DEF Expected
  <2>5. Output(length, net, nCoeffs, fed)[t] = OutScale * v
    BY <1>7, <2>1, <2>3 DEF Output, Scaled, SecondName
  <2> QED BY <1>0, <2>3, <2>4, <2>5 DEF Eq
<1>8. CASE net = "dirac"
  <2>1. PICK m, v, p, q : /\ v = FltOf(nCoeffs, "D", s, length) /\ p = Scaled(OutScale, v)
                          /\ m = Scaled(InScale, p) /\ q = FltOf(nCoeffs, "D", m, length)[t]
    OBVIOUS
  <2>2. "D" \in Names
    BY DEF Names
  <2>3. v[t] = Sum(FltTerms(nCoeffs, "D", s, length, t), length) /\ q = Sum(FltTerms(nCoeffs, "D", m, length, t), length)
    BY <2>1 DEF FltOf
  <2>4. Known(v, T) /\ Known(p, T) /\ Known(m, T)
    <3>1. Known(v, T)
      BY <1>0, <1>1, <2>1, <2>2, FltKnown
    <3>2. Known(p, T)
      BY <1>0, <1>1, <2>1, <3>1, ScaledKnown
    <3> QED BY <1>0, <1>1, <2>1, <3>1, <3>2, ScaledKnown
  <2>5. Eq(v[t], s[t]) /\ Eq(q, m[t])
    BY <1>1, <2>3, <2>4, DiracTerms
  <2>6. m[t] = InScale * (OutScale * v[t])
    BY <2>1 DEF Scaled
  <2>7. PICK x \in Int, y \in Int, z \in Int : x = s[t] /\ y = v[t] /\ z = m[t]
    BY <1>1, <2>4 DEF Known
  <2>8. Expected(t) = OutScale * InScale * OutScale * x
    BY <1>8, <2>7, SignalIs DEF Expected
  <2>9. Output(length, net, nCoeffs, fed)[t] = OutScale * q
    BY <1>8, <2>1 DEF Output, Middle, Scaled, FirstName, SecondName
  <2>10. q \in Int
    BY <1>0, <1>1, <2>1, <2>2, <2>4, FltKnown DEF Known
  <2>11. Eq(OutScale * q, OutScale * InScale * OutScale * x)
    <3>1. z = InScale * (OutScale * y)
      BY <2>6, <2>7
    <3>2. Eq(OutScale * InScale * OutScale * y, OutScale * InScale * OutScale * x)
      <4>1. PICK c \in Int : c = OutScale * InScale * OutScale
        BY <1>0
      <4> QED BY <2>5, <2>7, <4>1, EqScaled
    <3>3. Eq(OutScale * q, OutScale * z)
      BY <1>0, <2>5, <2>7, <2>10, EqScaled
    <3>4. OutScale * z = OutScale * InScale * OutScale * y
      BY ONLY <1>0, <3>1, y \in Int
    <3> QED BY <3>2, <3>3, <3>4 DEF Eq
  <2>12. OutScale * InScale * OutScale * x \in Int
    BY <1>0
  <2> QED BY <2>8, <2>9, <2>11, <2>12
<1>9. CASE net = "mixed"
  <2>1. Expected(t) = OutScale * a + (OutScale + 1) * b
    BY <1>4, <1>9 DEF Expected
  <2>2. Output(length, net, nCoeffs, fed)[t] = a * OutScale + b * (OutScale + 1)
    BY <1>9 DEF Output, Added
  <2>3. a * OutScale + b * (OutScale + 1) = OutScale * a + (OutScale + 1) * b
        /\ OutScale * a + (OutScale + 1) * b \in Int
    BY <1>0, <1>3
  <2> QED BY <2>1, <2>2, <2>3 DEF Eq
<1>10. CASE net = "crossfade"
  <2>1. PICK i, r : i \in Int /\ r \in Int /\ i = Inverse(length - 1) /\ r = t % length
    <3>1. Inverse(length - 1) \in Int
      BY FadeIs
    <3>2. length \in Nat \ {0}
      BY <1>0
    <3>3. t % length \in Int
      BY <3>2, RemFacts
    <3> QED BY <3>1, <3>3
  <2>2. Expected(t) = OutScale * ((1 - i * r) * a + i * r * b)
    BY <1>4, <1>10, <2>1 DEF Expected
  <2>3. Output(length, net, nCoeffs, fed)[t] = OutScale * (a * (1 - i * r) + b * i * r)
    BY <1>10, <2>1 DEF Output, Scaled, Fading
  <2>4. PICK x, y : x \in Int /\ y \in Int /\ x = a /\ y = b
    BY <1>3
  <2>5. x * (1 - i * r) + y * i * r = (1 - i * r) * x + i * r * y /\ (1 - i * r) * x + i * r * y \in Int
    BY ONLY <2>1, <2>4
  <2>6. OutScale * ((1 - i * r) * x + i * r * y) \in Int
    BY <1>0, <2>5
  <2> QED BY <2>2, <2>3, <2>4, <2>5, <2>6 DEF Eq
<1> QED BY <1>5, <1>6, <1>7, <1>8, <1>9, <1>10 DEF ConvolvingNets

LEMMA ConvolvingInvOutput == ConvolvingInv => OutputIsConvolution
<1> SUFFICES ASSUME ConvolvingInv
             PROVE  OutputIsConvolution
  OBVIOUS
<1>0. TypeOK /\ length \in Lengths /\ nCoeffs \in CoeffLengths /\ Fed(length, fed) /\ length \in Nat \ {0}
      /\ (net # "subsample" => net \in ConvolvingNets)
  <2>1. TypeInv
    BY DEF ConvolvingInv
  <2>2. TypeOK
    BY <2>1, TypeInvTypes
  <2>3. length \in Lengths /\ nCoeffs \in CoeffLengths /\ Fed(length, fed) /\ net \in Nets
    BY <2>1 DEF TypeInv
  <2>4. length \in Nat \ {0}
    BY <2>3, SpectrumAssumption
  <2>5. net # "subsample" => net \in ConvolvingNets
    BY <2>3, SpectrumAssumption DEF ConvolvingNets
  <2> QED BY <2>2, <2>3, <2>4, <2>5
<1>1. ASSUME Done, net # "subsample"
      PROVE  /\ NetCoefs(length, net, nCoeffs, cbuf)
             /\ (net = "crossfade" => realsize = 4) => Out(length, cbuf, Output(length, net, nCoeffs, fed), Len(fed))
  <2>1. fed # <<>> /\ todo = <<>> /\ Progress(length, realsize, net, nCoeffs, fed, <<>>, cbuf)
    BY <1>1 DEF Done, ConvolvingInv
  <2>2. NetCoefs(length, net, nCoeffs, cbuf) /\ Stage(length, realsize, net, nCoeffs, fed, <<>>, cbuf)
    BY <2>1 DEF Progress
  <2> QED BY <1>0, <1>1, <2>1, <2>2, StageLeft
<1>2. ASSUME Done, net # "subsample", net = "crossfade" => realsize = 4, NEW j \in Half
      PROVE  cbuf[<<"otime", 0>>][j] = Expected(Time(j)) % P
  <2>1. j \in 0 .. length - 1
    BY DEF Half
  <2>2. PICK o : /\ o = cbuf[<<"otime", 0>>][j] /\ o \in Field
                 /\ Eq(o, Block(length, Output(length, net, nCoeffs, fed), Len(fed))[j])
    BY <1>1, <1>2, <2>1 DEF Out
  <2>3. PICK t : t = (Len(fed) - 1) * length + j /\ t \in Int /\ t < Len(fed) * length
    <3>1. Len(fed) \in Int
      BY <1>0, SignalsAre
    <3>2. PICK k : k \in Int /\ k = Len(fed)
      BY <3>1
    <3>3. (k - 1) * length + j \in Int /\ (k - 1) * length + j < k * length
      <4>1. PICK T : T \in Int /\ T = k * length
        BY <1>0, <3>2
      <4>2. (k - 1) * length = T - length
        BY <1>0, <3>2, <4>1
      <4> QED BY ONLY <1>0, <2>1, <4>1, <4>2
    <3> QED BY <3>2, <3>3
  <2>4. Block(length, Output(length, net, nCoeffs, fed), Len(fed))[j] = Output(length, net, nCoeffs, fed)[t]
    BY <2>1, <2>3 DEF Block
  <2>5. PICK e : e = Expected(t) /\ e \in Int /\ Eq(Output(length, net, nCoeffs, fed)[t], e)
    BY <1>0, <1>2, <2>3, ExpectedIs
  <2>6. Eq(o, e)
    BY <2>2, <2>4, <2>5 DEF Eq
  <2>7. o = e % P
    BY <2>2, <2>5, <2>6, EqRemainder DEF Eq, Field
  <2>8. Time(j) = t
    BY <2>3 DEF Time
  <2> QED BY <2>2, <2>5, <2>7, <2>8
<1>3. ASSUME Done, net = "single", NEW i \in Half
      PROVE  cbuf[<<"dump", 0>>][i] = IF i < nCoeffs THEN (CoeffScale * Taps("A", i)) % P ELSE 0
  <2>1. i \in 0 .. length - 1 /\ i \in Nat
    BY DEF Half
  <2>2. DumpedAll(length, nCoeffs, cbuf)
    BY <1>1, <1>3 DEF NetCoefs
  <2>3. PICK o : o = cbuf[<<"dump", 0>>][i] /\ o \in Field /\ Eq(o, CoefVec(length, nCoeffs, "A", 0)[i])
    BY <2>1, <2>2 DEF DumpedAll
  <2>4. CoefVec(length, nCoeffs, "A", 0)[i] = Tap(nCoeffs, "A", i)
    <3>1. 0 * length + i = i
      BY <1>0, <2>1
    <3> QED BY <2>1, <3>1 DEF CoefVec
  <2>5. PICK e : e = Tap(nCoeffs, "A", i) /\ e \in Int
    BY <1>0, <2>1, TapIs DEF Names
  <2>6. o = e % P
    BY <2>3, <2>4, <2>5, EqRemainder DEF Eq, Field
  <2>7. e = IF i < nCoeffs THEN CoeffScale * Taps("A", i) ELSE 0
    BY <2>5 DEF Tap
  <2>8. 0 % P = 0
    <3>1. 0 \in Int /\ 0 \in 0 .. P - 1
      BY PNat
    <3> QED BY <3>1, EqRemainder
  <2> QED BY <2>3, <2>6, <2>7, <2>8
<1> QED BY <1>0, <1>2, <1>3 DEF OutputIsConvolution

\* For every length, scale, set of coefficients and input: whatever network
\* the calls are put together to, the block that comes out is the convolution
\* of all that was given with the coefficients, over the edges of the blocks
\* (fftw_convolver.cpp:152-403, 474-567, 858-1556), crossfades in floats go
\* from the one to the other (268-321), and what is dumped are the
\* coefficients (604-651).
THEOREM SpectrumConvolves == Spec => []OutputIsConvolution
BY ConvolvingInvAlways, ConvolvingInvOutput, PTL

-----------------------------------------------------------------------------
(* The subsample delay: a transform of eight points.                       *)

LEMMA UnpairedEight ==
  ASSUME NEW l \in Lengths, NEW x, Ints(x, 8)
  PROVE  Eq(Im(8, x, 0), 0) /\ Eq(Im(8, x, 4), 0)
<1>1. 8 \in Transforms /\ 8 \in Nat /\ 8 \div 2 = 4
  BY SubTransforms
<1>2. ASSUME NEW k \in Int, \A j \in Int : Eq(SS(8, j * k), 0)
      PROVE  Eq(Im(8, x, k), 0)
  <2> DEFINE f == ImTerms(8, x, k)
  <2>1. Ints(f, 8)
    BY <1>1, PartsAre
  <2>2. ASSUME NEW j \in 0 .. 8 - 1
        PROVE  Eq(f[j], 0)
    <3>1. PICK a, s \in Int : a = x[j] /\ s = SS(8, j * k)
      <4>1. x[j] \in Int /\ j * k \in Int
        BY DEF Ints
      <4>2. SS(8, j * k) \in Int
        BY <1>1, <4>1, TrigIs
      <4> QED BY <4>1, <4>2
    <3>2. Eq(s, 0) /\ f[j] = a * s
      BY <1>2, <3>1 DEF ImTerms
    <3>3. Eq(a * s, a * 0)
      BY 0 \in Int, <3>1, <3>2, EqScaled
    <3> QED BY <3>2, <3>3
  <2>3. Eq(Sum(f, 8), 8 * 0)
    <3> HIDE DEF f
    <3> QED BY 0 \in Int, <1>1, <2>1, <2>2, SumConstant
  <2> QED BY <2>3 DEF Im
<1>3. \A j \in Int : Eq(SS(8, j * 0), 0)
  <2>1. Eq(SS(8, 0), 0)
    BY <1>1, TrigAtZero
  <2> QED BY <2>1
<1>4. \A j \in Int : Eq(SS(8, j * 4), 0)
  BY <1>1, TrigAtHalf
<1>5. Eq(Im(8, x, 0), 0)
  BY 0 \in Int, <1>2, <1>3
<1>6. Eq(Im(8, x, 4), 0)
  BY 4 \in Int, <1>2, <1>4
<1> QED BY <1>5, <1>6

LEMMA EightSpectral ==
  ASSUME NEW x, NEW k \in 0 .. 4
  PROVE  /\ Spectral(8, x, k) = Re(8, x, k)
         /\ k \in 1 .. 3 => Spectral(8, x, 8 - k) = -Im(8, x, k)
<1>1. k <= 8 \div 2
  OBVIOUS
<1>2. k \in 1 .. 3 => ~(8 - k <= 8 \div 2) /\ 8 - (8 - k) = k
  OBVIOUS
<1> QED BY <1>1, <1>2 DEF Spectral

\* convolve_inplace_ordered multiplies spectra.
LEMMA OrderedProduct ==
  ASSUME NEW l \in Lengths, NEW x, NEW h, Ints(x, 8), Ints(h, 8),
         NEW b, NEW c, Ordered(8, b, x), Ordered(8, c, h)
  PROVE  Ints(Cyc(8, x, h), 8) /\ Ordered(8, ConvolveOrdered(8, b, c), Cyc(8, x, h))
<1> DEFINE y == Cyc(8, x, h)
           v == ConvolveOrdered(8, b, c)
<1>1. 8 \in Transforms /\ 8 \in Nat \ {0} /\ 8 \div 2 = 4
  BY SubTransforms
<1>2. Ints(y, 8)
  BY <1>1, CycIs
<1>a. \A k \in 0 .. 7 : b[k] \in Int /\ c[k] \in Int /\ Eq(b[k], Spectral(8, x, k)) /\ Eq(c[k], Spectral(8, h, k))
  BY DEF Ordered
<1>3. ASSUME NEW k \in 0 .. 4
      PROVE  /\ v[k] \in Int /\ Eq(v[k], Spectral(8, y, k))
             /\ k \in 1 .. 3 => v[8 - k] \in Int /\ Eq(v[8 - k], Spectral(8, y, 8 - k))
  <2>0. k \in 0 .. 7 /\ k \in Int /\ (k \in 1 .. 3 => 8 - k \in 0 .. 7)
    OBVIOUS
  <2>4. PICK rx, ix, rh, ih \in Int :
           rx = Re(8, x, k) /\ ix = Im(8, x, k) /\ rh = Re(8, h, k) /\ ih = Im(8, h, k)
    <3>1. Re(8, x, k) \in Int /\ Im(8, x, k) \in Int
      BY <1>1, <2>0, PartsAre
    <3>2. Re(8, h, k) \in Int /\ Im(8, h, k) \in Int
      BY <1>1, <2>0, PartsAre
    <3> QED BY <3>1, <3>2
  <2>5. PICK u, w \in Int : u = b[k] /\ w = c[k] /\ Eq(u, rx) /\ Eq(w, rh)
    BY <1>a, <2>0, <2>4, EightSpectral
  <2>6. PICK rr, ii \in Int :
          rr = Re(8, y, k) /\ ii = Im(8, y, k) /\ Eq(rr, rx * rh - ix * ih) /\ Eq(ii, ix * rh + rx * ih)
    <3>1. Eq(Re(8, y, k), rx * rh - ix * ih) /\ Eq(Im(8, y, k), ix * rh + rx * ih)
      BY <1>1, <2>0, <2>4, CycParts
    <3>3. Re(8, y, k) \in Int /\ Im(8, y, k) \in Int
      <4> HIDE DEF y
      <4> QED BY <1>1, <1>2, <2>0, PartsAre
    <3> QED BY <3>1, <3>3
  <2>7. Spectral(8, y, k) = rr /\ (k \in 1 .. 3 => Spectral(8, y, 8 - k) = -ii)
    BY <2>6, EightSpectral
  <2> HIDE DEF y
  <2>8. CASE k = 0 \/ k = 4
    <3>1. v[k] = (u * w) % P
      BY <1>1, <2>0, <2>5, <2>8 DEF ConvolveOrdered
    <3>2. Eq(ix, 0)
      BY <2>4, <2>8, UnpairedEight
    <3>3. Eq(ix * ih, 0 * ih)
      BY 0 \in Int, <3>2, EqScaled
    <3>4. Eq(u * w, rx * rh)
      BY <2>5, EqTimes
    <3>5. PICK uw, xh, pp \in Int : uw = u * w /\ xh = rx * rh /\ pp = ix * ih
      OBVIOUS
    <3>7. 0 * ih = 0
      OBVIOUS
    <3>8. Eq(pp, 0)
      BY <3>3, <3>5, <3>7
    <3>6. Eq(xh - pp, xh - 0)
      BY 0 \in Int, <3>8, EqMoved
    <3>9. Eq(rr, xh)
      BY <2>6, <3>5, <3>6, EqBasics
    <3>10. Eq(uw % P, rr) /\ uw % P \in Int
      BY <3>4, <3>5, <3>9, EqBasics, EqRemainder
    <3> QED BY <2>7, <2>8, <3>1, <3>5, <3>10
  <2>9. CASE k \in 1 .. 3
    <3>1. PICK p, q \in Int : p = b[8 - k] /\ q = c[8 - k] /\ Eq(p, -ix) /\ Eq(q, -ih)
      BY <1>a, <2>0, <2>4, <2>9, EightSpectral
    <3>2. Eq(u * w - p * q, rx * rh - ix * ih) /\ Eq(u * q + p * w, -(ix * rh + rx * ih))
      <4>1. Factors(u, p, w, q, rx, ix, rh, ih)
        BY <2>5, <3>1 DEF Factors
      <4> QED BY ONLY <4>1, ProductTerms
    <3>3. PICK s, t, ss, tt \in Int :
            s = u * w - p * q /\ t = u * q + p * w /\ ss = rx * rh - ix * ih /\ tt = ix * rh + rx * ih
      OBVIOUS
    <3>4. Eq(ii, tt) /\ Eq(rr, ss)
      BY <2>6, <3>3
    <3>5. Eq(-ii, -tt)
      BY <3>4, EqLaws, EqBasics
    <3>6. Eq(s % P, rr) /\ Eq(t % P, -ii) /\ s % P \in Int /\ t % P \in Int
      BY <3>2, <3>3, <3>4, <3>5, EqBasics, EqRemainder
    <3>7. v[k] = (u * w - p * q) % P
      BY <1>1, <2>0, <2>5, <2>9, <3>1 DEF ConvolveOrdered
    <3>8. v[8 - k] = (u * q + p * w) % P
      <4>1. v[8 - k] = (b[8 - (8 - k)] * c[8 - k] + b[8 - k] * c[8 - (8 - k)]) % P
        BY <1>1, <2>0, <2>9 DEF ConvolveOrdered
      <4>2. 8 - (8 - k) = k
        BY <2>0
      <4> QED BY <2>5, <3>1, <4>1, <4>2
    <3> QED BY <2>7, <3>3, <3>6, <3>7, <3>8
  <2> QED BY <2>8, <2>9
<1>4. ASSUME NEW k \in 0 .. 8 - 1
      PROVE  v[k] \in Int /\ Eq(v[k], Spectral(8, y, k))
  <2> HIDE DEF v, y
  <2>1. CASE k <= 4
    BY <1>3, <2>1
  <2>2. CASE k > 4
    <3>1. PICK m : m = 8 - k /\ m \in 1 .. 3 /\ m \in 0 .. 4 /\ 8 - m = k
      BY <2>2
    <3> QED BY <1>3, <3>1
  <2> QED BY <2>1, <2>2
<1> QED BY <1>2, <1>4 DEF Ordered

\* The coefficients of the subsample delay, scaled.
SubScaled(s) == [i \in 0 .. 7 |-> SubCoeffs(s)[i] * Inverse(8)]

LEMMA TdOrdered ==
  ASSUME NEW l \in Lengths, NEW s, NEW c, \A k \in 0 .. 7 : c[k] = TdCoeffs(s)[k]
  PROVE  Ints(SubScaled(s), 8) /\ Ordered(8, c, SubScaled(s)) /\ Inverse(8) \in Int /\ Eq(8 * Inverse(8), 1)
<1> DEFINE h == SubCoeffs(s)
           y == SubScaled(s)
<1>1. 8 \in Transforms /\ 8 \in Int
  BY SubBlockIs DEF Transforms
<1>2. PICK e \in Int : e = Inverse(8) /\ Eq(8 * e, 1)
  <2>1. ~Eq(8, 0)
    BY <1>1, UnitsOf
  <2> QED BY <1>1, <2>1, InverseIs
<1>3. Ints(h, 8)
  BY SubCoeffsIs
<1>4. \A i \in 0 .. 7 : h[i] \in Int
  BY <1>3 DEF Ints
<1>5. \A i \in 0 .. 7 : y[i] = h[i] * e
  BY <1>2 DEF SubScaled
<1> HIDE DEF h, y
<1>6. Ints(y, 8)
  BY <1>2, <1>4, <1>5 DEF Ints
<1>7. \A i \in 0 .. 8 - 1 : Eq(y[i], e * h[i] + 0 * h[i])
  <2>1. ASSUME NEW i \in 0 .. 7
        PROVE  Eq(y[i], e * h[i] + 0 * h[i])
    <3>1. PICK a \in Int : a = h[i]
      BY <1>4
    <3>2. a * e = e * a + 0 * a
      OBVIOUS
    <3> QED BY <1>5, <3>1, <3>2 DEF Eq
  <2> QED BY <2>1
<1>8. ASSUME NEW k \in 0 .. 8 - 1
      PROVE  c[k] \in Int /\ Eq(c[k], Spectral(8, y, k))
  <2>1. PICK r, p \in Int : r = R2HC(8, h)[k] /\ p = Spectral(8, h, k) /\ Eq(r, p)
    <3>1. R2HC(8, h)[k] \in Int /\ Eq(R2HC(8, h)[k], Spectral(8, h, k)) /\ Spectral(8, h, k) \in Int
      BY <1>1, <1>3, R2HCIs
    <3> QED BY <3>1
  <2>2. c[k] = (r * e) % P
    BY <1>2, <2>1, SubCoeffsIs DEF h
  <2>3. Eq(Spectral(8, y, k), e * p + 0 * p)
    <3>1. k \in Int
      OBVIOUS
    <3> QED BY 0 \in Int, <1>1, <1>2, <1>3, <1>6, <1>7, <2>1, <3>1, SpectralLinear
  <2>4. e * p + 0 * p = p * e
    OBVIOUS
  <2>5. Eq(r * e, p * e)
    BY <2>1, EqScaled
  <2>6. r * e \in Int
    OBVIOUS
  <2>7. (r * e) % P \in Int /\ Eq((r * e) % P, r * e)
    BY <2>6, EqRemainder
  <2> QED BY <2>2, <2>3, <2>4, <2>5, <2>7 DEF Eq
<1> QED BY <1>2, <1>6, <1>8 DEF Ordered, y

TurnTerms(s, x, j) == [n \in 0 .. 2 |-> SubFilter(s, n) * x[j + 4 - n]]

\* One turn of the loop: the four samples that come out are the convolution
\* with the three coefficients.
LEMMA TurnIs ==
  ASSUME NEW l \in Lengths, NEW s, NEW c, Ints(c, 8), \A k \in 0 .. 7 : c[k] = TdCoeffs(s)[k],
         NEW x, Ints(x, 8), NEW j \in 0 .. 3
  PROVE  TdConvolve(c, x)[j] = Sum(TurnTerms(s, x, j), 3)
<1> DEFINE y == SubScaled(s)
           v == ConvolveOrdered(8, R2HC(8, x), c)
           t == TurnTerms(s, x, j)
           h == SubCoeffs(s)
<1>1. Ints(y, 8) /\ Ordered(8, c, y) /\ Inverse(8) \in Int /\ Eq(8 * Inverse(8), 1)
  BY TdOrdered
<1>2. 8 \in Transforms /\ Ordered(8, R2HC(8, x), x) /\ Ints(R2HC(8, x), 8) /\ 8 \in Nat \ {0}
  BY SubTransforms
<1>3. Ints(Cyc(8, x, y), 8) /\ Ordered(8, v, Cyc(8, x, y)) /\ Ints(v, 8)
  BY <1>1, <1>2, OrderedProduct, ConvolveOrderedTyped
<1>4. PICK o \in Int : o = TdConvolve(c, x)[j] /\ o \in Field /\ Eq(o, 8 * Cyc(8, x, y)[j])
  <2>1. TdConvolve(c, x) = HC2R(8, v)
    BY TdConvolveTyped
  <2>2. j \in 0 .. 8 - 1
    OBVIOUS
  <2>3. HC2R(8, v)[j] \in Field /\ HC2R(8, v)[j] \in Int /\ Eq(HC2R(8, v)[j], 8 * Cyc(8, x, y)[j])
    <3> HIDE DEF v, y
    <3> QED BY <1>2, <1>3, <2>2, Inversion
  <2> QED BY <2>1, <2>3
<1>5. \A i \in 0 .. 7 : x[i] \in Int /\ h[i] \in Int /\ y[i] = h[i] * Inverse(8)
                        /\ h[i] = IF 4 <= i /\ i < 7 THEN SubFilter(s, i - 4) ELSE 0
  BY SubCoeffsIs DEF Ints, SubScaled, SubCoeffs
<1>6. \A b \in 0 .. 7 : (j - b) % 8 \in 0 .. 7
  OBVIOUS
<1>7. \A i \in 0 .. 2 : (j - (4 + i)) % 8 = j + 4 - i /\ j + 4 - i \in 0 .. 7 /\ SubFilter(s, i) \in Int
  BY SubFilterIs
<1> DEFINE e == [b \in 0 .. 7 |-> h[b] * x[(j - b) % 8]]
           f == CycTerms(8, x, y, j)
           g == [i \in 0 .. 3 |-> e[4 + i]]
<1> HIDE DEF y, h, t
<1>8. Ints(f, 8) /\ Cyc(8, x, y)[j] = Sum(f, 8)
  <2>1. j \in 0 .. 8 - 1
    OBVIOUS
  <2> QED BY <1>1, <1>2, <2>1, CycIs
<1>9. \A b \in 0 .. 7 : f[b] = y[b] * x[(j - b) % 8] /\ e[b] = h[b] * x[(j - b) % 8] /\ e[b] \in Int
  <2>1. ASSUME NEW b \in 0 .. 7
        PROVE  f[b] = y[b] * x[(j - b) % 8] /\ e[b] = h[b] * x[(j - b) % 8] /\ e[b] \in Int
    <3>1. f[b] = y[b] * x[(j - b) % 8]
      BY DEF CycTerms
    <3>2. e[b] = h[b] * x[(j - b) % 8]
      OBVIOUS
    <3>3. PICK p, q : p = h[b] /\ q = x[(j - b) % 8] /\ p \in Int /\ q \in Int
      BY <1>5, <1>6
    <3>4. p * q \in Int
      BY <3>3
    <3> QED BY <3>1, <3>2, <3>3, <3>4
  <2> QED BY <2>1
<1>10. \A i \in 0 .. 3 : g[i] = e[4 + i] /\ 4 + i \in 0 .. 7
  OBVIOUS
<1> HIDE DEF e, f, g
<1>11. Ints(e, 8)
  BY <1>9 DEF Ints
<1>12. \A b \in 0 .. 8 - 1 : Eq(e[b], 8 * f[b])
  <2>1. ASSUME NEW b \in 0 .. 7
        PROVE  Eq(e[b], 8 * f[b])
    <3>1. PICK p, q, i \in Int : p = h[b] /\ q = x[(j - b) % 8] /\ i = Inverse(8) /\ Eq(8 * i, 1)
      BY <1>1, <1>5, <1>6
    <3>2. e[b] = p * q /\ f[b] = (p * i) * q
      BY <1>5, <1>9, <3>1
    <3>3. PICK pq \in Int : pq = p * q
      OBVIOUS
    <3>4. 8 * ((p * i) * q) = (8 * i) * pq /\ 8 * i \in Int
      BY <3>3
    <3>5. Eq((8 * i) * pq, 1 * pq)
      BY 1 \in Int, <3>1, <3>3, <3>4, EqScaled
    <3>6. 1 * pq = p * q
      BY <3>3
    <3> QED BY <3>2, <3>4, <3>5, <3>6 DEF Eq
  <2> QED BY <2>1
<1>13. Eq(Sum(e, 8), 8 * Sum(f, 8))
  BY 8 \in Int, <1>2, <1>8, <1>11, <1>12, SumScaled
<1>14. Ints(g, 4) /\ Ints(e, 4) /\ Eq(Sum(e, 8), Sum(e, 4) + Sum(g, 4))
  <2>0. PICK m, n : m \in Nat /\ n \in Nat /\ m = 4 /\ n = 4 /\ m + n = 8
    OBVIOUS
  <2>1. Ints(e, m + n)
    BY <1>11, <2>0
  <2>2. \A i \in 0 .. n - 1 : g[i] = e[m + i]
    BY <1>10, <2>0
  <2>3. m \in Nat /\ n \in Nat
    BY <2>0
  <2>4. Ints(g, n) /\ Ints(e, m) /\ Eq(Sum(e, m + n), Sum(e, m) + Sum(g, n))
    BY ONLY <2>1, <2>2, <2>3, SumSplit
  <2> QED BY <2>0, <2>4
<1>15. Eq(Sum(e, 4), 0)
  <2>1. \A b \in 0 .. 4 - 1 : Eq(e[b], 0)
    <3>1. ASSUME NEW b \in 0 .. 3
          PROVE  Eq(e[b], 0)
      <4>1. PICK q \in Int : q = x[(j - b) % 8]
        BY <1>5, <1>6
      <4>2. h[b] = 0 /\ b \in 0 .. 7
        BY <1>5
      <4>3. e[b] = 0 * q
        BY <1>9, <4>1, <4>2
      <4>4. e[b] = 0
        BY <4>3
      <4> QED BY <4>4 DEF Eq
    <3> QED BY <3>1
  <2>2. Eq(Sum(e, 4), 4 * 0)
    BY 4 \in Nat, 0 \in Int, <1>14, <2>1, SumConstant
  <2> QED BY <2>2
<1>16. Ints(g, 3) /\ Eq(Sum(g, 4), Sum(g, 3) + g[3]) /\ g[3] = 0
  <2>1. 3 + 1 = 4 /\ 3 \in Nat
    OBVIOUS
  <2>2. Ints(g, 3) /\ Eq(Sum(g, 4), Sum(g, 3) + g[3])
    BY <1>14, <2>1, SumGrows
  <2>3. g[3] = h[7] * x[(j - 7) % 8]
    BY <1>9, <1>10
  <2>4. h[7] = 0
    BY <1>5
  <2>5. x[(j - 7) % 8] \in Int
    BY <1>5, <1>6
  <2> QED BY <2>2, <2>3, <2>4, <2>5
<1>17. \A i \in 0 .. 3 - 1 : g[i] = t[i] /\ t[i] \in Int
  <2>1. ASSUME NEW i \in 0 .. 2
        PROVE  g[i] = t[i] /\ t[i] \in Int
    <3>1. h[4 + i] = SubFilter(s, i)
      <4>1. 4 + i \in 0 .. 7 /\ 4 <= 4 + i /\ 4 + i < 7 /\ 4 + i - 4 = i
        OBVIOUS
      <4> QED BY <1>5, <4>1
    <3>2. g[i] = h[4 + i] * x[(j - (4 + i)) % 8]
      BY <1>9, <1>10
    <3>3. t[i] = SubFilter(s, i) * x[j + 4 - i]
      BY DEF t, TurnTerms
    <3>4. PICK a, b \in Int : a = SubFilter(s, i) /\ b = x[j + 4 - i]
      BY <1>5, <1>7
    <3> QED BY <1>7, <3>1, <3>2, <3>3, <3>4
  <2> QED BY <2>1
<1>18. Sum(g, 3) = Sum(t, 3) /\ Sum(t, 3) \in Field /\ Sum(t, 3) \in Int
  <2>1. Ints(t, 3)
    BY <1>17 DEF Ints
  <2>2. \A i \in 0 .. 3 - 1 : Eq(g[i], t[i])
    BY <1>17 DEF Eq
  <2> QED BY 3 \in Nat, <1>16, <2>1, <2>2, SumEq, SumIs
<1>19. Eq(o, Sum(t, 3))
  <2>1. PICK E, F, G4, G3, E4 \in Int :
           E = Sum(e, 8) /\ F = Sum(f, 8) /\ G4 = Sum(g, 4) /\ G3 = Sum(g, 3) /\ E4 = Sum(e, 4)
    <3>1. 8 \in Nat /\ 4 \in Nat /\ 3 \in Nat
      OBVIOUS
    <3>2. Sum(e, 8) \in Int /\ Sum(f, 8) \in Int
      BY <1>8, <1>11, <3>1, SumIs
    <3>3. Sum(g, 4) \in Int /\ Sum(g, 3) \in Int /\ Sum(e, 4) \in Int
      BY <1>14, <1>16, <3>1, SumIs
    <3> QED BY <3>2, <3>3
  <2>2. Eq(o, E)
    BY <1>4, <1>8, <1>13, <2>1 DEF Eq
  <2>3. Eq(E, E4 + G4) /\ Eq(E4, 0) /\ Eq(G4, G3 + 0)
    BY <1>14, <1>15, <1>16, <2>1
  <2>4. Eq(E4 + G4, 0 + G3)
    <3>1. G3 + 0 = G3
      OBVIOUS
    <3> QED BY 0 \in Int, <2>3, <3>1, EqPlus
  <2>5. 0 + G3 = G3
    OBVIOUS
  <2> QED BY <1>18, <2>1, <2>2, <2>3, <2>4, <2>5 DEF Eq
<1> QED BY <1>4, <1>18, <1>19, EqSame DEF Field, t

-----------------------------------------------------------------------------
(* The fragments of the subsample delay.                                   *)

\* Where the last block starts, and the delayed signal.
Start(l, f) == (Len(f) - 1) * l
DelayTerms(l, f, s, t) == [n \in 0 .. 2 |-> SubFilter(s, n) * Smp(l, f, 1, t - n)]
Delayed(l, f, s, t) == Sum(DelayTerms(l, f, s, t), 3)

\* After a call with a delay out of range, the rest is older than the last block.
Stale(f, ch) == Len(f) > 1 /\ ch[Len(f) - 1] \notin SubSteps

\* After m turns: what is kept, what is still as given and what is done.
Turning(l, f, ch, s, m, b, r) ==
  /\ m > 0 \/ ~Stale(f, ch) => \A i \in 0 .. 3 : r[i] = Smp(l, f, 1, Start(l, f) + 4 * m - 4 + i)
  /\ \A i \in 0 .. l - 1 : i >= 4 * m => b[i] = f[Len(f)][i]
  /\ \A i \in 0 .. l - 1 : i < 4 * m => (i < 4 /\ Stale(f, ch)) \/ b[i] = Delayed(l, f, s, Start(l, f) + i)

LEMMA LastSample ==
  ASSUME NEW l \in Lengths, NEW f, Fed(l, f), Len(f) > 0, NEW j \in 0 .. l - 1
  PROVE  /\ Smp(l, f, 1, Start(l, f) + j) = f[Len(f)][j] /\ Start(l, f) \in Nat
         /\ f[Len(f)][j] \in Int
<1>1. PICK k : k = Len(f) - 1 /\ k \in Nat /\ k \in Int /\ k + 1 = Len(f) /\ l \in Nat \ {0}
               /\ f[k + 1] \in [0 .. l - 1 -> 0 .. P - 1]
  <2>1. Len(f) \in Nat /\ f[Len(f)] \in [0 .. l - 1 -> 0 .. P - 1]
    BY DEF Fed
  <2>2. l \in Nat \ {0}
    BY SpectrumAssumption
  <2>3. PICK k : k = Len(f) - 1
    OBVIOUS
  <2>4. k \in Nat /\ k \in Int /\ k + 1 = Len(f)
    BY <2>1, <2>3
  <2> QED BY <2>1, <2>2, <2>3, <2>4
<1>2. PICK u : u = k * l + j /\ u \in Int /\ k * l \in Nat /\ ~(u < 0)
  <2>1. k \in Nat /\ l \in Nat
    BY <1>1
  <2>2. PICK T : T = k * l /\ T \in Nat
    BY ONLY <2>1
  <2> QED BY <1>1, <2>2
<1>3. u % l = j /\ u \div l = k
  <2>1. l \in Nat \ {0} /\ k \in Int /\ j \in 0 .. l - 1 /\ u \in Int
    BY <1>1, <1>2
  <2>2. u = k * l + j
    BY <1>2
  <2> QED BY ONLY <2>1, <2>2, DivIs
<1>4. Smp(l, f, 1, u) = f[k + 1][(j + 1 - 1) % l]
  BY <1>2, <1>3 DEF Smp
<1>5. j + 1 - 1 = j /\ j % l = j
  <2>1. j % l = j
    BY <1>1, RemSmall
  <2>2. j + 1 - 1 = j
    BY <1>1
  <2> QED BY <2>1, <2>2
<1>6. f[k + 1][j] \in Int
  BY <1>1, PNat
<1> QED BY <1>1, <1>2, <1>4, <1>5, <1>6 DEF Start

TurnBlock(m, b, r) == [i \in 0 .. 7 |-> IF i < 4 THEN r[i] ELSE b[4 * m + i - 4]]

\* A block whose beginning is kept from the one before it.
LEMMA FreshBlock ==
  ASSUME NEW l \in Lengths, NEW f, Fed(l, f), Len(f) > 0, NEW ch, NEW s, NEW m \in Nat, 4 * m + 4 <= l,
         NEW b, NEW r, Turning(l, f, ch, s, m, b, r), m > 0 \/ ~Stale(f, ch),
         NEW i \in 0 .. 7
  PROVE  TurnBlock(m, b, r)[i] = Smp(l, f, 1, Start(l, f) + 4 * m - 4 + i)
<1>1. l \in Nat
  BY LengthIs
<1>2. CASE i < 4
  BY <1>2 DEF TurnBlock, Turning
<1>3. CASE ~(i < 4)
  <2>1. PICK j : j = 4 * m + i - 4 /\ j \in 0 .. l - 1 /\ j >= 4 * m
    BY <1>1, <1>3
  <2>2. b[j] = f[Len(f)][j]
    BY <2>1 DEF Turning
  <2>3. PICK T : T = Start(l, f) /\ T \in Nat
    BY <2>1, LastSample
  <2>4. Smp(l, f, 1, T + j) = f[Len(f)][j]
    BY <2>1, <2>3, LastSample
  <2>5. T + j = T + 4 * m - 4 + i
    BY <2>1, <2>3
  <2>6. TurnBlock(m, b, r)[i] = b[j]
    BY <1>3, <2>1 DEF TurnBlock
  <2> QED BY <2>2, <2>3, <2>4, <2>5, <2>6
<1> QED BY <1>2, <1>3

\* A turn does what the delay should.
\* A turn from b and r to d and q.
Turned(l, f, ch, s, m, b, r, c, d, q) ==
  /\ l \in Lengths /\ Fed(l, f) /\ Len(f) > 0 /\ m \in Nat /\ 4 * m + 4 <= l
  /\ Turning(l, f, ch, s, m, b, r) /\ Ints(TurnBlock(m, b, r), 8)
  /\ Ints(c, 8) /\ \A k \in 0 .. 7 : c[k] = TdCoeffs(s)[k]
  /\ \A i \in 0 .. l - 1 :
       d[i] = IF 4 * m <= i /\ i < 4 * m + 4 THEN TdConvolve(c, TurnBlock(m, b, r))[i - 4 * m] ELSE b[i]
  /\ \A i \in 0 .. 3 : q[i] = b[4 * m + i]

LEMMA TurnDone ==
  ASSUME NEW l, NEW f, NEW ch, NEW s, NEW m, NEW b, NEW r, NEW c, NEW d, NEW q,
         Turned(l, f, ch, s, m, b, r, c, d, q)
  PROVE  Turning(l, f, ch, s, m + 1, d, q)
<1>0. /\ l \in Lengths /\ Fed(l, f) /\ Len(f) > 0 /\ m \in Nat /\ 4 * m + 4 <= l
      /\ Turning(l, f, ch, s, m, b, r) /\ Ints(TurnBlock(m, b, r), 8)
      /\ Ints(c, 8) /\ \A k \in 0 .. 7 : c[k] = TdCoeffs(s)[k]
  BY DEF Turned
<1>a. \A i \in 0 .. l - 1 :
        d[i] = IF 4 * m <= i /\ i < 4 * m + 4 THEN TdConvolve(c, TurnBlock(m, b, r))[i - 4 * m] ELSE b[i]
  BY DEF Turned
<1>b. \A i \in 0 .. 3 : q[i] = b[4 * m + i]
  BY DEF Turned
<1> USE <1>0, <1>a, <1>b
<1> DEFINE x == TurnBlock(m, b, r)
<1>1. l \in Nat /\ 0 \in 0 .. l - 1
  <2>1. l \in Nat \ {0}
    BY SpectrumAssumption
  <2> QED BY <2>1
<1>2. PICK T : T = Start(l, f) /\ T \in Nat
  BY <1>1, LastSample
<1>3. ASSUME NEW i \in 0 .. 3
      PROVE  q[i] = Smp(l, f, 1, T + 4 * (m + 1) - 4 + i)
  <2>1. PICK j : j = 4 * m + i /\ j \in 0 .. l - 1 /\ j >= 4 * m
    BY <1>1
  <2>2. q[i] = b[j] /\ b[j] = f[Len(f)][j]
    BY <2>1 DEF Turning
  <2>3. Smp(l, f, 1, T + j) = f[Len(f)][j]
    BY <1>2, <2>1, LastSample
  <2>4. T + j = T + 4 * (m + 1) - 4 + i
    <3>1. T \in Int /\ m \in Int /\ i \in Int /\ j = 4 * m + i
      BY <1>2, <2>1
    <3> QED BY ONLY <3>1
  <2> QED BY <2>2, <2>3, <2>4
<1>4. ASSUME NEW i \in 0 .. l - 1, i >= 4 * (m + 1)
      PROVE  d[i] = f[Len(f)][i]
  <2>1. ~(4 * m <= i /\ i < 4 * m + 4) /\ i >= 4 * m
    BY <1>1, <1>4
  <2> QED BY <2>1 DEF Turning
<1>5. ASSUME NEW i \in 0 .. l - 1, i < 4 * (m + 1)
      PROVE  (i < 4 /\ Stale(f, ch)) \/ d[i] = Delayed(l, f, s, T + i)
  <2>1. CASE i < 4 * m
    <3>1. ~(4 * m <= i /\ i < 4 * m + 4)
      BY <1>1, <2>1
    <3> QED BY <1>2, <2>1, <3>1 DEF Turning
  <2>2. CASE ~(i < 4 * m) /\ m = 0 /\ Stale(f, ch)
    BY <1>5, <2>2
  <2>3. CASE ~(i < 4 * m) /\ (m > 0 \/ ~Stale(f, ch))
    <3>1. PICK j : j = i - 4 * m /\ j \in 0 .. 3 /\ 4 * m <= i /\ i < 4 * m + 4
      BY <1>1, <1>5, <2>3
    <3>2. d[i] = Sum(TurnTerms(s, x, j), 3)
      <4>1. TdConvolve(c, x)[j] = Sum(TurnTerms(s, x, j), 3)
        BY <3>1, TurnIs
      <4> QED BY <3>1, <4>1
    <3>0. PICK z : z = T + i /\ z \in Int
      BY <1>2
    <3>3. ASSUME NEW e \in 0 .. 2
          PROVE  x[j + 4 - e] = Smp(l, f, 1, z - e)
      <4>1. PICK k : k = j + 4 - e /\ k \in 0 .. 7
        BY <3>1
      <4>2. x[k] = Smp(l, f, 1, T + 4 * m - 4 + k)
        <5>1. m > 0 \/ ~Stale(f, ch)
          BY <2>3
        <5>2. k \in 0 .. 7 /\ l \in Lengths /\ Fed(l, f) /\ Len(f) > 0 /\ m \in Nat /\ 4 * m + 4 <= l
              /\ Turning(l, f, ch, s, m, b, r)
          BY <4>1
        <5>3. TurnBlock(m, b, r)[k] = Smp(l, f, 1, Start(l, f) + 4 * m - 4 + k)
          BY ONLY <5>1, <5>2, FreshBlock
        <5> QED BY <1>2, <5>3
      <4>3. T + 4 * m - 4 + k = z - e
        <5>1. T \in Int /\ i \in Int /\ e \in Int /\ m \in Int /\ z = T + i /\ j = i - 4 * m /\ k = j + 4 - e
          BY <1>1, <1>2, <3>0, <3>1, <4>1
        <5> QED BY ONLY <5>1
      <4> QED BY <4>1, <4>2, <4>3
    <3>4. TurnTerms(s, x, j) = DelayTerms(l, f, s, T + i)
      <4>1. \A n \in 0 .. 2 : SubFilter(s, n) * x[j + 4 - n] = SubFilter(s, n) * Smp(l, f, 1, z - n)
        <5> HIDE DEF x
        <5> QED BY ONLY <3>3
      <4> HIDE DEF x
      <4>2. TurnTerms(s, x, j) = [n \in 0 .. 2 |-> SubFilter(s, n) * x[j + 4 - n]]
        BY DEF TurnTerms
      <4>3. DelayTerms(l, f, s, z) = [n \in 0 .. 2 |-> SubFilter(s, n) * Smp(l, f, 1, z - n)]
        BY DEF DelayTerms
      <4>4. TurnTerms(s, x, j) = DelayTerms(l, f, s, z)
        BY ONLY <4>1, <4>2, <4>3
      <4> QED BY <3>0, <4>4
    <3> QED BY <3>2, <3>4 DEF Delayed
  <2>4. m = 0 \/ m > 0
    OBVIOUS
  <2> QED BY <2>1, <2>2, <2>3, <2>4
<1> QED BY <1>2, <1>3, <1>4, <1>5 DEF Turning

LEMMA TailForm ==
  ASSUME NEW S, NEW f \in Seq(S), f # <<>>
  PROVE  Tail(f) = [i \in 1 .. Len(f) - 1 |-> f[i + 1]]
<1>1. Tail(f) \in Seq(S) /\ Len(Tail(f)) = Len(f) - 1 /\ Len(f) \in Nat
  OBVIOUS
<1>2. \A i \in 1 .. Len(f) - 1 : Tail(f)[i] = f[i + 1]
  OBVIOUS
<1>4. Tail(f) \in [1 .. Len(f) - 1 -> S]
  <2>1. PICK g : g = Tail(f)
    OBVIOUS
  <2>2. g \in [1 .. Len(g) -> S]
    <3>1. g \in Seq(S)
      BY <1>1, <2>1
    <3> QED BY ONLY <3>1
  <2> QED BY <1>1, <2>1, <2>2
<1> QED BY <1>2, <1>4

TurnCall(o, s) == Call("td_convolve", <<>>, <<"buf", o>>, <<"td", s>>)

\* The turns that are left after m of them.
TurnsLeft(l, m, s) == [i \in 1 .. (l \div 4) - m |-> TurnCall((m + i - 1) * 4, s)]

LEMMA TurnsAre ==
  ASSUME NEW l \in Lengths, NEW s, NEW m \in 0 .. l \div 4
  PROVE  /\ m \in Nat /\ l \div 4 \in Nat \ {0} /\ 4 * (l \div 4) = l
         /\ m = l \div 4 <=> TurnsLeft(l, m, s) = <<>>
         /\ m # l \div 4 => /\ TurnsLeft(l, m, s)[1] = TurnCall(m * 4, s)
                            /\ Tail(TurnsLeft(l, m, s)) = TurnsLeft(l, m + 1, s)
                            /\ 4 * m + 4 <= l /\ m + 1 \in 0 .. l \div 4
<1>1. PICK g : g \in Nat \ {0} /\ g \in Int /\ l = 4 * g /\ l \div 4 = g
  <2>1. PICK g \in Nat \ {0} : l = 4 * g
    BY LengthIs
  <2>2. (4 * g) \div 4 = g
    OBVIOUS
  <2> QED BY <2>1, <2>2
<1>2. m \in Nat /\ m <= g
  BY <1>1
<1> DEFINE f == TurnsLeft(l, m, s)
<1>3. ASSUME m = g PROVE f = <<>>
  <2>1. 1 .. g - m = {}
    BY <1>1, <1>3
  <2>2. f = [i \in {} |-> TurnCall((m + i - 1) * 4, s)]
    BY <1>1, <2>1 DEF TurnsLeft
  <2> QED BY <2>2
<1>4. ASSUME m # g
      PROVE  f # <<>> /\ f[1] = TurnCall(m * 4, s) /\ Tail(f) = TurnsLeft(l, m + 1, s)
             /\ 4 * m + 4 <= l /\ m + 1 \in 0 .. g
  <2>1. PICK n : n = g - m /\ n \in Nat \ {0} /\ n - 1 = g - (m + 1)
    BY <1>1, <1>2, <1>4
  <2>2. f = [i \in 1 .. n |-> TurnCall((m + i - 1) * 4, s)]
    BY <1>1, <2>1 DEF TurnsLeft
  <2> HIDE DEF f
  <2>3. PICK S : S = {f[i] : i \in 1 .. n}
    OBVIOUS
  <2>4. f \in [1 .. n -> S]
    BY <2>2, <2>3
  <2>5. f # <<>> /\ Tail(f) = [i \in 1 .. n - 1 |-> f[i + 1]]
    <3>1. n \in Nat \ {0}
      BY <2>1
    <3>2. PICK w : w = f
      OBVIOUS
    <3>3. w \in [1 .. n -> S]
      BY <2>4, <3>2
    <3>4. w # <<>> /\ Tail(w) = [i \in 1 .. n - 1 |-> w[i + 1]]
      <4>1. n \in Nat
        BY <3>1
      <4>2. w \in Seq(S)
        BY ONLY <3>3, <4>1, FunctionSeq
      <4>3. Len(w) = n
        <5>1. Len(w) \in Nat /\ DOMAIN w = 1 .. Len(w)
          BY <4>2
        <5> QED BY ONLY <3>3, <4>1, <5>1
      <4>4. w # <<>>
        BY <3>1, <4>3
      <4>5. Tail(w) = [i \in 1 .. Len(w) - 1 |-> w[i + 1]]
        BY ONLY <4>2, <4>4, TailForm
      <4> QED BY <4>3, <4>4, <4>5
    <3> QED BY <3>2, <3>4
  <2>6. TurnsLeft(l, m + 1, s) = [i \in 1 .. n - 1 |-> TurnCall((m + 1 + i - 1) * 4, s)]
    BY <1>1, <2>1 DEF TurnsLeft
  <2>7. ASSUME NEW i \in 1 .. n - 1
        PROVE  f[i + 1] = TurnCall((m + 1 + i - 1) * 4, s)
    <3>1. i + 1 \in 1 .. n /\ m + (i + 1) - 1 = m + 1 + i - 1
      BY <1>2, <2>1
    <3>2. f[i + 1] = TurnCall((m + (i + 1) - 1) * 4, s)
      BY <2>2, <3>1
    <3> QED BY <3>1, <3>2
  <2>8. Tail(f) = TurnsLeft(l, m + 1, s)
    BY ONLY <2>5, <2>6, <2>7
  <2>9. f[1] = TurnCall(m * 4, s)
    <3>1. 1 \in 1 .. n /\ m + 1 - 1 = m
      BY <1>2, <2>1
    <3>2. f[1] = TurnCall((m + 1 - 1) * 4, s)
      BY <2>2, <3>1
    <3> QED BY <3>1, <3>2
  <2>10. 4 * m + 4 <= l /\ m + 1 \in 0 .. g
    BY <1>1, <1>2, <1>4
  <2> QED BY <2>5, <2>8, <2>9, <2>10
<1> QED BY <1>1, <1>2, <1>3, <1>4

LEMMA SubCalls ==
  ASSUME NEW l \in Lengths, length = l, NEW k, NEW s
  PROVE  Calls("subsample", k, s) = IF s \in SubSteps THEN TurnsLeft(l, 0, s) ELSE <<>>
<1>1. CASE s \notin SubSteps
  BY <1>1 DEF Calls
<1>2. CASE s \in SubSteps
  <2>1. PICK g : g \in Nat /\ g = l \div 4 /\ g - 0 = g
    <3>1. l \div 4 \in Nat
      <4>1. l \in Nat
        BY LengthIs
      <4> QED BY <4>1
    <3> QED BY <3>1
  <2>2. Calls("subsample", k, s) =
          [i \in 1 .. g |-> Call("td_convolve", <<>>, <<"buf", (i - 1) * 4>>, <<"td", s>>)]
    BY <1>2, <2>1, SubBlockIs DEF Calls
  <2>3. TurnsLeft(l, 0, s) = [i \in 1 .. g |-> TurnCall((0 + i - 1) * 4, s)]
    BY <2>1 DEF TurnsLeft
  <2>4. \A i \in 1 .. g : 0 + i - 1 = i - 1
    BY <2>1
  <2> QED BY <1>2, <2>2, <2>3, <2>4 DEF TurnCall
<1> QED BY <1>1, <1>2

-----------------------------------------------------------------------------
(* What the subsample delay has in its buffers.                            *)

HasTd(cb, s) == \A k \in 0 .. 7 : cb[<<"td", s>>][k] = TdCoeffs(s)[k]
NewCall(s) == Call("td_new", <<>>, <<"td", s>>, None)

\* The filters of the delays are being made.
SubSetup(f, td, cb) ==
  /\ f = <<>> /\ \A i \in 0 .. 3 : cb[<<"rest", 0>>][i] = 0
  /\ \/ td = <<NewCall(-1), NewCall(0), NewCall(1)>>
     \/ td = <<NewCall(0), NewCall(1)>> /\ HasTd(cb, -1)
     \/ td = <<NewCall(1)>> /\ HasTd(cb, -1) /\ HasTd(cb, 0)
     \/ td = <<>> /\ \A s \in SubSteps : HasTd(cb, s)

\* A block was given, and m turns of subsample_update over its fragments are made.
SubBlocks(l, f, ch, td, cb) ==
  /\ f # <<>> /\ \A s \in SubSteps : HasTd(cb, s)
  /\ ch[Len(f)] \notin SubSteps => td = <<>> /\ \A i \in 0 .. l - 1 : cb[<<"buf", 0>>][i] = f[Len(f)][i]
  /\ ch[Len(f)] \in SubSteps =>
       \E m \in 0 .. l \div 4 :
         td = TurnsLeft(l, m, ch[Len(f)])
         /\ Turning(l, f, ch, ch[Len(f)], m, cb[<<"buf", 0>>], cb[<<"rest", 0>>])

SubStage(l, f, ch, td, cb) == SubSetup(f, td, cb) \/ SubBlocks(l, f, ch, td, cb)

LEMMA SubInit ==
  ASSUME Init, net = "subsample"
  PROVE  SubStage(length, fed, chosen, todo, cbuf)
<1>1. /\ todo = Setup("subsample") /\ fed = <<>> /\ cbuf = [b \in Buffers |-> Zeros] /\ length \in Lengths
  BY DEF Init
<1>2. \A i \in 0 .. 3 : cbuf[<<"rest", 0>>][i] = 0
  <2>1. \A i \in 0 .. 3 : i \in Whole
    <3>1. length \in Nat /\ length >= 4
      BY <1>1, SpectrumAssumption
    <3> QED BY <3>1 DEF Whole, NFft
  <2> QED BY <1>1, <2>1, BufferNames DEF Zeros
<1>3. todo = <<NewCall(-1), NewCall(0), NewCall(1)>>
  BY <1>1 DEF Setup, NewCall
<1> QED BY <1>1, <1>2, <1>3 DEF SubStage, SubSetup

\* A call of convolver_td_new.
LEMMA TdNewDone ==
  ASSUME TypeInv, Next, NEW s \in SubSteps, todo # <<>>, todo[1] = NewCall(s)
  PROVE  /\ todo' = Tail(todo) /\ UNCHANGED <<length, realsize, net, nCoeffs, subdelay, fed, chosen>>
         /\ HasTd(cbuf', s) /\ \A r \in SubSteps : HasTd(cbuf, r) => HasTd(cbuf', r)
         /\ cbuf'[<<"rest", 0>>] = cbuf[<<"rest", 0>>]
<1>0. length \in Lengths /\ cbuf \in [Buffers -> [Whole -> Field]]
  BY DEF TypeInv
<1>1. todo[1].op = "td_new" /\ todo[1].to = <<"td", s>> /\ todo[1].to[2] = s
  BY DEF NewCall, Call
<1>2. <<"td", s>> \in Buffers /\ todo[1].to \in Buffers
  BY <1>1, BufferNames
<1>3. PICK v : v = [i \in Whole |-> IF i < 8 THEN TdCoeffs(s)[i] ELSE 0] /\ Made(v)
  <2>1. Made([i \in Whole |-> IF i < 2 * SubBlock THEN TdCoeffs(todo[1].to[2])[i] ELSE 0])
    BY <1>1, CallMade
  <2>2. 2 * SubBlock = 8
    BY SubBlockIs
  <2>3. [i \in Whole |-> IF i < 2 * SubBlock THEN TdCoeffs(todo[1].to[2])[i] ELSE 0]
        = [i \in Whole |-> IF i < 8 THEN TdCoeffs(s)[i] ELSE 0]
    BY <1>1, <2>2
  <2> QED BY <2>1, <2>3
<1>4. Put(<<"td", s>>) /\ cbuf'[<<"td", s>>] = v
  BY <1>0, <1>1, <1>2, <1>3, MadePut
<1>5. HasTd(cbuf', s)
  <2>1. \A k \in 0 .. 7 : k \in Whole /\ k < 8
    <3>1. length \in Nat /\ length >= 4
      BY <1>0, SpectrumAssumption
    <3> QED BY <3>1 DEF Whole, NFft
  <2> QED BY <1>3, <1>4, <2>1 DEF HasTd
<1>6. \A r \in SubSteps : r # s => cbuf'[<<"td", r>>] = cbuf[<<"td", r>>]
  BY <1>4, BufferNames DEF Put
<1>7. \A r \in SubSteps : HasTd(cbuf, r) => HasTd(cbuf', r)
  BY <1>5, <1>6 DEF HasTd
<1>8. cbuf'[<<"rest", 0>>] = cbuf[<<"rest", 0>>]
  BY <1>4, BufferNames DEF Put
<1> QED BY <1>4, <1>5, <1>7, <1>8 DEF Put

LEMMA SubSetupStep ==
  ASSUME TypeInv, Next, todo # <<>>, SubSetup(fed, todo, cbuf)
  PROVE  /\ UNCHANGED <<length, realsize, net, nCoeffs, subdelay, fed, chosen>>
         /\ SubSetup(fed, todo', cbuf')
<1>0. SubSteps = {-1, 0, 1}
  BY BufferNames
<1>1. CASE todo = <<NewCall(-1), NewCall(0), NewCall(1)>>
  <2>1. todo[1] = NewCall(-1) /\ Tail(todo) = <<NewCall(0), NewCall(1)>> /\ -1 \in SubSteps
    BY <1>0, <1>1
  <2>2. /\ todo' = Tail(todo) /\ UNCHANGED <<length, realsize, net, nCoeffs, subdelay, fed, chosen>>
        /\ HasTd(cbuf', -1) /\ cbuf'[<<"rest", 0>>] = cbuf[<<"rest", 0>>]
    BY <2>1, TdNewDone
  <2> QED BY <2>1, <2>2 DEF SubSetup
<1>2. CASE todo = <<NewCall(0), NewCall(1)>> /\ HasTd(cbuf, -1)
  <2>1. todo[1] = NewCall(0) /\ Tail(todo) = <<NewCall(1)>> /\ -1 \in SubSteps /\ 0 \in SubSteps
    BY <1>0, <1>2
  <2>2. /\ todo' = Tail(todo) /\ UNCHANGED <<length, realsize, net, nCoeffs, subdelay, fed, chosen>>
        /\ HasTd(cbuf', 0) /\ HasTd(cbuf', -1) /\ cbuf'[<<"rest", 0>>] = cbuf[<<"rest", 0>>]
    BY <1>2, <2>1, TdNewDone
  <2> QED BY <2>1, <2>2 DEF SubSetup
<1>3. CASE todo = <<NewCall(1)>> /\ HasTd(cbuf, -1) /\ HasTd(cbuf, 0)
  <2>1. todo[1] = NewCall(1) /\ Tail(todo) = <<>> /\ -1 \in SubSteps /\ 0 \in SubSteps /\ 1 \in SubSteps
    BY <1>0, <1>3
  <2>2. /\ todo' = Tail(todo) /\ UNCHANGED <<length, realsize, net, nCoeffs, subdelay, fed, chosen>>
        /\ HasTd(cbuf', 1) /\ HasTd(cbuf', -1) /\ HasTd(cbuf', 0) /\ cbuf'[<<"rest", 0>>] = cbuf[<<"rest", 0>>]
    BY <1>3, <2>1, TdNewDone
  <2>3. \A s \in SubSteps : HasTd(cbuf', s)
    BY <1>0, <2>2
  <2> QED BY <2>1, <2>2, <2>3 DEF SubSetup
<1> QED BY <1>1, <1>2, <1>3 DEF SubSetup

\* A turn of the loop in subsample_update.
LEMMA TurnStep ==
  ASSUME TypeInv, Next, todo # <<>>, SubBlocks(length, fed, chosen, todo, cbuf)
  PROVE  /\ UNCHANGED <<length, realsize, net, nCoeffs, subdelay, fed, chosen>>
         /\ SubBlocks(length, fed, chosen, todo', cbuf')
<1> DEFINE l == length
           s == chosen[Len(fed)]
<1>0. l \in Lengths /\ Fed(l, fed) /\ cbuf \in [Buffers -> [Whole -> Field]]
      /\ fed # <<>> /\ s \in SubSteps /\ \A r \in SubSteps : HasTd(cbuf, r)
  BY DEF TypeInv, SubBlocks
<1>1. PICK m : /\ m \in 0 .. l \div 4 /\ todo = TurnsLeft(l, m, s)
               /\ Turning(l, fed, chosen, s, m, cbuf[<<"buf", 0>>], cbuf[<<"rest", 0>>])
  BY <1>0 DEF SubBlocks
<1>2. /\ m \in Nat /\ todo[1] = TurnCall(m * 4, s) /\ Tail(todo) = TurnsLeft(l, m + 1, s)
      /\ 4 * m + 4 <= l /\ m + 1 \in 0 .. l \div 4
  <2>1. m # l \div 4
    <3>1. TurnsLeft(l, m, s) # <<>>
      BY <1>1
    <3> QED BY ONLY <1>0, <1>1, <3>1, TurnsAre
  <2>2. /\ m \in Nat /\ TurnsLeft(l, m, s)[1] = TurnCall(m * 4, s)
        /\ Tail(TurnsLeft(l, m, s)) = TurnsLeft(l, m + 1, s)
        /\ 4 * m + 4 <= l /\ m + 1 \in 0 .. l \div 4
    BY ONLY <1>0, <1>1, <2>1, TurnsAre
  <2> QED BY <1>1, <2>2
<1>3. PICK o : o = 4 * m /\ o \in Nat /\ m * 4 = o /\ o + 4 <= l
  BY <1>2
<1>4. todo[1].op = "td_convolve" /\ todo[1].to[2] = o /\ todo[1].by = <<"td", s>>
  BY <1>2, <1>3 DEF TurnCall, Call
<1>5. Whole = 0 .. 2 * l - 1 /\ l \in Int /\ l \in Nat
  BY <1>0, LengthIs DEF Whole, NFft
<1>6. PICK b, r, c : /\ b = cbuf[<<"buf", 0>>] /\ r = cbuf[<<"rest", 0>>] /\ c = cbuf[<<"td", s>>]
                     /\ b \in [Whole -> Field] /\ r \in [Whole -> Field] /\ c \in [Whole -> Field]
  BY <1>0, BufferNames
<1>7. \A i \in 0 .. 7 : i \in Whole /\ (i < 4 => o + i \in Whole) /\ (~(i < 4) => o + i - 4 \in Whole)
  BY ONLY <1>3, <1>5, TurnIndices
<1>8. Field \subseteq Int
  BY PNat DEF Field
<1>9. PICK x : x = TurnBlock(m, b, r) /\ Ints(x, 8) /\ x = [i \in 0 .. 7 |-> IF i < 4 THEN r[i] ELSE b[o + i - 4]]
  <2>1. PICK x : x = [i \in 0 .. 7 |-> IF i < 4 THEN r[i] ELSE b[o + i - 4]]
    OBVIOUS
  <2>2. x = TurnBlock(m, b, r)
    BY <1>3, <2>1 DEF TurnBlock
  <2>3. \A i \in 0 .. 8 - 1 : x[i] \in Field
    BY <1>6, <1>7, <2>1
  <2> QED BY <1>8, <2>1, <2>2, <2>3 DEF Ints
<1>10. Ints(c, 8) /\ \A k \in 0 .. 7 : c[k] = TdCoeffs(s)[k]
  <2>1. \A i \in 0 .. 8 - 1 : i \in Whole
    BY <1>7
  <2>2. HasTd(cbuf, s)
    BY <1>0
  <2> QED BY <1>6, <1>8, <2>1, <2>2 DEF Ints, HasTd
<1>11. PICK v, w : /\ v = [i \in Whole |-> IF i < 4 THEN b[o + i] ELSE 0]
                   /\ w = [i \in Whole |-> IF o <= i /\ i < o + 4 THEN TdConvolve(c, x)[i - o] ELSE b[i]]
  OBVIOUS
<1>12. /\ cbuf' = [cbuf EXCEPT ![<<"rest", 0>>] = v, ![<<"buf", 0>>] = w]
       /\ todo' = Tail(todo)
       /\ UNCHANGED <<length, realsize, net, nCoeffs, subdelay, fed, chosen>>
  <2>1. SubsampleTurn
    BY <1>4, CallMade
  <2>2. SubBlock = 4
    BY SubBlockIs
  <2>3. 2 * SubBlock - 1 = 7
    BY <2>2
  <2>4. By = c
    BY <1>4, <1>6 DEF By
  <2> QED BY <1>4, <1>6, <1>9, <1>11, <2>1, <2>2, <2>3, <2>4 DEF SubsampleTurn, Rest
<1>13. /\ cbuf'[<<"rest", 0>>] = v /\ cbuf'[<<"buf", 0>>] = w
       /\ \A q \in SubSteps : cbuf'[<<"td", q>>] = cbuf[<<"td", q>>]
  <2>1. /\ <<"rest", 0>> \in Buffers /\ <<"buf", 0>> \in Buffers /\ \A q \in SubSteps : <<"td", q>> \in Buffers
    BY BufferNames
  <2> QED BY <1>0, <1>12, <2>1
<1>14. \A q \in SubSteps : HasTd(cbuf', q)
  BY <1>0, <1>13 DEF HasTd
<1>15. Turning(l, fed, chosen, s, m + 1, w, v)
  <2>1. Len(fed) > 0
    BY <1>0 DEF Fed
  <2>2. \A i \in 0 .. l - 1 :
          w[i] = IF 4 * m <= i /\ i < 4 * m + 4 THEN TdConvolve(c, TurnBlock(m, b, r))[i - 4 * m] ELSE b[i]
    <3>1. \A i \in 0 .. l - 1 : i \in Whole
      BY <1>5
    <3> QED BY <1>3, <1>9, <1>11, <3>1
  <2>3. \A i \in 0 .. 3 : v[i] = b[4 * m + i]
    <3>1. \A i \in 0 .. 3 : i \in Whole /\ i < 4
      BY <1>7
    <3> QED BY <1>3, <1>11, <3>1
  <2>4. Turning(l, fed, chosen, s, m, b, r) /\ Ints(TurnBlock(m, b, r), 8)
    BY <1>1, <1>6, <1>9
  <2>5. Turned(l, fed, chosen, s, m, b, r, c, w, v)
    BY <1>0, <1>2, <1>10, <2>1, <2>2, <2>3, <2>4 DEF Turned
  <2> QED BY ONLY <2>5, TurnDone
<1> QED BY <1>0, <1>2, <1>12, <1>13, <1>14, <1>15 DEF SubBlocks

\* The buffers when the next fragment is taken.
LEMMA FragmentTaken ==
  ASSUME TypeInv, NEW x \in Blocks(length), NEW s \in -StepCount .. StepCount, SubsampleUpdate(x, s),
         SubStage(length, fed, chosen, todo, cbuf)
  PROVE  /\ UNCHANGED <<length, realsize, net, nCoeffs>> /\ subdelay' = s
         /\ fed' = Append(fed, x) /\ chosen' = Append(chosen, s) /\ Len(fed') = Len(fed) + 1 /\ chosen'[Len(fed')] = s
         /\ SubStage(length, fed', chosen', todo', cbuf')
<1> DEFINE l == length
           g == Append(fed, x)
           h == Append(chosen, s)
<1>0. NextBlock(x, s) /\ s \in Int /\ l \in Lengths /\ l \in Nat \ {0} /\ Fed(l, fed)
      /\ cbuf \in [Buffers -> [Whole -> Field]] /\ net = "subsample"
      /\ chosen \in Seq(Int) /\ Len(chosen) = Len(fed) /\ Len(fed) \in Nat
  <2>1. l \in Lengths /\ Fed(l, fed) /\ cbuf \in [Buffers -> [Whole -> Field]]
        /\ chosen \in Seq(Int) /\ Len(chosen) = Len(fed)
    BY DEF TypeInv
  <2>2. l \in Nat \ {0}
    BY <2>1, SpectrumAssumption
  <2>3. s \in Int
    BY DEF StepCount
  <2>4. NextBlock(x, s) /\ net = "subsample"
    BY DEF SubsampleUpdate
  <2>5. Len(fed) \in Nat
    BY <2>1 DEF Fed
  <2> QED BY <2>1, <2>2, <2>3, <2>4, <2>5
<1>1. /\ todo = <<>> /\ fed' = g /\ chosen' = h /\ subdelay' = s
      /\ todo' = Calls(net, Len(fed) + 1, s)
      /\ UNCHANGED <<length, realsize, net, nCoeffs>>
  BY <1>0 DEF NextBlock
<1>2. x \in [0 .. l - 1 -> 0 .. P - 1] /\ Len(fed') = Len(fed) + 1
  BY <1>0, BlockTyped
<1>3. /\ Fed(l, g) /\ Len(g) = Len(fed) + 1 /\ g[Len(g)] = x /\ g # <<>>
      /\ h[Len(g)] = s /\ (Len(g) > 1 => h[Len(g) - 1] = chosen[Len(fed)])
  <2>1. Fed(l, g) /\ Len(g) = Len(fed) + 1 /\ g[Len(fed) + 1] = x
    BY <1>0, <1>2 DEF Fed
  <2>2. g # <<>>
    <3>1. PICK y : y = g
      OBVIOUS
    <3>2. Len(y) # 0
      BY <1>0, <2>1, <3>1
    <3>3. Len(<<>>) = 0
      OBVIOUS
    <3>4. y # <<>>
      BY ONLY <3>2, <3>3
    <3> QED BY <3>1, <3>4
  <2>3. h[Len(fed) + 1] = s
    BY <1>0
  <2>4. Len(fed) > 0 => h[Len(fed)] = chosen[Len(fed)]
    BY <1>0
  <2>5. Len(g) - 1 = Len(fed) /\ (Len(g) > 1 => Len(fed) > 0)
    BY <1>0, <2>1
  <2> QED BY <2>1, <2>2, <2>3, <2>4, <2>5
<1>4. /\ todo' = IF s \in SubSteps THEN TurnsLeft(l, 0, s) ELSE <<>>
  BY <1>0, <1>1, SubCalls
<1>5. /\ cbuf'[<<"buf", 0>>] = [i \in Whole |-> IF i < l THEN x[i] ELSE 0]
      /\ cbuf'[<<"rest", 0>>] = cbuf[<<"rest", 0>>]
      /\ \A r \in SubSteps : cbuf'[<<"td", r>>] = cbuf[<<"td", r>>]
  <2>1. /\ <<"rest", 0>> \in Buffers /\ <<"buf", 0>> \in Buffers /\ \A r \in SubSteps : <<"td", r>> \in Buffers
    BY BufferNames
  <2>2. cbuf' = [cbuf EXCEPT ![<<"buf", 0>>] = [i \in Whole |-> IF i < length THEN x[i] ELSE 0]]
    BY DEF SubsampleUpdate
  <2> QED BY <1>0, <2>1, <2>2
<1>6. \A i \in 0 .. l - 1 : cbuf'[<<"buf", 0>>][i] = x[i]
  <2>1. \A i \in 0 .. l - 1 : i \in Whole /\ i < l
    BY <1>0 DEF Whole, NFft
  <2> QED BY <1>5, <2>1
<1>7. \A r \in SubSteps : HasTd(cbuf', r)
  <2>1. \A r \in SubSteps : HasTd(cbuf, r)
    <3>1. CASE SubSetup(fed, todo, cbuf)
      BY <1>1, <3>1 DEF SubSetup
    <3>2. CASE SubBlocks(l, fed, chosen, todo, cbuf)
      BY <3>2 DEF SubBlocks
    <3> QED BY <3>1, <3>2 DEF SubStage
  <2> QED BY <1>5, <2>1 DEF HasTd
<1>8. ASSUME ~Stale(g, h), NEW i \in 0 .. 3
      PROVE  cbuf[<<"rest", 0>>][i] = Smp(l, g, 1, Start(l, g) + 4 * 0 - 4 + i)
  <2>1. PICK t : t = Start(l, g) + 4 * 0 - 4 + i /\ t = Len(fed) * l - 4 + i /\ t \in Int /\ t < Len(fed) * l
    <3>1. PICK k : k = Len(fed) /\ k \in Nat
      BY <1>0
    <3>2. PICK T : T = k * l /\ T \in Nat
      BY <1>0, <3>1
    <3>3. Start(l, g) = T
      <4>1. Len(g) - 1 = k
        BY <1>0, <1>3, <3>1
      <4> QED BY <3>2, <4>1 DEF Start
    <3>4. T + 4 * 0 - 4 + i = T - 4 + i /\ T - 4 + i \in Int /\ T - 4 + i < T
      BY <3>2
    <3> QED BY <3>1, <3>2, <3>3, <3>4
  <2>2. CASE fed = <<>>
    <3>1. cbuf[<<"rest", 0>>][i] = 0
      BY <2>2 DEF SubStage, SubSetup, SubBlocks
    <3>2. t < 0
      <4>1. Len(fed) = 0
        BY <2>2
      <4>2. 0 * l = 0
        BY <1>0
      <4> QED BY <2>1, <4>1, <4>2
    <3> QED BY <2>1, <3>1, <3>2 DEF Smp
  <2>3. CASE fed # <<>>
    <3>1. SubBlocks(l, fed, chosen, <<>>, cbuf)
      BY <1>1, <2>3 DEF SubStage, SubSetup
    <3>2. Len(fed) > 0 /\ Len(g) > 1
      <4>1. Len(fed) # 0
        BY <1>0, <2>3 DEF Fed
      <4> QED BY <1>0, <1>3, <4>1
    <3>3. PICK r : r = chosen[Len(fed)] /\ r \in SubSteps
      BY <1>3, <1>8, <3>2 DEF Stale
    <3>4. PICK m : /\ m \in 0 .. l \div 4 /\ <<>> = TurnsLeft(l, m, r)
                   /\ Turning(l, fed, chosen, r, m, cbuf[<<"buf", 0>>], cbuf[<<"rest", 0>>])
      BY <3>1, <3>3 DEF SubBlocks
    <3>5. m > 0 /\ 4 * m = l /\ m \in Nat
      <4>1. m = l \div 4 /\ l \div 4 \in Nat \ {0} /\ 4 * (l \div 4) = l
        BY <1>0, <3>4, TurnsAre
      <4> QED BY <4>1
    <3>6. cbuf[<<"rest", 0>>][i] = Smp(l, fed, 1, Start(l, fed) + 4 * m - 4 + i)
      BY <3>4, <3>5 DEF Turning
    <3>7. Start(l, fed) + 4 * m - 4 + i = t
      <4>1. PICK k, T : k = Len(fed) /\ k \in Nat /\ T = k * l /\ T \in Nat
        BY <1>0
      <4>2. (k - 1) * l = T - l
        BY <1>0, <4>1
      <4>3. Start(l, fed) = T - l
        BY <4>1, <4>2 DEF Start
      <4>4. t = T - 4 + i
        BY <2>1, <4>1
      <4>5. T - l + 4 * m - 4 + i = T - 4 + i
        <5>1. T \in Int /\ l \in Int /\ m \in Int /\ i \in Int /\ 4 * m = l
          BY <1>0, <3>5, <4>1
        <5> QED BY ONLY <5>1
      <4> QED BY <4>3, <4>4, <4>5
    <3>8. Smp(l, g, 1, t) = Smp(l, fed, 1, t)
      <4>1. l \in Lengths /\ Fed(l, fed) /\ g = Append(fed, x)
        BY <1>0
      <4> QED BY ONLY <4>1, <1>2, <2>1, SmpGrows
    <3> QED BY <2>1, <3>6, <3>7, <3>8
  <2> QED BY <2>2, <2>3
<1>9. SubBlocks(l, g, h, todo', cbuf')
  <2>1. ASSUME s \notin SubSteps
        PROVE  todo' = <<>> /\ \A i \in 0 .. l - 1 : cbuf'[<<"buf", 0>>][i] = g[Len(g)][i]
    BY <1>3, <1>4, <1>6, <2>1
  <2>2. ASSUME s \in SubSteps
        PROVE  \E m \in 0 .. l \div 4 :
                 todo' = TurnsLeft(l, m, s) /\ Turning(l, g, h, s, m, cbuf'[<<"buf", 0>>], cbuf'[<<"rest", 0>>])
    <3>1. 0 \in 0 .. l \div 4 /\ todo' = TurnsLeft(l, 0, s)
      <4>1. l \div 4 \in Nat
        BY <1>0
      <4> QED BY <1>4, <2>2, <4>1
    <3>2. Turning(l, g, h, s, 0, cbuf'[<<"buf", 0>>], cbuf'[<<"rest", 0>>])
      <4>1. ~(0 > 0) /\ \A i \in 0 .. l - 1 : ~(i < 4 * 0)
        BY <1>0
      <4> QED BY <1>3, <1>5, <1>6, <1>8, <4>1 DEF Turning
    <3> QED BY <3>1, <3>2
  <2> QED BY <1>3, <1>7, <2>1, <2>2 DEF SubBlocks
<1> QED BY <1>1, <1>2, <1>3, <1>9 DEF SubStage

\* Calls of the subsample delay, and how far they have come.
SubsampleInv ==
  /\ TypeInv
  /\ net = "subsample" =>
       /\ fed # <<>> => subdelay = chosen[Len(fed)]
       /\ SubStage(length, fed, chosen, todo, cbuf)

LEMMA SubsampleInvInit == Init => SubsampleInv
<1> SUFFICES ASSUME Init PROVE SubsampleInv
  OBVIOUS
<1>1. fed = <<>>
  BY DEF Init
<1> QED BY <1>1, TypeInvInit, SubInit DEF SubsampleInv

LEMMA SubsampleInvNext == SubsampleInv /\ [Next]_vars => SubsampleInv'
<1> SUFFICES ASSUME SubsampleInv, [Next]_vars
             PROVE  SubsampleInv'
  OBVIOUS
<1>0. TypeInv /\ TypeInv'
  BY TypeInvNext DEF SubsampleInv
<1>1. CASE UNCHANGED vars
  BY <1>0, <1>1 DEF vars, SubsampleInv
<1>2. CASE Next /\ todo # <<>>
  <2>1. UNCHANGED <<length, realsize, net, nCoeffs, subdelay, fed, chosen>>
    BY <1>0, <1>2, CallTyped
  <2>2. ASSUME net = "subsample"
        PROVE  SubStage(length, fed, chosen, todo', cbuf')
    <3>1. SubStage(length, fed, chosen, todo, cbuf)
      BY <2>2 DEF SubsampleInv
    <3>2. CASE SubSetup(fed, todo, cbuf)
      BY <1>0, <1>2, <3>2, SubSetupStep DEF SubStage
    <3>3. CASE SubBlocks(length, fed, chosen, todo, cbuf)
      BY <1>0, <1>2, <3>3, TurnStep DEF SubStage
    <3> QED BY <3>1, <3>2, <3>3 DEF SubStage
  <2> QED BY <1>0, <2>1, <2>2 DEF SubsampleInv
<1>3. CASE Next /\ todo = <<>>
  <2>1. \/ \E x \in Blocks(length) : TakeBlock(x)
        \/ \E x \in Blocks(length) : \E s \in -StepCount .. StepCount : SubsampleUpdate(x, s)
    BY <1>3 DEF Next, ToCbuf, RuntimeToCbuf, Dump, Time2FreqCall, Freq2TimeCall, MixInputCall, MixOutputCall,
         ConvolveCall, ConvolveAddCall, ConvolveInplaceCall, DiracConvolveCall, CrossfadeCall, EvalCall, TdNew,
         SubsampleTurn, Does
  <2>2. CASE \E x \in Blocks(length) : TakeBlock(x)
    <3>1. net # "subsample" /\ net' = net
      BY <2>2 DEF TakeBlock, NextBlock
    <3> QED BY <1>0, <3>1 DEF SubsampleInv
  <2>3. CASE \E x \in Blocks(length) : \E s \in -StepCount .. StepCount : SubsampleUpdate(x, s)
    <3>1. PICK x \in Blocks(length), s \in -StepCount .. StepCount : SubsampleUpdate(x, s)
      BY <2>3
    <3>2. net = "subsample"
      BY <3>1 DEF SubsampleUpdate
    <3>3. SubStage(length, fed, chosen, todo, cbuf)
      BY <3>2 DEF SubsampleInv
    <3>4. /\ UNCHANGED <<length, realsize, net, nCoeffs>> /\ subdelay' = s /\ chosen'[Len(fed')] = s
          /\ SubStage(length, fed', chosen', todo', cbuf')
      BY <1>0, <3>1, <3>3, FragmentTaken
    <3> QED BY <1>0, <3>4 DEF SubsampleInv
  <2> QED BY <2>1, <2>2, <2>3
<1> QED BY <1>1, <1>2, <1>3

LEMMA SubsampleInvAlways == Spec => []SubsampleInv
BY SubsampleInvInit, SubsampleInvNext, PTL DEF Spec

LEMMA DirectDelay ==
  ASSUME length \in Lengths, net = "subsample", NEW t \in Int
  PROVE  Direct(LAMBDA n : SubFilter(subdelay, n), SubFilterLength, Signal, t) = Delayed(length, fed, subdelay, t)
<1>1. SubFilterLength = 3 /\ SubFilterLength - 1 = 2
  BY DEF SubFilterLength
<1>2. Direct(LAMBDA n : SubFilter(subdelay, n), SubFilterLength, Signal, t)
      = Sum([i \in 0 .. 2 |-> SubFilter(subdelay, i) * Signal(t - i)], 3)
  BY <1>1 DEF Direct
<1>3. ASSUME NEW i \in 0 .. 2
      PROVE  Signal(t - i) = Smp(length, fed, 1, t - i)
  <2>1. PICK u \in Int : u = t - i
    OBVIOUS
  <2>2. Signal(u) = Smp(length, fed, 1, u)
    BY 1 \in Int, SampleIs DEF Signal
  <2> QED BY <2>1, <2>2
<1>4. [i \in 0 .. 2 |-> SubFilter(subdelay, i) * Signal(t - i)] = DelayTerms(length, fed, subdelay, t)
  BY <1>3 DEF DelayTerms
<1> QED BY <1>2, <1>4 DEF Delayed

LEMMA SubsampleInvSeamless == SubsampleInv => SubsampleIsSeamless
<1> SUFFICES ASSUME SubsampleInv, Done, net = "subsample", NEW j \in Half
             PROVE  IF subdelay \notin SubSteps THEN cbuf[<<"buf", 0>>][j] = fed[Len(fed)][j]
                    ELSE \/ OverlapsStale(j)
                         \/ cbuf[<<"buf", 0>>][j] =
                              Direct(LAMBDA n : SubFilter(subdelay, n), SubFilterLength, Signal, Time(j))
  BY DEF SubsampleIsSeamless
<1>1. /\ length \in Lengths /\ Fed(length, fed) /\ subdelay = chosen[Len(fed)] /\ j \in 0 .. length - 1
      /\ SubBlocks(length, fed, chosen, <<>>, cbuf)
  BY DEF SubsampleInv, TypeInv, Done, SubStage, SubSetup, Half
<1>2. CASE subdelay \notin SubSteps
  BY <1>1, <1>2 DEF SubBlocks
<1>3. CASE subdelay \in SubSteps
  <2>1. PICK m : /\ m \in 0 .. length \div 4 /\ <<>> = TurnsLeft(length, m, subdelay)
                 /\ Turning(length, fed, chosen, subdelay, m, cbuf[<<"buf", 0>>], cbuf[<<"rest", 0>>])
    BY <1>1, <1>3 DEF SubBlocks
  <2>2. 4 * m = length /\ length \in Nat
    <3>1. m = length \div 4 /\ 4 * (length \div 4) = length
      BY <1>1, <2>1, TurnsAre
    <3> QED BY <1>1, <3>1, LengthIs
  <2>3. j < 4 * m
    BY <1>1, <2>2
  <2>4. (j < 4 /\ Stale(fed, chosen)) \/ cbuf[<<"buf", 0>>][j] = Delayed(length, fed, subdelay, Start(length, fed) + j)
    BY <1>1, <2>1, <2>3 DEF Turning
  <2>5. OverlapsStale(j) <=> j < 4 /\ Stale(fed, chosen)
    BY SubBlockIs DEF OverlapsStale, Stale
  <2>6. PICK t : t = Time(j) /\ t = Start(length, fed) + j /\ t \in Int
    <3>1. Len(fed) > 0
      <4>1. fed # <<>>
        BY DEF Done
      <4> QED BY <1>1, <4>1 DEF Fed
    <3>2. Start(length, fed) \in Nat
      BY <1>1, <3>1, LastSample
    <3>3. Start(length, fed) + j \in Int
      BY <1>1, <3>2
    <3>4. Time(j) = Start(length, fed) + j
      BY DEF Time, Start
    <3> QED BY <3>3, <3>4
  <2>7. Direct(LAMBDA n : SubFilter(subdelay, n), SubFilterLength, Signal, t) = Delayed(length, fed, subdelay, t)
    BY <1>1, <2>6, DirectDelay
  <2> QED BY <1>3, <2>4, <2>5, <2>6, <2>7
<1> QED BY <1>2, <1>3

\* For every length and input: the subsample delay is the convolution with the
\* coefficients of the delay chosen, over the edges of its blocks and of the
\* fragments, whatever was chosen before - but for the first block after a call
\* with a delay out of range, which leaves its fragment alone (delay.cpp:148-180).
THEOREM SubsampleSeamless == Spec => []SubsampleIsSeamless
BY SubsampleInvAlways, SubsampleInvSeamless, PTL

================================================================================
