---------------------------- MODULE SettingsProofs ----------------------------
(***************************************************************************)
(* The shared settings, for every number of slots and bands, every range   *)
(* of the sliders, every set of files and of requested numbers, and any    *)
(* number of commands, clicks and set-ups: operations that do not share a  *)
(* setting take effect as if one by one, and a file is put into an empty   *)
(* slot as a whole.                                                        *)
(*                                                                         *)
(* The invariant follows each setting through the writes of the operation  *)
(* that is under way, and each empty slot through the one operation that   *)
(* fills it and the reads of the player.  Writes and reads are sequences   *)
(* put together by FlattenSeq, so where an element of a flattened sequence *)
(* comes from is proved first.                                             *)
(***************************************************************************)
EXTENDS Settings, WellFoundedInduction, TLAPS

-----------------------------------------------------------------------------
(* Sequences.                                                              *)

\* A set that holds zero and with each number the next holds all of them,
\* since there is no least number that it does not hold.
LEMMA Induction ==
  ASSUME NEW S, 0 \in S, \A n \in Nat : n \in S => n + 1 \in S
  PROVE  Nat \subseteq S
<1> DEFINE T == Nat \ S
           R == OpToRel(<, Nat)
<1>1. SUFFICES ASSUME T # {} PROVE FALSE
  OBVIOUS
<1>2. \A m, n \in Nat : m < n => <<m, n>> \in R
  BY DEF OpToRel
<1>3. PICK x \in T : \A y \in T : ~(<<y, x>> \in R)
  <2>1. T \subseteq Nat /\ IsWellFoundedOn(R, Nat)
    BY NatLessThanWellFounded
  <2> HIDE DEF T, R
  <2> QED BY <1>1, <2>1, WFMin
<1> HIDE DEF R
<1>4. x \in Nat \ {0} /\ x - 1 \in Nat /\ x - 1 < x /\ (x - 1) + 1 = x
  BY <1>3
<1>5. x - 1 \in S
  BY <1>2, <1>3, <1>4
<1> QED BY <1>3, <1>4, <1>5

\* The elements of two sequences put together.
LEMMA JoinAt ==
  ASSUME NEW T, NEW s \in Seq(T), NEW t \in Seq(T)
  PROVE  /\ s \o t \in Seq(T) /\ Len(s \o t) = Len(s) + Len(t)
         /\ Len(s) \in Nat /\ Len(t) \in Nat
         /\ \A j \in 1 .. Len(s) : (s \o t)[j] = s[j]
         /\ \A j \in 1 .. Len(t) : (s \o t)[Len(s) + j] = t[j]
OBVIOUS

\* The elements of a sequence without its first.
LEMMA HeadAndTail ==
  ASSUME NEW T, NEW s \in Seq(T), s # <<>>
  PROVE  /\ Head(s) = s[1] /\ Tail(s) \in Seq(T) /\ Len(Tail(s)) = Len(s) - 1
         /\ Len(s) \in Nat \ {0} /\ Head(s) \in T
         /\ \A j \in 1 .. Len(s) - 1 : Tail(s)[j] = s[j + 1]
OBVIOUS

\* Nothing is left of a sequence when its only element is taken.
LEMMA TailEmpty ==
  ASSUME NEW T, NEW s \in Seq(T), s # <<>>
  PROVE  Tail(s) = <<>> <=> ~(Len(s) > 1)
<1>1. PICK t : t = Tail(s)
  OBVIOUS
<1>2. t \in Seq(T) /\ Len(t) = Len(s) - 1 /\ Len(s) \in Nat \ {0}
  BY <1>1, HeadAndTail
<1>3. ASSUME t # <<>> PROVE Len(t) \in Nat \ {0}
  BY ONLY <1>2, <1>3, HeadAndTail
<1>4. t # <<>> => Len(t) # 0
  BY ONLY <1>3
<1>5. t = <<>> => Len(t) = 0
  OBVIOUS
<1> QED BY ONLY <1>1, <1>2, <1>4, <1>5

\* The sequences of S one after the other, as FlattenSeq puts them together.
Strung(S, m, f) == f = [i \in 1 .. m |-> IF i = 1 THEN S[i] ELSE f[i - 1] \o S[i]]

\* A recursive function is what its equation says, since there is one for
\* which the equation holds.
LEMMA Flattened ==
  ASSUME NEW S, NEW n \in Nat \ {0}, Len(S) = n
  PROVE  \E f : Strung(S, n, f) /\ FlattenSeq(S) = f[n]
<1> DEFINE A == {m \in Nat : \E f : Strung(S, m, f)}
<1>1. 0 \in A
  <2> DEFINE f == [i \in 1 .. 0 |-> S[i]]
  <2>1. f = [i \in 1 .. 0 |-> IF i = 1 THEN S[i] ELSE f[i - 1] \o S[i]]
    OBVIOUS
  <2> QED BY <2>1 DEF Strung
<1>2. ASSUME NEW m \in Nat, m \in A PROVE m + 1 \in A
  <2>1. PICK f : Strung(S, m, f)
    BY <1>2
  <2> DEFINE v == IF m = 0 THEN S[m + 1] ELSE f[m] \o S[m + 1]
             h == [i \in 1 .. m + 1 |-> IF i <= m THEN f[i] ELSE v]
  <2>2. \A i \in 1 .. m : f[i] = IF i = 1 THEN S[i] ELSE f[i - 1] \o S[i]
    BY <2>1, Zenon DEF Strung
  <2>3. v = IF m = 0 THEN S[m + 1] ELSE f[m] \o S[m + 1]
    OBVIOUS
  <2> HIDE DEF v
  <2>4. h[m + 1] = v /\ \A i \in 1 .. m : h[i] = f[i]
    OBVIOUS
  <2>5. h = [i \in 1 .. m + 1 |-> h[i]]
    OBVIOUS
  <2> HIDE DEF h
  <2>6. ASSUME NEW i \in 1 .. m + 1 PROVE h[i] = IF i = 1 THEN S[i] ELSE h[i - 1] \o S[i]
    <3>1. CASE i \in 1 .. m
      <4>1. h[i] = f[i] /\ (i # 1 => h[i - 1] = f[i - 1])
        BY <2>4, <3>1
      <4> QED BY <2>2, <3>1, <4>1
    <3>2. CASE i = m + 1
      <4>1. h[i] = v /\ (i = 1 <=> m = 0) /\ (i # 1 => i - 1 = m /\ h[i - 1] = f[m])
        BY <2>4, <3>2
      <4> QED BY ONLY <2>3, <3>2, <4>1
    <3> QED BY <3>1, <3>2
  <2>7. h = [i \in 1 .. m + 1 |-> IF i = 1 THEN S[i] ELSE h[i - 1] \o S[i]]
    BY <2>5, <2>6
  <2>8. Strung(S, m + 1, h)
    BY <2>7, Zenon DEF Strung
  <2>9. \E f1 : Strung(S, m + 1, f1)
    BY <2>8, Zenon
  <2> QED BY <2>9
<1>3. Nat \subseteq A
  <2> HIDE DEF A
  <2> QED BY <1>1, <1>2, Induction
<1> DEFINE flatten == CHOOSE f : f = [i \in 1 .. Len(S) |-> IF i = 1 THEN S[i] ELSE f[i - 1] \o S[i]]
<1>4. \E f : f = [i \in 1 .. Len(S) |-> IF i = 1 THEN S[i] ELSE f[i - 1] \o S[i]]
  BY <1>3 DEF Strung
<1>5. Strung(S, n, flatten)
  BY <1>4 DEF Strung
<1>6. FlattenSeq(S) = flatten[n]
  BY DEF FlattenSeq
<1> HIDE DEF flatten
<1> QED BY <1>5, <1>6

\* Element i of w is element h[i] of block g[i], of the first m of S; the
\* blocks and their elements are in order, and none is left out.
Places(w, S, m, g, h) ==
  /\ g \in [1 .. Len(w) -> 1 .. m] /\ h \in [1 .. Len(w) -> Nat]
  /\ \A i \in 1 .. Len(w) : h[i] \in 1 .. Len(S[g[i]]) /\ w[i] = S[g[i]][h[i]]
  /\ \A i, j \in 1 .. Len(w) : i < j => g[i] < g[j] \/ (g[i] = g[j] /\ h[i] < h[j])
  /\ \A a \in 1 .. m : \A b \in 1 .. Len(S[a]) : \E i \in 1 .. Len(w) : g[i] = a /\ h[i] = b

\* One block more.
LEMMA PlacesNext ==
  ASSUME NEW T, NEW S, NEW m \in Nat, NEW w \in Seq(T), S[m + 1] \in Seq(T),
         NEW g, NEW h, Places(w, S, m, g, h)
  PROVE  /\ w \o S[m + 1] \in Seq(T)
         /\ \E x, y : Places(w \o S[m + 1], S, m + 1, x, y)
<1> DEFINE p == Len(w)
           b == S[m + 1]
           q == Len(b)
           u == w \o b
           x == [i \in 1 .. p + q |-> IF i <= p THEN g[i] ELSE m + 1]
           y == [i \in 1 .. p + q |-> IF i <= p THEN h[i] ELSE i - p]
<1>1. /\ u \in Seq(T) /\ Len(u) = p + q /\ p \in Nat /\ q \in Nat
      /\ \A j \in 1 .. p : u[j] = w[j]
      /\ \A j \in 1 .. q : u[p + j] = b[j]
  BY JoinAt
<1>2. /\ g \in [1 .. p -> 1 .. m] /\ h \in [1 .. p -> Nat]
      /\ \A i \in 1 .. p : h[i] \in 1 .. Len(S[g[i]]) /\ w[i] = S[g[i]][h[i]]
      /\ \A i, j \in 1 .. p : i < j => g[i] < g[j] \/ (g[i] = g[j] /\ h[i] < h[j])
      /\ \A a \in 1 .. m : \A c \in 1 .. Len(S[a]) : \E i \in 1 .. p : g[i] = a /\ h[i] = c
  BY DEF Places
<1> HIDE DEF p, q, u
<1>3. /\ DOMAIN x = 1 .. p + q /\ DOMAIN y = 1 .. p + q
      /\ \A i \in 1 .. p : x[i] = g[i] /\ y[i] = h[i]
      /\ \A i \in p + 1 .. p + q : x[i] = m + 1 /\ y[i] = i - p
  BY <1>1
<1>4. x \in [1 .. p + q -> 1 .. m + 1] /\ y \in [1 .. p + q -> Nat]
  BY <1>1, <1>2
<1> HIDE DEF x, y
<1>5. ASSUME NEW i \in 1 .. p + q PROVE y[i] \in 1 .. Len(S[x[i]]) /\ u[i] = S[x[i]][y[i]]
  <2>1. CASE i \in 1 .. p
    BY <1>1, <1>2, <1>3, <2>1
  <2>2. CASE i \in p + 1 .. p + q
    <3>1. i - p \in 1 .. q /\ p + (i - p) = i
      BY <1>1, <2>2
    <3>2. u[i] = b[i - p]
      BY <1>1, <3>1
    <3> QED BY <1>3, <2>2, <3>1, <3>2 DEF q
  <2> QED BY <1>1, <2>1, <2>2
<1>6. ASSUME NEW i \in 1 .. p + q, NEW j \in 1 .. p + q, i < j
      PROVE  x[i] < x[j] \/ (x[i] = x[j] /\ y[i] < y[j])
  <2>1. CASE j \in 1 .. p
    <3>1. i \in 1 .. p
      BY <1>1, <1>6, <2>1
    <3> QED BY <1>2, <1>3, <1>6, <2>1, <3>1
  <2>2. CASE i \in 1 .. p /\ j \in p + 1 .. p + q
    <3>1. x[i] = g[i] /\ x[j] = m + 1 /\ g[i] \in 1 .. m
      BY <1>2, <1>3, <2>2
    <3> QED BY <3>1
  <2>3. CASE i \in p + 1 .. p + q /\ j \in p + 1 .. p + q
    <3>1. x[i] = x[j] /\ y[i] = i - p /\ y[j] = j - p
      BY <1>3, <2>3
    <3> QED BY <1>1, <1>6, <3>1
  <2> QED BY <1>1, <1>6, <2>1, <2>2, <2>3
<1>7. ASSUME NEW a \in 1 .. m + 1, NEW c \in 1 .. Len(S[a])
      PROVE  \E i \in 1 .. p + q : x[i] = a /\ y[i] = c
  <2>1. CASE a \in 1 .. m
    <3>1. PICK i \in 1 .. p : g[i] = a /\ h[i] = c
      BY <1>2, <1>7, <2>1
    <3>2. i \in 1 .. p + q
      BY <1>1
    <3> QED BY <1>3, <3>1, <3>2
  <2>2. CASE a = m + 1
    <3>1. c \in 1 .. q
      BY <1>7, <2>2 DEF q
    <3>2. p + c \in p + 1 .. p + q /\ (p + c) - p = c /\ p + c \in 1 .. p + q
      BY <1>1, <3>1
    <3>3. x[p + c] = m + 1 /\ y[p + c] = c
      BY <1>3, <3>2
    <3> QED BY <2>2, <3>2, <3>3
  <2> QED BY <1>7, <2>1, <2>2
<1>8. Places(u, S, m + 1, x, y)
  BY <1>1, <1>4, <1>5, <1>6, <1>7 DEF Places
<1> QED BY <1>1, <1>8 DEF u

\* Where the elements of a flattened sequence come from.
LEMMA FlattenPlaces ==
  ASSUME NEW T, NEW S, NEW n \in Nat, Len(S) = n, S = <<>> \/ n # 0,
         \A i \in 1 .. n : S[i] \in Seq(T)
  PROVE  FlattenSeq(S) \in Seq(T) /\ \E g, h : Places(FlattenSeq(S), S, n, g, h)
<1>1. Places(<<>>, S, 0, <<>>, <<>>)
  <2>1. Len(<<>>) = 0 /\ 1 .. 0 = {} /\ <<>> \in [{} -> 1 .. 0] /\ <<>> \in [{} -> Nat]
    OBVIOUS
  <2> QED BY <2>1 DEF Places
<1>2. CASE n = 0
  <2>1. FlattenSeq(S) = <<>>
    BY <1>2 DEF FlattenSeq
  <2> QED BY <1>1, <1>2, <2>1
<1>3. CASE n # 0
  <2>1. PICK f : Strung(S, n, f) /\ FlattenSeq(S) = f[n]
    BY <1>3, Flattened
  <2>2. \A i \in 1 .. n : f[i] = IF i = 1 THEN S[i] ELSE f[i - 1] \o S[i]
    BY <2>1, Zenon DEF Strung
  <2> DEFINE A == {m \in Nat : m + 1 <= n =>
                     f[m + 1] \in Seq(T) /\ \E g, h : Places(f[m + 1], S, m + 1, g, h)}
  <2>3. 0 \in A
    <3>1. 1 \in 1 .. n /\ 0 + 1 = 1
      BY <1>3
    <3>2. f[1] = S[1] /\ S[1] \in Seq(T)
      BY <2>2, <3>1
    <3>3. <<>> \in Seq(T) /\ <<>> \o S[1] = S[1]
      BY <3>2
    <3>4. \E x, y : Places(<<>> \o S[0 + 1], S, 0 + 1, x, y)
      BY <1>1, <3>1, <3>2, <3>3, PlacesNext
    <3> QED BY <3>1, <3>2, <3>3, <3>4
  <2>4. ASSUME NEW m \in Nat, m \in A PROVE m + 1 \in A
    <3>1. SUFFICES ASSUME (m + 1) + 1 <= n
          PROVE  /\ f[(m + 1) + 1] \in Seq(T)
                 /\ \E g, h : Places(f[(m + 1) + 1], S, (m + 1) + 1, g, h)
      OBVIOUS
    <3> DEFINE k == m + 1
    <3>2. PICK g, h : f[k] \in Seq(T) /\ Places(f[k], S, k, g, h)
      BY <2>4, <3>1
    <3>3. k + 1 \in 1 .. n /\ k + 1 # 1 /\ (k + 1) - 1 = k /\ k \in Nat
      BY <3>1
    <3> HIDE DEF k
    <3>4. f[k + 1] = f[k] \o S[k + 1] /\ S[k + 1] \in Seq(T)
      BY <2>2, <3>3
    <3>5. f[k] \o S[k + 1] \in Seq(T) /\ \E x, y : Places(f[k] \o S[k + 1], S, k + 1, x, y)
      BY <3>2, <3>3, <3>4, PlacesNext
    <3> QED BY <3>4, <3>5 DEF k
  <2>5. Nat \subseteq A
    <3> HIDE DEF A
    <3> QED BY <2>3, <2>4, Induction
  <2>6. n - 1 \in Nat /\ (n - 1) + 1 = n
    BY <1>3
  <2>7. f[n] \in Seq(T) /\ \E g, h : Places(f[n], S, n, g, h)
    BY <2>5, <2>6
  <2> QED BY <2>1, <2>7
<1> QED BY <1>2, <1>3

\* Elements that come from a later block come later.
LEMMA PlacesInOrder ==
  ASSUME NEW w, NEW S, NEW m \in Nat, NEW g, NEW h, Places(w, S, m, g, h),
         NEW i \in 1 .. Len(w), NEW j \in 1 .. Len(w),
         g[i] < g[j] \/ (g[i] = g[j] /\ h[i] < h[j])
  PROVE  i < j
<1>1. g[i] \in 1 .. m /\ g[j] \in 1 .. m /\ h[i] \in Nat /\ h[j] \in Nat
  BY DEF Places
<1>2. ~(j < i) /\ i # j
  <2>1. j < i => g[j] < g[i] \/ (g[j] = g[i] /\ h[j] < h[i])
    BY DEF Places
  <2> QED BY <1>1, <2>1
<1> QED BY <1>2
-----------------------------------------------------------------------------
(* What the settings and the operations are.                               *)

Threads == {"cli", "ui"}
Readers == {"ui", "player"}

\* The values of setting k, and those of them that a page shows.
Kind(k) ==
  IF k = Mag THEN [Bands -> Int] \cup {GARBLED}
  ELSE IF k[1] \in {"filename", "metadata"} THEN FileNames \cup {NONE, GARBLED} ELSE Int

PageKind(k) ==
  IF k = Mag THEN [Bands -> Range0] ELSE IF k[1] = "level" THEN Range0 ELSE Kind(k)

IsMap(s) == s = [k \in Keys |-> s[k]]

\* Settings as they may be found, as they may be meant, and on a page.
Holds(s) == IsMap(s) /\ \A k \in Keys : s[k] \in Kind(k)
Meant(s) == Holds(s) /\ s[Mag] \in [Bands -> Int]
Shows(s) == IsMap(s) /\ \A k \in Keys : s[k] \in PageKind(k)

Values == UNION {Kind(k) : k \in Keys}
Entries == [key : Keys, val : Values]
WritesOK(w) == w \in Seq(Entries) /\ \A i \in DOMAIN w : w[i].val \in Kind(w[i].key)

\* The operations of the two threads.
Applied(page, s) == [kind |-> "apply", page |-> page, shown |-> s]
Shown0 == {s \in [Keys -> Values] : Shows(s)}

Numbers == {Number(<<name, n>>, v) : name \in {"enable", "level"}, n \in 0 .. NSlots, v \in Int}
BandsSet == {Band(b, v) : b \in Bands, v \in Int}
FilesSet == {File(n, f) : n \in Slots, f \in FileNames \cup {NONE}}
Applies == {Applied(page, s) : page \in {"eq", "file"}, s \in Shown0}
Jsons == {Json(l, m, ok) : l \in Int, m \in [Bands -> Int], ok \in BOOLEAN}

OpsOf(t) == IF t = "cli" THEN {Idle} \cup Numbers \cup BandsSet \cup FilesSet
            ELSE {Idle} \cup Applies \cup Jsons
Ops == OpsOf("cli") \cup OpsOf("ui")

\* The kind of a setting is what the type invariant wants of it.
LEMMA ValidKind ==
  ASSUME NEW k \in Keys, NEW v PROVE Valid(k, v) <=> v \in Kind(k)
BY DEF Valid, Kind

\* Which settings there are.
LEMMA KeyFacts ==
  /\ Mag \in Keys /\ Mag = <<"mag", 0>>
  /\ \A n \in 0 .. NSlots : <<"enable", n>> \in Keys /\ <<"level", n>> \in Keys
  /\ \A n \in Slots : SlotKeys(n) \subseteq Keys
  /\ \A k \in FileKeys : k = <<k[1], k[2]>> /\ k[2] \in Slots
                         /\ k[1] \in {"enable", "resample", "level", "filename", "metadata"}
  /\ \A k \in Keys : k # Mag => k[1] # "mag"
  /\ \A k \in Keys : k[1] \in {"filename", "metadata", "resample"} => k \in FileKeys
  /\ Slots \subseteq 0 .. NSlots
  /\ FileKeys \subseteq Keys /\ EqKeys \subseteq Keys
<1>1. Mag \in Keys /\ Mag = <<"mag", 0>>
  BY DEF Keys, EqKeys, Mag
<1>2. ASSUME NEW n \in 0 .. NSlots PROVE <<"enable", n>> \in Keys /\ <<"level", n>> \in Keys
  BY SettingsAssumption DEF Keys, EqKeys, FileKeys, Slots
<1>3. \A n \in Slots : SlotKeys(n) \subseteq Keys
  BY DEF SlotKeys, Keys, FileKeys
<1>4. \A k \in FileKeys : k = <<k[1], k[2]>> /\ k[2] \in Slots
                          /\ k[1] \in {"enable", "resample", "level", "filename", "metadata"}
  BY DEF FileKeys
<1>5. \A k \in Keys : k # Mag => k[1] # "mag"
  BY DEF Keys, FileKeys, EqKeys, Mag
<1>6. \A k \in Keys : k[1] \in {"filename", "metadata", "resample"} => k \in FileKeys
  BY DEF Keys, FileKeys, EqKeys, Mag
<1>7. Slots \subseteq 0 .. NSlots
  BY SettingsAssumption DEF Slots
<1>8. FileKeys \subseteq Keys /\ EqKeys \subseteq Keys
  BY DEF Keys
<1> QED BY <1>1, <1>2, <1>3, <1>4, <1>5, <1>6, <1>7, <1>8

\* What each kind of setting holds.
LEMMA KindFacts ==
  /\ Kind(Mag) = [Bands -> Int] \cup {GARBLED} /\ PageKind(Mag) = [Bands -> Range0]
  /\ \A n : /\ Kind(<<"enable", n>>) = Int /\ PageKind(<<"enable", n>>) = Int
            /\ Kind(<<"level", n>>) = Int /\ PageKind(<<"level", n>>) = Range0
            /\ Kind(<<"filename", n>>) = FileNames \cup {NONE, GARBLED}
            /\ PageKind(<<"filename", n>>) = FileNames \cup {NONE, GARBLED}
            /\ Kind(<<"metadata", n>>) = FileNames \cup {NONE, GARBLED}
            /\ PageKind(<<"metadata", n>>) = FileNames \cup {NONE, GARBLED}
            /\ Kind(<<"resample", n>>) = Int /\ PageKind(<<"resample", n>>) = Int
BY DEF Kind, PageKind, Mag

\* A page shows values that the setting may have.
LEMMA PageKindKind ==
  ASSUME NEW k \in Keys PROVE PageKind(k) \subseteq Kind(k)
<1>1. Range0 \subseteq Int
  BY SettingsAssumption DEF Range0
<1>2. k[1] = "level" /\ k # Mag => Kind(k) = Int
  BY DEF Kind
<1> QED BY <1>1, <1>2, KindFacts DEF PageKind

\* What a page shows can be meant: applying it garbles nothing.
LEMMA ShowsMeant == ASSUME NEW s, Shows(s) PROVE Meant(s) /\ Holds(s)
<1>1. Holds(s)
  BY PageKindKind DEF Shows, Holds
<1>2. s[Mag] \in [Bands -> Int]
  <2>1. s[Mag] \in [Bands -> Range0] /\ Range0 \subseteq Int
    BY KeyFacts, KindFacts, SettingsAssumption DEF Shows, Range0
  <2> QED BY <2>1
<1> QED BY <1>1, <1>2 DEF Meant

\* Every value of a setting is among the values.
LEMMA InValues == ASSUME NEW k \in Keys, NEW v \in Kind(k) PROVE v \in Values
BY DEF Values

\* A number that is clamped is in the range of the sliders.
LEMMA ClampRange == ASSUME NEW v \in Int PROVE Clamp(v) \in Range0 /\ Clamp(v) \in Int
BY SettingsAssumption DEF Clamp, Range0

\* A page can show the defaults, as reset() makes it do.
LEMMA DefaultShows == Shows([k \in Keys |-> Default(k)])
<1> DEFINE s == [k \in Keys |-> Default(k)]
<1>1. IsMap(s)
  BY DEF IsMap
<1>2. 0 \in Range0 /\ 0 \in Int
  BY SettingsAssumption DEF Range0
<1>3. ASSUME NEW k \in Keys PROVE s[k] \in PageKind(k)
  <2>1. s[k] = Default(k)
    OBVIOUS
  <2>2. CASE k = Mag
    <3>1. [b \in Bands |-> 0] \in [Bands -> Range0]
      BY <1>2
    <3> QED BY <2>1, <2>2, <3>1, KindFacts DEF Default
  <2>3. CASE k # Mag
    BY <1>2, <2>1, <2>3 DEF Default, PageKind, Kind
  <2> QED BY <2>2, <2>3
<1> QED BY <1>1, <1>3 DEF Shows

\* A page that shows something else of the right kind.
LEMMA ShowsExcept ==
  ASSUME NEW s, Shows(s), NEW k \in Keys, NEW v \in PageKind(k)
  PROVE  Shows([s EXCEPT ![k] = v])
<1>1. s = [x \in Keys |-> s[x]] /\ \A x \in Keys : s[x] \in PageKind(x)
  BY DEF Shows, IsMap
<1>2. [s EXCEPT ![k] = v] = [x \in Keys |-> IF x = k THEN v ELSE s[x]]
  BY <1>1
<1> QED BY <1>1, <1>2 DEF Shows, IsMap

-----------------------------------------------------------------------------
(* The operations.                                                         *)

\* The form of an operation.
Formed(o) ==
  \/ o = Idle
  \/ \E name \in {"enable", "level"}, n \in 0 .. NSlots, v \in Int : o = Number(<<name, n>>, v)
  \/ \E b \in Bands, v \in Int : o = Band(b, v)
  \/ \E n \in Slots, f \in FileNames \cup {NONE} : o = File(n, f)
  \/ \E page \in {"eq", "file"}, s \in Shown0 : o = Applied(page, s)
  \/ \E l \in Int, m \in [Bands -> Int], ok \in BOOLEAN : o = Json(l, m, ok)

\* Every operation has one of these forms.
LEMMA OpsFormed == ASSUME NEW o \in Ops PROVE Formed(o)
BY DEF Ops, OpsOf, Numbers, BandsSet, FilesSet, Applies, Jsons, Formed

\* The server's thread and the UI thread have operations of different kinds.
LEMMA Kinds ==
  /\ \A o \in OpsOf("cli") : o.kind \in {"idle", "number", "band", "file"}
  /\ \A o \in OpsOf("ui") : o.kind \in {"idle", "apply", "json"}
  /\ \A o \in Ops : o.kind = "idle" => Touches(o) = {}
<1>1. \A o \in OpsOf("cli") : o.kind \in {"idle", "number", "band", "file"}
  BY DEF OpsOf, Numbers, BandsSet, FilesSet, Idle, Number, Band, File
<1>2. \A o \in OpsOf("ui") : o.kind \in {"idle", "apply", "json"}
  BY DEF OpsOf, Applies, Jsons, Idle, Applied, Json
<1>3. \A o : o.kind = "idle" => Touches(o) = {}
  BY DEF Touches
<1> QED BY <1>1, <1>2, <1>3

\* What each kind of operation touches.
LEMMA TouchesOf ==
  /\ Touches(Idle) = {}
  /\ \A k, v : Touches(Number(k, v)) = {k}
  /\ \A b, v : Touches(Band(b, v)) = {Mag}
  /\ \A n, f : Touches(File(n, f)) = SlotKeys(n)
  /\ \A page, s : Touches(Applied(page, s)) = PageKeys(page)
  /\ \A l, m, ok : Touches(Json(l, m, ok)) = {<<"level", 0>>, Mag}
BY DEF Touches, Idle, Number, Band, File, Applied, Json

\* An operation touches settings only.
LEMMA TouchesKeys == ASSUME NEW o \in Ops PROVE Touches(o) \subseteq Keys
<1>1. Formed(o)
  BY OpsFormed
<1>2. <<"level", 0>> \in Keys /\ Mag \in Keys
  BY DEF Keys, EqKeys
<1>3. ASSUME NEW name \in {"enable", "level"}, NEW n \in 0 .. NSlots, NEW v \in Int,
             o = Number(<<name, n>>, v)
      PROVE  Touches(o) \subseteq Keys
  <2>1. Touches(o) = {<<name, n>>}
    BY <1>3, TouchesOf
  <2>2. <<name, n>> \in Keys
    <3>1. CASE name = "enable"
      BY <3>1, KeyFacts
    <3>2. CASE name = "level"
      BY <3>2, KeyFacts
    <3> QED BY <3>1, <3>2
  <2> QED BY <2>1, <2>2
<1>4. ASSUME NEW n \in Slots, NEW f, o = File(n, f) PROVE Touches(o) \subseteq Keys
  BY <1>4, TouchesOf, KeyFacts
<1>5. ASSUME NEW page, NEW s, o = Applied(page, s) PROVE Touches(o) \subseteq Keys
  BY <1>5, TouchesOf, KeyFacts DEF PageKeys
<1>6. ASSUME NEW l, NEW m, NEW ok, o = Json(l, m, ok) PROVE Touches(o) \subseteq Keys
  BY <1>2, <1>6, TouchesOf
<1>7. ASSUME NEW b, NEW v, o = Band(b, v) PROVE Touches(o) \subseteq Keys
  BY <1>2, <1>7, TouchesOf
<1> QED BY <1>1, <1>3, <1>4, <1>5, <1>6, <1>7, TouchesOf DEF Formed

\* What an operation does to one setting.
LEMMA OutcomeAt ==
  ASSUME NEW o, NEW s, NEW k \in Keys
  PROVE  Outcome(o, s)[k] =
           IF k \notin Touches(o) THEN s[k]
           ELSE IF o.kind = "number" THEN o.to
           ELSE IF o.kind = "band" THEN [s[k] EXCEPT ![o.band] = o.to]
           ELSE IF o.kind = "file" THEN FileSetting(o.name, k[1])
           ELSE IF o.kind = "apply" THEN o.shown[k]
           ELSE IF k # Mag THEN o.level ELSE IF o.whole THEN o.mags ELSE s[k]
BY DEF Outcome

\* What an operation does to a setting depends on nothing but that setting.
LEMMA OutcomeLocal ==
  ASSUME NEW o, NEW s, NEW u, NEW k \in Keys, s[k] = u[k]
  PROVE  Outcome(o, s)[k] = Outcome(o, u)[k]
<1> DEFINE V(x) == IF k \notin Touches(o) THEN x
                   ELSE IF o.kind = "number" THEN o.to
                   ELSE IF o.kind = "band" THEN [x EXCEPT ![o.band] = o.to]
                   ELSE IF o.kind = "file" THEN FileSetting(o.name, k[1])
                   ELSE IF o.kind = "apply" THEN o.shown[k]
                   ELSE IF k # Mag THEN o.level ELSE IF o.whole THEN o.mags ELSE x
<1>1. Outcome(o, s)[k] = V(s[k])
  BY OutcomeAt
<1>2. Outcome(o, u)[k] = V(u[k])
  BY OutcomeAt
<1> HIDE DEF V
<1> QED BY <1>1, <1>2

\* FnFN sets every setting of the slot to a value of its kind.
LEMMA FileSettings ==
  ASSUME NEW n \in Slots, NEW f \in FileNames \cup {NONE}
  PROVE  \A k \in SlotKeys(n) : FileSetting(f, k[1]) \in Kind(k)
<1>1. Attenuation \in [FileNames -> Int] /\ 0 \in Int /\ 1 \in Int
  BY SettingsAssumption
<1>2. FileSetting(f, "level") \in Int /\ FileSetting(f, "enable") \in Int
      /\ FileSetting(f, "filename") = f /\ FileSetting(f, "metadata") = f
  BY <1>1 DEF FileSetting
<1> HIDE DEF FileSetting
<1> QED BY <1>2, KindFacts DEF SlotKeys

\* An operation as a whole leaves nothing garbled.
LEMMA OutcomeMeant ==
  ASSUME NEW o \in Ops, NEW s, Meant(s)
  PROVE  Meant(Outcome(o, s))
<1> DEFINE u == Outcome(o, s)
<1>1. IsMap(u)
  BY DEF IsMap, Outcome
<1>2. /\ s[Mag] \in [Bands -> Int] /\ \A k \in Keys : s[k] \in Kind(k)
  BY DEF Meant, Holds
<1>3. Formed(o) /\ Touches(o) \subseteq Keys
  BY OpsFormed, TouchesKeys
<1>4. ASSUME NEW k \in Keys PROVE u[k] \in Kind(k) /\ (k = Mag => u[k] \in [Bands -> Int])
  <2>1. CASE k \notin Touches(o)
    BY <1>2, <2>1, OutcomeAt
  <2>2. CASE k \in Touches(o)
    <3>1. ASSUME NEW name \in {"enable", "level"}, NEW n \in 0 .. NSlots, NEW v \in Int,
                 o = Number(<<name, n>>, v)
          PROVE  u[k] \in Kind(k) /\ k # Mag
      <4>1. k = <<name, n>> /\ o.kind = "number" /\ o.to = v
        BY <2>2, <3>1, TouchesOf DEF Number
      <4>2. u[k] = v
        BY <2>2, <4>1, OutcomeAt
      <4> QED BY <4>1, <4>2, KindFacts, KeyFacts
    <3>2. ASSUME NEW b \in Bands, NEW v \in Int, o = Band(b, v)
          PROVE  u[k] \in [Bands -> Int] /\ k = Mag
      <4>1. k = Mag /\ o.kind = "band" /\ o.to = v /\ o.band = b
        BY <2>2, <3>2, TouchesOf DEF Band
      <4>2. u[k] = [s[k] EXCEPT ![b] = v]
        BY <2>2, <4>1, OutcomeAt
      <4> QED BY <1>2, <4>1, <4>2
    <3>3. ASSUME NEW n \in Slots, NEW f \in FileNames \cup {NONE}, o = File(n, f)
          PROVE  u[k] \in Kind(k) /\ k # Mag
      <4>1. k \in SlotKeys(n) /\ o.kind = "file" /\ o.name = f
        BY <2>2, <3>3, TouchesOf DEF File
      <4>2. u[k] = FileSetting(f, k[1])
        BY <2>2, <4>1, OutcomeAt
      <4>3. k # Mag
        BY <4>1 DEF SlotKeys, Mag
      <4> QED BY <4>1, <4>2, <4>3, FileSettings
    <3>4. ASSUME NEW page \in {"eq", "file"}, NEW x \in Shown0, o = Applied(page, x)
          PROVE  u[k] \in Kind(k) /\ (k = Mag => u[k] \in [Bands -> Int])
      <4>1. o.kind = "apply" /\ o.shown = x /\ Meant(x)
        BY <3>4, ShowsMeant DEF Applied, Shown0
      <4>2. u[k] = x[k]
        BY <2>2, <4>1, OutcomeAt
      <4> QED BY <4>1, <4>2 DEF Meant, Holds
    <3>5. ASSUME NEW l \in Int, NEW m \in [Bands -> Int], NEW ok \in BOOLEAN, o = Json(l, m, ok)
          PROVE  u[k] \in Kind(k) /\ (k = Mag => u[k] \in [Bands -> Int])
      <4>1. /\ k \in {<<"level", 0>>, Mag}
            /\ o.kind = "json" /\ o.level = l /\ o.mags = m /\ o.whole = ok
        BY <2>2, <3>5, TouchesOf DEF Json
      <4>2. u[k] = IF k # Mag THEN l ELSE IF ok THEN m ELSE s[k]
        BY <2>2, <4>1, OutcomeAt
      <4> QED BY <1>2, <4>1, <4>2, KindFacts
    <3>6. o # Idle
      BY <2>2, TouchesOf
    <3>7. k = Mag => [Bands -> Int] \subseteq Kind(k)
      BY KindFacts
    <3> HIDE DEF u
    <3> QED BY <1>3, <3>1, <3>2, <3>3, <3>4, <3>5, <3>6, <3>7 DEF Formed
  <2> QED BY <2>1, <2>2
<1>5. u[Mag] \in [Bands -> Int]
  BY <1>4, KeyFacts
<1> QED BY <1>1, <1>4, <1>5 DEF Meant, Holds
-----------------------------------------------------------------------------
(* The writes of an operation.                                             *)

\* The writes leave s[k] in setting k: none is of anything else, but for a
\* string's GARBLED, which is followed by another.
Leaves(writes, k, s) ==
  \A i \in DOMAIN writes : writes[i].key = k =>
    /\ writes[i].val \in {s[k], GARBLED}
    /\ writes[i].val # s[k] => \E j \in DOMAIN writes : j > i /\ writes[j].key = k

Covers(w, K) == \A k \in K : \E i \in DOMAIN w : w[i].key = k

\* The writes are of the keys K, and leave there what s has.
Proper(w, K, s) ==
  /\ WritesOK(w)
  /\ \A i \in DOMAIN w : w[i].key \in K
  /\ \A k \in K : Leaves(w, k, s)

\* Every write of x is before every write of y.
Before(w, x, y) == \A i, j \in DOMAIN w : w[i].key = x /\ w[j].key = y => i < j

\* A number is written at once.
LEMMA WriteProper ==
  ASSUME NEW k \in Keys, NEW v \in Kind(k), NEW s, s[k] = v
  PROVE  /\ Proper(Write(k, v), {k}, s) /\ Covers(Write(k, v), {k})
         /\ Write(k, v) # <<>> /\ Len(Write(k, v)) = 1
<1> DEFINE w == Write(k, v)
           e == [key |-> k, val |-> v]
<1>1. e \in Entries /\ e.key = k /\ e.val = v
  BY InValues DEF Entries
<1>2. w = <<e>>
  BY DEF Write
<1> HIDE DEF e, w
<1>3. w \in Seq(Entries) /\ DOMAIN w = {1} /\ w[1] = e /\ w # <<>> /\ Len(w) = 1
  BY <1>1, <1>2
<1>4. WritesOK(w)
  BY <1>1, <1>3 DEF WritesOK
<1>5. Leaves(w, k, s)
  BY <1>1, <1>3 DEF Leaves
<1>6. Covers(w, {k})
  BY <1>1, <1>3 DEF Covers
<1> QED BY <1>1, <1>3, <1>4, <1>5, <1>6 DEF Proper, w

\* A string is written so that its value is there in the end.
LEMMA WriteStringProper ==
  ASSUME NEW k \in Keys, NEW v \in Kind(k), GARBLED \in Kind(k), NEW s, s[k] = v
  PROVE  /\ Proper(WriteString(k, v), {k}, s) /\ Covers(WriteString(k, v), {k})
         /\ WriteString(k, v) # <<>> /\ Len(WriteString(k, v)) = 2
         /\ WriteString(k, v)[1].val = GARBLED /\ WriteString(k, v)[2].val = v
<1> DEFINE w == WriteString(k, v)
           d == [key |-> k, val |-> GARBLED]
           e == [key |-> k, val |-> v]
<1>1. /\ d \in Entries /\ d.key = k /\ d.val = GARBLED
      /\ e \in Entries /\ e.key = k /\ e.val = v
  BY InValues DEF Entries
<1>2. w = <<d>> \o <<e>>
  BY DEF WriteString, Write
<1> HIDE DEF d, e, w
<1>3. <<d>> \in Seq(Entries) /\ <<e>> \in Seq(Entries)
  BY <1>1
<1>4. w \in Seq(Entries) /\ DOMAIN w = {1, 2} /\ w[1] = d /\ w[2] = e /\ w # <<>> /\ Len(w) = 2
  <2>1. /\ w \in Seq(Entries) /\ Len(w) = Len(<<d>>) + Len(<<e>>)
        /\ \A j \in 1 .. Len(<<d>>) : w[j] = <<d>>[j]
        /\ \A j \in 1 .. Len(<<e>>) : w[Len(<<d>>) + j] = <<e>>[j]
    BY ONLY <1>2, <1>3, JoinAt
  <2>2. Len(<<d>>) = 1 /\ Len(<<e>>) = 1 /\ <<d>>[1] = d /\ <<e>>[1] = e
    OBVIOUS
  <2>3. Len(w) = 2 /\ 1 \in 1 .. 1
    BY <2>1, <2>2
  <2>4. w[1] = d
    BY <2>1, <2>2, <2>3
  <2>5. w[1 + 1] = e
    BY <2>1, <2>2, <2>3
  <2>6. DOMAIN w = 1 .. 2 /\ 1 .. 2 = {1, 2} /\ w # <<>>
    BY <2>1, <2>3
  <2> QED BY <2>1, <2>3, <2>4, <2>5, <2>6
<1>5. WritesOK(w)
  BY <1>1, <1>4 DEF WritesOK
<1>6. Leaves(w, k, s)
  BY <1>1, <1>4 DEF Leaves
<1>7. Covers(w, {k})
  BY <1>1, <1>4 DEF Covers
<1>8. \A i \in DOMAIN w : w[i].key \in {k}
  BY <1>1, <1>4
<1> QED BY <1>1, <1>4, <1>5, <1>6, <1>7, <1>8 DEF Proper, w

\* Writes of different settings, one after the other.
LEMMA JoinProper ==
  ASSUME NEW a, NEW b, NEW K, NEW L, NEW s, Proper(a, K, s), Proper(b, L, s)
  PROVE  /\ Proper(a \o b, K \cup L, s)
         /\ Covers(a, K) /\ Covers(b, L) => Covers(a \o b, K \cup L)
         /\ a # <<>> \/ b # <<>> => a \o b # <<>>
         /\ \A x, y : y \notin K /\ x \notin L => Before(a \o b, x, y)
<1> DEFINE w == a \o b
           p == Len(a)
           q == Len(b)
<1>0. a \in Seq(Entries) /\ b \in Seq(Entries)
  BY DEF Proper, WritesOK
<1>1. /\ w \in Seq(Entries) /\ Len(w) = p + q /\ p \in Nat /\ q \in Nat
      /\ \A j \in 1 .. p : w[j] = a[j]
      /\ \A j \in 1 .. q : w[p + j] = b[j]
  BY ONLY <1>0, JoinAt
<1>2. DOMAIN a = 1 .. p /\ DOMAIN b = 1 .. q
  BY <1>0
<1>3. DOMAIN w = 1 .. p + q
  BY <1>1
<1> HIDE DEF w, p, q
<1>4. ASSUME NEW i \in 1 .. p + q
      PROVE  i \in 1 .. p \/ (i - p \in 1 .. q /\ p + (i - p) = i)
  BY <1>1
<1>5. WritesOK(w)
  <2>1. ASSUME NEW i \in 1 .. p + q PROVE w[i].val \in Kind(w[i].key)
    <3>1. CASE i \in 1 .. p
      <4>1. a[i].val \in Kind(a[i].key)
        BY <1>2, <3>1 DEF Proper, WritesOK
      <4> QED BY <1>1, <3>1, <4>1
    <3>2. CASE i - p \in 1 .. q /\ p + (i - p) = i
      <4>1. b[i - p].val \in Kind(b[i - p].key)
        BY <1>2, <3>2 DEF Proper, WritesOK
      <4>2. w[i] = b[i - p]
        BY <1>1, <3>2
      <4> QED BY <4>1, <4>2
    <3> QED BY <1>4, <3>1, <3>2
  <2> QED BY <1>1, <1>3, <2>1 DEF WritesOK
<1>6. ASSUME NEW i \in 1 .. p + q PROVE w[i].key \in K \cup L
  <2>1. CASE i \in 1 .. p
    BY <1>1, <1>2, <2>1 DEF Proper
  <2>2. CASE i - p \in 1 .. q /\ p + (i - p) = i
    <3>1. w[i] = b[i - p]
      BY <1>1, <2>2
    <3> QED BY <1>2, <2>2, <3>1 DEF Proper
  <2> QED BY <1>4, <2>1, <2>2
<1>7. ASSUME NEW k \in K \cup L PROVE Leaves(w, k, s)
  <2>1. SUFFICES ASSUME NEW i \in 1 .. p + q, w[i].key = k
        PROVE  /\ w[i].val \in {s[k], GARBLED}
               /\ w[i].val # s[k] => \E j \in 1 .. p + q : j > i /\ w[j].key = k
    BY <1>3 DEF Leaves
  <2>2. CASE i \in 1 .. p
    <3>1. w[i] = a[i] /\ k \in K
      BY <1>1, <1>2, <2>1, <2>2 DEF Proper
    <3>2. Leaves(a, k, s)
      BY <3>1 DEF Proper
    <3>3. /\ w[i].val \in {s[k], GARBLED}
          /\ w[i].val # s[k] => \E j \in 1 .. p : j > i /\ a[j].key = k
      BY <1>2, <2>1, <2>2, <3>1, <3>2 DEF Leaves
    <3>4. \A j \in 1 .. p : j \in 1 .. p + q /\ w[j] = a[j]
      BY <1>1
    <3> QED BY <3>3, <3>4
  <2>3. CASE i - p \in 1 .. q /\ p + (i - p) = i
    <3>1. w[i] = b[i - p]
      BY <1>1, <2>3
    <3>2. k \in L
      BY <1>2, <2>1, <2>3, <3>1 DEF Proper
    <3>3. Leaves(b, k, s)
      BY <3>2 DEF Proper
    <3>4. /\ w[i].val \in {s[k], GARBLED}
          /\ w[i].val # s[k] => \E j \in 1 .. q : j > i - p /\ b[j].key = k
      BY <1>2, <2>1, <2>3, <3>1, <3>3 DEF Leaves
    <3>5. ASSUME NEW j \in 1 .. q, j > i - p
          PROVE  p + j \in 1 .. p + q /\ w[p + j] = b[j] /\ p + j > i
      BY <1>1, <3>5
    <3> QED BY <3>4, <3>5
  <2> QED BY <1>4, <2>2, <2>3
<1>8. ASSUME Covers(a, K), Covers(b, L), NEW k \in K \cup L
      PROVE  \E i \in 1 .. p + q : w[i].key = k
  <2>1. CASE k \in K
    <3>1. PICK i \in 1 .. p : a[i].key = k
      BY <1>2, <1>8, <2>1 DEF Covers
    <3>2. i \in 1 .. p + q /\ w[i] = a[i]
      BY <1>1
    <3> QED BY <3>1, <3>2
  <2>2. CASE k \in L
    <3>1. PICK i \in 1 .. q : b[i].key = k
      BY <1>2, <1>8, <2>2 DEF Covers
    <3>2. p + i \in 1 .. p + q /\ w[p + i] = b[i]
      BY <1>1
    <3> QED BY <3>1, <3>2
  <2> QED BY <2>1, <2>2
<1>9. a # <<>> \/ b # <<>> => w # <<>>
  <2>1. (a # <<>> => p # 0) /\ (b # <<>> => q # 0) /\ (w = <<>> => Len(w) = 0)
    BY <1>0 DEF p, q
  <2> QED BY <1>1, <2>1
<1>10. ASSUME NEW x, NEW y, y \notin K, x \notin L, NEW i \in 1 .. p + q, NEW j \in 1 .. p + q,
              w[i].key = x, w[j].key = y
       PROVE  i < j
  <2>1. i \in 1 .. p
    <3>1. SUFFICES ASSUME i - p \in 1 .. q /\ p + (i - p) = i PROVE FALSE
      BY <1>4
    <3>2. w[i] = b[i - p]
      BY <1>1, <3>1
    <3> QED BY <1>2, <1>10, <3>1, <3>2 DEF Proper
  <2>2. j \notin 1 .. p
    <3>1. SUFFICES ASSUME j \in 1 .. p PROVE FALSE
      OBVIOUS
    <3> QED BY <1>1, <1>2, <1>10, <3>1 DEF Proper
  <2> QED BY <1>1, <2>1, <2>2
<1>11. Proper(w, K \cup L, s)
  BY <1>3, <1>5, <1>6, <1>7 DEF Proper
<1>12. Covers(a, K) /\ Covers(b, L) => Covers(w, K \cup L)
  BY <1>3, <1>8 DEF Covers
<1>13. \A x, y : y \notin K /\ x \notin L => Before(w, x, y)
  BY <1>3, <1>10 DEF Before
<1> QED BY <1>9, <1>11, <1>12, <1>13 DEF w
-----------------------------------------------------------------------------
(* A file is written before it is enabled.                                 *)

\* FnFN writes the level before the enable (connection.cpp:340-343).
LEMMA FileProper ==
  ASSUME NEW n \in Slots, NEW f \in FileNames \cup {NONE}, NEW s,
         \A k \in SlotKeys(n) : s[k] = FileSetting(f, k[1])
  PROVE  /\ Proper(WriteFile(n, f), SlotKeys(n), s) /\ Covers(WriteFile(n, f), SlotKeys(n))
         /\ WriteFile(n, f) # <<>>
         /\ Before(WriteFile(n, f), <<"level", n>>, <<"enable", n>>)
<1> DEFINE fn == <<"filename", n>>
           md == <<"metadata", n>>
           lv == <<"level", n>>
           en == <<"enable", n>>
           a == WriteString(fn, f)
           b == WriteString(md, f)
           c == Write(lv, FileSetting(f, "level"))
           d == Write(en, FileSetting(f, "enable"))
<1>1. /\ SlotKeys(n) = {fn, md, lv, en} /\ SlotKeys(n) \subseteq Keys
      /\ \A k \in SlotKeys(n) : FileSetting(f, k[1]) \in Kind(k)
  BY KeyFacts, FileSettings DEF SlotKeys
<1>2. /\ FileSetting(f, "filename") = f /\ FileSetting(f, "metadata") = f
  BY DEF FileSetting
<1>3. /\ s[fn] = f /\ s[md] = f
      /\ s[lv] = FileSetting(f, "level") /\ s[en] = FileSetting(f, "enable")
  BY <1>1, <1>2
<1>4. f \in Kind(fn) /\ f \in Kind(md) /\ GARBLED \in Kind(fn) /\ GARBLED \in Kind(md)
  BY KindFacts
<1>5. FileSetting(f, "level") \in Kind(lv) /\ FileSetting(f, "enable") \in Kind(en)
  <2>1. FileSetting(f, lv[1]) \in Kind(lv) /\ FileSetting(f, en[1]) \in Kind(en)
    BY <1>1
  <2> QED BY <2>1
<1>6. fn \in Keys /\ md \in Keys /\ lv \in Keys /\ en \in Keys
  BY <1>1
<1>7. lv # fn /\ lv # md /\ lv # en /\ en # fn /\ en # md
  OBVIOUS
<1>8. Proper(a, {fn}, s) /\ Covers(a, {fn})
  BY <1>3, <1>4, <1>6, WriteStringProper
<1>9. Proper(b, {md}, s) /\ Covers(b, {md})
  BY <1>3, <1>4, <1>6, WriteStringProper
<1>10. Proper(c, {lv}, s) /\ Covers(c, {lv})
  BY <1>3, <1>5, <1>6, WriteProper
<1>11. Proper(d, {en}, s) /\ Covers(d, {en}) /\ d # <<>>
  BY <1>3, <1>5, <1>6, WriteProper
<1>12. WriteFile(n, f) = ((a \o b) \o c) \o d
  BY DEF WriteFile
<1> HIDE DEF a, b, c, d, fn, md, lv, en
<1>13. Proper(a \o b, {fn} \cup {md}, s) /\ Covers(a \o b, {fn} \cup {md})
  BY <1>8, <1>9, JoinProper
<1>14. /\ Proper((a \o b) \o c, ({fn} \cup {md}) \cup {lv}, s)
       /\ Covers((a \o b) \o c, ({fn} \cup {md}) \cup {lv})
  BY <1>10, <1>13, JoinProper
<1>15. /\ Proper(((a \o b) \o c) \o d, (({fn} \cup {md}) \cup {lv}) \cup {en}, s)
       /\ Covers(((a \o b) \o c) \o d, (({fn} \cup {md}) \cup {lv}) \cup {en})
       /\ ((a \o b) \o c) \o d # <<>>
  BY <1>11, <1>14, JoinProper
<1>16. Before(((a \o b) \o c) \o d, lv, en)
  <2>1. en \notin ({fn} \cup {md}) \cup {lv} /\ lv \notin {en}
    BY <1>7
  <2> QED BY <1>11, <1>14, <2>1, JoinProper
<1>17. (({fn} \cup {md}) \cup {lv}) \cup {en} = SlotKeys(n)
  BY <1>1
<1> QED BY <1>12, <1>15, <1>16, <1>17 DEF lv, en

-----------------------------------------------------------------------------
(* A page is applied setting by setting.                                   *)

\* A function on 1 .. n is a sequence.
LEMMA FunctionIsSeq ==
  ASSUME NEW T, NEW n \in Nat, NEW f \in [1 .. n -> T]
  PROVE  f \in Seq(T) /\ Len(f) = n /\ DOMAIN f = 1 .. n
OBVIOUS

PageField == <<"enable", "resample", "level", "filename", "metadata">>
FilePage == [i \in 1 .. 5 |-> [n \in Slots |-> <<PageField[i], n>>]]

\* The order in which the file page goes through its settings.
LEMMA FilePageFacts ==
  /\ Len(FilePage) = 5 /\ FilePage # <<>>
  /\ \A i \in 1 .. 5 : FilePage[i] \in Seq(FileKeys) /\ Len(FilePage[i]) = NSlots
  /\ \A i \in 1 .. 5, n \in Slots : FilePage[i][n] = <<PageField[i], n>>
  /\ Slots = 1 .. NSlots /\ NSlots \in Nat
<1>1. Slots = 1 .. NSlots /\ NSlots \in Nat
  BY SettingsAssumption DEF Slots
<1>2. ASSUME NEW i \in 1 .. 5, NEW n \in Slots
      PROVE  <<PageField[i], n>> \in FileKeys
  <2>1. PageField[i] \in {"enable", "resample", "level", "filename", "metadata"}
    BY DEF PageField
  <2> HIDE DEF PageField
  <2> QED BY <2>1 DEF FileKeys
<1>3. \A i \in 1 .. 5 : FilePage[i] = [n \in Slots |-> <<PageField[i], n>>]
  BY DEF FilePage
<1>4. ASSUME NEW i \in 1 .. 5 PROVE FilePage[i] \in [1 .. NSlots -> FileKeys]
  BY <1>1, <1>2, <1>3
<1>5. FilePage = [i \in 1 .. 5 |-> FilePage[i]] /\ DOMAIN FilePage = 1 .. 5
  BY DEF FilePage
<1> HIDE DEF FilePage, PageField
<1>6. FilePage \in [1 .. 5 -> [1 .. NSlots -> FileKeys]]
  BY <1>4, <1>5
<1>7. Len(FilePage) = 5 /\ FilePage # <<>>
  <2>1. PICK T : FilePage \in [1 .. 5 -> T]
    BY <1>6
  <2>2. Len(FilePage) = 5 /\ FilePage \in Seq(T)
    BY ONLY <2>1, FunctionIsSeq
  <2> QED BY <2>2
<1>8. \A i \in 1 .. 5 : FilePage[i] \in Seq(FileKeys) /\ Len(FilePage[i]) = NSlots
  BY <1>1, <1>4, FunctionIsSeq
<1> QED BY <1>1, <1>3, <1>7, <1>8

\* All settings of a page are in its order, and of a file's the level before
\* the name.
LEMMA PageOrders ==
  ASSUME NEW page \in {"eq", "file"}
  PROVE  /\ PageOrder(page) \in Seq(PageKeys(page))
         /\ \A k \in PageKeys(page) : \E i \in 1 .. Len(PageOrder(page)) : PageOrder(page)[i] = k
         /\ \A n \in Slots : \A i, j \in 1 .. Len(PageOrder(page)) :
              PageOrder(page)[i] = <<"level", n>> /\ PageOrder(page)[j] = <<"filename", n>>
                => i < j
<1>1. CASE page = "eq"
  <2> DEFINE w == PageOrder(page)
             a == <<"enable", 0>>
             b == <<"level", 0>>
  <2>1. w = <<a, b, Mag>> /\ PageKeys(page) = {a, b, Mag}
    BY <1>1 DEF PageOrder, PageKeys, EqKeys
  <2>2. \A n \in Slots : <<"filename", n>> # a /\ <<"filename", n>> # b /\ <<"filename", n>> # Mag
    BY DEF Mag
  <2> HIDE DEF w, a, b
  <2>3. /\ w \in Seq(PageKeys(page)) /\ 1 .. Len(w) = {1, 2, 3}
        /\ w[1] = a /\ w[2] = b /\ w[3] = Mag
    BY <2>1
  <2>4. \A k \in PageKeys(page) : \E i \in 1 .. Len(w) : w[i] = k
    BY <2>1, <2>3
  <2>5. \A n \in Slots : \A j \in 1 .. Len(w) : w[j] # <<"filename", n>>
    BY <2>2, <2>3
  <2> QED BY <2>3, <2>4, <2>5 DEF w
<1>2. CASE page = "file"
  <2> DEFINE w == PageOrder(page)
  <2>1. w = FlattenSeq(FilePage) /\ PageKeys(page) = FileKeys
    BY <1>2 DEF PageOrder, PageKeys, FilePage, PageField
  <2> HIDE DEF w
  <2>2. w \in Seq(FileKeys) /\ \E g, h : Places(w, FilePage, 5, g, h)
    <3>1. /\ 5 \in Nat /\ 5 # 0 /\ Len(FilePage) = 5
          /\ \A i \in 1 .. 5 : FilePage[i] \in Seq(FileKeys)
      BY FilePageFacts
    <3> QED BY ONLY <2>1, <3>1, FlattenPlaces
  <2>3. PICK g, h : Places(w, FilePage, 5, g, h)
    BY <2>2
  <2>4. ASSUME NEW i \in 1 .. Len(w)
        PROVE  g[i] \in 1 .. 5 /\ h[i] \in Slots /\ w[i] = <<PageField[g[i]], h[i]>>
    <3>1. g[i] \in 1 .. 5 /\ h[i] \in 1 .. Len(FilePage[g[i]]) /\ w[i] = FilePage[g[i]][h[i]]
      BY <2>3 DEF Places
    <3> QED BY <3>1, FilePageFacts
  <2>5. ASSUME NEW k \in FileKeys PROVE \E i \in 1 .. Len(w) : w[i] = k
    <3>1. k = <<k[1], k[2]>> /\ k[2] \in Slots
          /\ k[1] \in {"enable", "resample", "level", "filename", "metadata"}
      BY KeyFacts
    <3>2. PICK x \in 1 .. 5 : PageField[x] = k[1]
      BY <3>1 DEF PageField
    <3>3. k[2] \in 1 .. Len(FilePage[x])
      BY <3>1, FilePageFacts
    <3>4. PICK i \in 1 .. Len(w) : g[i] = x /\ h[i] = k[2]
      BY <2>3, <3>3 DEF Places
    <3>5. w[i] = <<k[1], k[2]>>
      BY <2>4, <3>2, <3>4
    <3> QED BY <3>1, <3>5
  <2>6. ASSUME NEW n \in Slots, NEW i \in 1 .. Len(w), NEW j \in 1 .. Len(w),
               w[i] = <<"level", n>>, w[j] = <<"filename", n>>
        PROVE  i < j
    <3>1. PageField[g[i]] = "level" /\ PageField[g[j]] = "filename"
      BY <2>4, <2>6
    <3>2. g[i] = 3 /\ g[j] = 4
      BY <2>4, <3>1 DEF PageField
    <3>3. g[i] < g[j]
      BY <3>2
    <3> QED BY <2>3, <3>3, PlacesInOrder
  <2> QED BY <2>1, <2>2, <2>5, <2>6 DEF w
<1> QED BY <1>1, <1>2

\* What a setting of a page is written with.
LEMMA SettingProper ==
  ASSUME NEW s, Shows(s), NEW k \in Keys
  PROVE  /\ WriteSetting(s, k) \in Seq(Entries) /\ Len(WriteSetting(s, k)) \in {1, 2}
         /\ \A i \in 1 .. Len(WriteSetting(s, k)) :
              /\ WriteSetting(s, k)[i].key = k /\ WriteSetting(s, k)[i].val \in Kind(k)
              /\ \/ WriteSetting(s, k)[i].val = s[k]
                 \/ WriteSetting(s, k)[i].val = GARBLED /\ i < Len(WriteSetting(s, k))
<1> DEFINE w == WriteSetting(s, k)
<1>1. s[k] \in Kind(k)
  BY ShowsMeant DEF Holds
<1>2. CASE k = Mag \/ k[1] \in {"filename", "metadata"}
  <2>1. w = WriteString(k, s[k]) /\ GARBLED \in Kind(k)
    BY <1>2 DEF WriteSetting, Kind
  <2> HIDE DEF w
  <2>2. Proper(w, {k}, s) /\ Len(w) = 2 /\ w[1].val = GARBLED /\ w[2].val = s[k]
    <3>1. PICK v : v = s[k]
      OBVIOUS
    <3>2. v \in Kind(k) /\ w = WriteString(k, v)
      BY <1>1, <2>1, <3>1
    <3>3. /\ Proper(WriteString(k, v), {k}, s) /\ Len(WriteString(k, v)) = 2
          /\ WriteString(k, v)[1].val = GARBLED /\ WriteString(k, v)[2].val = v
      BY <2>1, <3>1, <3>2, WriteStringProper
    <3> QED BY ONLY <3>1, <3>2, <3>3
  <2>3. w \in Seq(Entries) /\ 1 .. Len(w) = {1, 2} /\ DOMAIN w = 1 .. 2
    BY <2>2 DEF Proper, WritesOK
  <2>4. \A i \in 1 .. 2 : w[i].key = k
    BY <2>2, <2>3 DEF Proper
  <2> QED BY <1>1, <2>1, <2>2, <2>3, <2>4 DEF w
<1>3. CASE ~(k = Mag \/ k[1] \in {"filename", "metadata"})
  <2>1. w = Write(k, s[k])
    BY <1>3 DEF WriteSetting
  <2>2. Proper(w, {k}, s) /\ Covers(w, {k}) /\ Len(w) = 1
    BY <1>1, <2>1, WriteProper
  <2>3. w[1].val = s[k]
    BY <2>1 DEF Write
  <2> HIDE DEF w
  <2>4. w \in Seq(Entries) /\ 1 .. Len(w) = {1} /\ DOMAIN w = 1 .. 1
    BY <2>2 DEF Proper, WritesOK
  <2>5. w[1].key = k
    BY <2>2, <2>4 DEF Proper
  <2> QED BY <1>1, <2>2, <2>3, <2>4, <2>5 DEF w
<1> QED BY <1>2, <1>3

\* Applying a page writes all it shows, the level of a file before its
\* name (prefs_file.cpp:251-273).
LEMMA PageProper ==
  ASSUME NEW page \in {"eq", "file"}, Shows(view["ui"])
  PROVE  /\ Proper(WritePage(page), PageKeys(page), view["ui"])
         /\ Covers(WritePage(page), PageKeys(page))
         /\ PageKeys(page) # {} => WritePage(page) # <<>>
         /\ \A n \in Slots : Before(WritePage(page), <<"level", n>>, <<"filename", n>>)
<1> DEFINE s == view["ui"]
           o == PageOrder(page)
           m == Len(o)
           S == [i \in DOMAIN o |-> WriteSetting(s, o[i])]
           w == WritePage(page)
<1>1. /\ o \in Seq(PageKeys(page)) /\ \A k \in PageKeys(page) : \E i \in 1 .. Len(o) : o[i] = k
      /\ \A n \in Slots : \A i, j \in 1 .. Len(o) :
           o[i] = <<"level", n>> /\ o[j] = <<"filename", n>> => i < j
  BY PageOrders
<1>2. PageKeys(page) \subseteq Keys
  BY KeyFacts DEF PageKeys
<1> HIDE DEF o
<1>3. m \in Nat /\ DOMAIN o = 1 .. m /\ \A i \in 1 .. m : o[i] \in PageKeys(page)
  BY <1>1
<1>4. w = FlattenSeq(S)
  BY DEF WritePage, o
<1>5. \A i \in 1 .. m : S[i] = WriteSetting(s, o[i])
  BY <1>3
<1>6. DOMAIN S = 1 .. m
  BY <1>3
<1>7. S \in [1 .. m -> Seq(Entries)]
  <2>1. ASSUME NEW i \in 1 .. m PROVE WriteSetting(s, o[i]) \in Seq(Entries)
    BY <1>2, <1>3, SettingProper
  <2> QED BY <1>3, <2>1
<1> HIDE DEF S, w, s, m
<1>8. Len(S) = m /\ (S = <<>> \/ m # 0)
  <2>1. Len(S) = m /\ S \in Seq(Seq(Entries))
    BY <1>3, <1>7, FunctionIsSeq
  <2> QED BY <2>1
<1>9. w \in Seq(Entries) /\ \E g, h : Places(w, S, m, g, h)
  BY <1>3, <1>4, <1>7, <1>8, FlattenPlaces
<1>10. PICK g, h : Places(w, S, m, g, h)
  BY <1>9
<1>11. DOMAIN w = 1 .. Len(w)
  BY <1>9
<1>12. ASSUME NEW i \in 1 .. Len(w)
       PROVE  /\ g[i] \in 1 .. m /\ h[i] \in 1 .. Len(S[g[i]])
              /\ w[i].key = o[g[i]] /\ w[i].val \in Kind(w[i].key)
              /\ w[i].val = s[o[g[i]]] \/ (w[i].val = GARBLED /\ h[i] < Len(S[g[i]]))
  <2>1. g[i] \in 1 .. m /\ h[i] \in 1 .. Len(S[g[i]]) /\ w[i] = S[g[i]][h[i]]
    BY <1>10 DEF Places
  <2>2. S[g[i]] = WriteSetting(s, o[g[i]]) /\ o[g[i]] \in Keys
    BY <1>2, <1>3, <1>5, <2>1
  <2>3. Shows(s)
    BY DEF s
  <2> QED BY <2>1, <2>2, <2>3, SettingProper
<1>13. WritesOK(w)
  BY <1>9, <1>11, <1>12 DEF WritesOK
<1>14. \A i \in DOMAIN w : w[i].key \in PageKeys(page)
  BY <1>3, <1>11, <1>12
<1>15. ASSUME NEW i \in 1 .. Len(w), w[i].val # s[w[i].key]
       PROVE  \E j \in 1 .. Len(w) : j > i /\ w[j].key = w[i].key
  <2>1. /\ g[i] \in 1 .. m /\ h[i] \in 1 .. Len(S[g[i]]) /\ w[i].key = o[g[i]]
        /\ h[i] < Len(S[g[i]])
    BY <1>12, <1>15
  <2>2. S[g[i]] \in Seq(Entries)
    BY <1>7, <2>1
  <2>3. h[i] + 1 \in 1 .. Len(S[g[i]]) /\ h[i] < h[i] + 1
    BY <2>1, <2>2
  <2>4. PICK j \in 1 .. Len(w) : g[j] = g[i] /\ h[j] = h[i] + 1
    BY <1>10, <2>1, <2>3 DEF Places
  <2>5. i < j
    BY <1>3, <1>10, <2>3, <2>4, PlacesInOrder
  <2>6. w[j].key = o[g[j]]
    BY <1>12
  <2> QED BY <2>1, <2>4, <2>5, <2>6, <1>9
<1>16. ASSUME NEW k \in PageKeys(page) PROVE Leaves(w, k, s)
  BY <1>11, <1>12, <1>15 DEF Leaves
<1>17. Proper(w, PageKeys(page), s)
  BY <1>13, <1>14, <1>16 DEF Proper
<1>18. ASSUME NEW k \in PageKeys(page) PROVE \E i \in 1 .. Len(w) : w[i].key = k
  <2>1. PICK a \in 1 .. m : o[a] = k
    BY <1>1, <1>18 DEF m
  <2>2. S[a] = WriteSetting(s, k) /\ k \in Keys /\ Shows(s)
    BY <1>2, <1>5, <2>1 DEF s
  <2>3. 1 \in 1 .. Len(S[a])
    <3>1. PICK q : q = Len(S[a])
      OBVIOUS
    <3>2. q \in {1, 2}
      BY <2>2, <3>1, SettingProper
    <3>3. 1 \in 1 .. q
      BY ONLY <3>2
    <3> QED BY ONLY <3>1, <3>3, Zenon
  <2>4. PICK i \in 1 .. Len(w) : g[i] = a /\ h[i] = 1
    BY <1>10, <2>3 DEF Places
  <2> QED BY <1>12, <2>1, <2>4
<1>19. Covers(w, PageKeys(page))
  BY <1>11, <1>18 DEF Covers
<1>20. PageKeys(page) # {} => w # <<>>
  <2>1. SUFFICES ASSUME NEW k \in PageKeys(page), w = <<>> PROVE FALSE
    OBVIOUS
  <2>2. PICK i \in 1 .. Len(w) : w[i].key = k
    BY <1>18
  <2>3. Len(w) = 0
    BY <2>1
  <2> QED BY <2>2, <2>3
<1>21. ASSUME NEW n \in Slots, NEW i \in 1 .. Len(w), NEW j \in 1 .. Len(w),
              w[i].key = <<"level", n>>, w[j].key = <<"filename", n>>
       PROVE  i < j
  <2>1. /\ o[g[i]] = <<"level", n>> /\ g[i] \in 1 .. Len(o)
        /\ o[g[j]] = <<"filename", n>> /\ g[j] \in 1 .. Len(o)
    BY <1>12, <1>21 DEF m
  <2>2. g[i] < g[j]
    BY <1>1, <2>1
  <2> QED BY <1>3, <1>10, <2>2, PlacesInOrder
<1>22. \A n \in Slots : Before(w, <<"level", n>>, <<"filename", n>>)
  BY <1>11, <1>21 DEF Before
<1> QED BY <1>17, <1>19, <1>20, <1>22 DEF w, s
-----------------------------------------------------------------------------
(* The invariant.                                                          *)

Has(w, k) == \E i \in DOMAIN w : w[i].key = k

Busy(t) == todo[t] # <<>>
Writes(t, k) == Busy(t) /\ k \in Touches(op[t])
Pending(t, k) == Has(todo[t], k)

\* The settings after the operation that t is in.
Then(t) == Outcome(op[t], ideal)

Typed ==
  /\ Holds(cfg) /\ Meant(ideal) /\ Meant(base)
  /\ view = [t \in Readers |-> view[t]] /\ Holds(view["player"]) /\ Shows(view["ui"])
  /\ todo = [t \in Threads |-> todo[t]] /\ \A t \in Threads : WritesOK(todo[t])
  /\ op = [t \in Threads |-> op[t]] /\ \A t \in Threads : op[t] \in OpsOf(t)
  /\ toRead = [t \in Readers |-> toRead[t]] /\ \A t \in Readers : toRead[t] \in Seq(Keys)
  /\ open \subseteq {"eq", "file"} /\ clash \subseteq Keys /\ news \in Seq(Ops)

\* A thread writes what its operation touches.
OwnWrites == \A t \in Threads : \A i \in DOMAIN todo[t] : todo[t][i].key \in Touches(op[t])

\* Setting k, which only t is writing.
Settles(t, k) ==
  IF Pending(t, k)
  THEN cfg[k] \in {ideal[k], GARBLED, Then(t)[k]} /\ Leaves(todo[t], k, Then(t))
  ELSE cfg[k] = Then(t)[k]

\* A setting that was never written by two at once.
KeyInv ==
  \A k \in Keys \ clash :
    /\ ~(Writes("cli", k) /\ Writes("ui", k))
    /\ \A t \in Threads : Writes(t, k) => Settles(t, k)
    /\ ~Writing(k) => cfg[k] = ideal[k]

\* What makes a file of slot n be used is written after the level.
Switch(o, n) == IF o.kind = "apply" THEN <<"filename", n>> ELSE <<"enable", n>>

LevelFirst ==
  \A t \in Threads, n \in Slots :
    op[t].kind \in {"file", "apply"} /\ Pending(t, <<"level", n>>) =>
      /\ Before(todo[t], <<"level", n>>, Switch(op[t], n))
      /\ Switch(op[t], n) \notin clash => cfg[Switch(op[t], n)] = ideal[Switch(op[t], n)]

Reading == toRead["player"] # <<>>
Reads(keys, k) == \E i \in DOMAIN keys : keys[i] = k
Unread(k) == Reads(toRead["player"], k)

\* Whoever reads k reads l after it.
Leads(keys, k, l) ==
  \A i \in DOMAIN keys : keys[i] = k => \E j \in DOMAIN keys : j > i /\ keys[j] = l

\* The player reads the name of a slot, then whether it is enabled, then its
\* level.
ReadsOnward(keys) ==
  \A n \in Slots : /\ Leads(keys, <<"filename", n>>, <<"enable", n>>)
                   /\ Leads(keys, <<"enable", n>>, <<"level", n>>)

\* What is under way is news.
NewsInv ==
  Reading => \A t \in Threads : Busy(t) => \E i \in DOMAIN news : news[i] = op[t]

Seen(k) == view["player"][k]
Empty(n) == base[<<"enable", n>>] = 0 /\ base[<<"filename", n>>] = NONE
Same(n, s) == \A k \in SlotKeys(n) : ideal[k] = s[k]
Unchanged(n) == \A k \in SlotKeys(n) : ideal[k] = base[k]
Elsewhere(n) == \A t \in Threads : Busy(t) => Touches(op[t]) \cap SlotKeys(n) = {}

\* Slot n has its new level.
LevelDone(n, s) ==
  cfg[<<"level", n>>] = s[<<"level", n>>] /\ \A t \in Threads : ~Pending(t, <<"level", n>>)

NamedYet(n) == ~Unread(<<"filename", n>>) /\ Seen(<<"filename", n>>) \in FileNames

\* Nothing has happened to the slot.
Untouched(n) == Unchanged(n) /\ ~NamedYet(n)

UnderWayOrDone(n, o, s) ==
  \/ Unchanged(n) /\ \E t \in Threads : Busy(t) /\ op[t] = o
  \/ Same(n, s) /\ Elsewhere(n)

\* What the player has read of the slot so far is of one piece.
OnePiece(n, o, s) ==
  NamedYet(n) =>
    /\ o.kind \in {"file", "apply"} /\ Seen(<<"filename", n>>) = s[<<"filename", n>>]
    /\ o.kind = "apply" \/ (~Unread(<<"enable", n>>) /\ Seen(<<"enable", n>>) # 0)
         => LevelDone(n, s)
    /\ ~Unread(<<"level", n>>) /\ Uses(n) => Seen(<<"level", n>>) = s[<<"level", n>>]

\* A slot that was empty and is not written by two at once, by what has
\* happened to it since.
SlotOK(n) ==
  Empty(n) /\ SlotKeys(n) \cap clash = {} =>
    /\ NewsOf(n) = {} => Untouched(n)
    /\ \A i \in DOMAIN news : NewsOf(n) = {i} =>
         \A o, s : o = news[i] /\ s = Outcome(o, base) =>
           UnderWayOrDone(n, o, s) /\ OnePiece(n, o, s)

SlotInv == Reading => \A n \in Slots : SlotOK(n)

\* The inductive invariant.
IInv ==
  /\ Typed /\ OwnWrites /\ KeyInv /\ LevelFirst
  /\ ReadsOnward(toRead["player"]) /\ NewsInv /\ SlotInv /\ PublishedWhole

-----------------------------------------------------------------------------
(* Parts of the invariant.                                                 *)

\* There are two threads, and a setting is being written when one writes it.
LEMMA ThreadFacts ==
  /\ \A t \in Threads : Other(t) \in Threads /\ Other(t) # t
  /\ \A t, u \in Threads : u = t \/ u = Other(t)
  /\ \A k : Writing(k) <=> \E t \in Threads : Writes(t, k)
  /\ \A k : (\E t \in Threads : Writes(t, k) /\ Writes(Other(t), k))
              <=> Writes("cli", k) /\ Writes("ui", k)
BY DEF Threads, Other, Writing, Writes, Busy

\* The operations of a thread are operations.
LEMMA OpsOfOps == \A t \in Threads : OpsOf(t) \subseteq Ops
BY DEF Threads, Ops

\* The two threads have different operations.
LEMMA DifferentOps ==
  ASSUME NEW t \in Threads, NEW u \in Threads, NEW o \in OpsOf(t), o \in OpsOf(u), Touches(o) # {}
  PROVE  t = u
<1>1. o.kind # "idle"
  BY Kinds, OpsOfOps
<1> QED BY <1>1, Kinds DEF Threads

\* What is still written after the first write.
LEMMA TailHas ==
  ASSUME NEW w, WritesOK(w), w # <<>>, NEW k
  PROVE  /\ Has(w, k) <=> Head(w).key = k \/ Has(Tail(w), k)
         /\ WritesOK(Tail(w)) /\ Head(w).val \in Kind(Head(w).key) /\ Head(w).key \in Keys
<1> DEFINE t == Tail(w)
<1>1. w \in Seq(Entries) /\ \A i \in DOMAIN w : w[i].val \in Kind(w[i].key)
  BY DEF WritesOK
<1>2. /\ Head(w) = w[1] /\ t \in Seq(Entries) /\ Len(t) = Len(w) - 1
      /\ Len(w) \in Nat \ {0} /\ Head(w) \in Entries
      /\ \A j \in 1 .. Len(w) - 1 : t[j] = w[j + 1]
  BY ONLY <1>1, w # <<>>, HeadAndTail
<1> HIDE DEF t
<1>3. DOMAIN w = 1 .. Len(w) /\ DOMAIN t = 1 .. Len(w) - 1
  BY <1>1, <1>2
<1>4. WritesOK(t)
  <2>1. \A i \in 1 .. Len(w) - 1 : t[i].val \in Kind(t[i].key)
    BY <1>1, <1>2, <1>3
  <2> QED BY <1>2, <1>3, <2>1 DEF WritesOK
<1>5. Head(w).val \in Kind(Head(w).key) /\ Head(w).key \in Keys
  <2>1. 1 \in DOMAIN w
    BY <1>2, <1>3
  <2> QED BY <1>1, <1>2, <2>1 DEF Entries
<1>6. ASSUME Has(w, k), Head(w).key # k PROVE Has(t, k)
  <2>1. PICK i \in 1 .. Len(w) : w[i].key = k
    BY <1>3, <1>6 DEF Has
  <2>2. i # 1
    BY <1>2, <1>6, <2>1
  <2>3. i - 1 \in 1 .. Len(w) - 1 /\ (i - 1) + 1 = i
    BY <1>2, <2>2
  <2>4. t[i - 1] = w[i]
    BY <1>2, <2>3
  <2> QED BY <1>3, <2>1, <2>3, <2>4 DEF Has
<1>7. ASSUME Has(t, k) PROVE Has(w, k)
  <2>1. PICK i \in 1 .. Len(w) - 1 : t[i].key = k
    BY <1>3, <1>7 DEF Has
  <2>2. i + 1 \in 1 .. Len(w) /\ w[i + 1].key = k
    BY <1>2, <2>1
  <2> QED BY <1>3, <2>2 DEF Has
<1>8. ASSUME Head(w).key = k PROVE Has(w, k)
  <2>1. 1 \in DOMAIN w
    BY <1>2, <1>3
  <2> QED BY <1>2, <1>8, <2>1 DEF Has
<1> QED BY <1>4, <1>5, <1>6, <1>7, <1>8 DEF t

\* The writes leave the same after the first of them.
LEMMA TailLeaves ==
  ASSUME NEW w, WritesOK(w), w # <<>>, NEW k, NEW s, Leaves(w, k, s)
  PROVE  /\ Leaves(Tail(w), k, s)
         /\ Head(w).key = k => /\ Head(w).val \in {s[k], GARBLED}
                               /\ ~Has(Tail(w), k) => Head(w).val = s[k]
<1> DEFINE t == Tail(w)
<1>1. w \in Seq(Entries)
  BY DEF WritesOK
<1>2. /\ Head(w) = w[1] /\ t \in Seq(Entries) /\ Len(t) = Len(w) - 1
      /\ Len(w) \in Nat \ {0}
      /\ \A j \in 1 .. Len(w) - 1 : t[j] = w[j + 1]
  BY ONLY <1>1, w # <<>>, HeadAndTail
<1> HIDE DEF t
<1>3. DOMAIN w = 1 .. Len(w) /\ DOMAIN t = 1 .. Len(w) - 1
  BY <1>1, <1>2
<1>4. \A i \in 1 .. Len(w) : w[i].key = k =>
        /\ w[i].val \in {s[k], GARBLED}
        /\ w[i].val # s[k] => \E j \in 1 .. Len(w) : j > i /\ w[j].key = k
  BY <1>3 DEF Leaves
<1>5. ASSUME NEW i \in 1 .. Len(w), w[i].key = k, w[i].val # s[k]
      PROVE  \E j \in 1 .. Len(w) - 1 : j + 1 > i /\ t[j].key = k
  <2>1. PICK j \in 1 .. Len(w) : j > i /\ w[j].key = k
    BY <1>4, <1>5
  <2>2. j - 1 \in 1 .. Len(w) - 1 /\ (j - 1) + 1 = j
    BY <1>2, <2>1
  <2>3. t[j - 1] = w[j]
    BY <1>2, <2>2
  <2> QED BY <2>1, <2>2, <2>3
<1>6. ASSUME NEW i \in 1 .. Len(w) - 1, t[i].key = k
      PROVE  /\ t[i].val \in {s[k], GARBLED}
             /\ t[i].val # s[k] => \E j \in 1 .. Len(w) - 1 : j > i /\ t[j].key = k
  <2>1. i + 1 \in 1 .. Len(w) /\ t[i] = w[i + 1]
    BY <1>2
  <2>2. w[i + 1].val \in {s[k], GARBLED}
    BY <1>4, <1>6, <2>1
  <2>3. ASSUME t[i].val # s[k] PROVE \E j \in 1 .. Len(w) - 1 : j > i /\ t[j].key = k
    <3>1. PICK j \in 1 .. Len(w) - 1 : j + 1 > i + 1 /\ t[j].key = k
      BY <1>5, <1>6, <2>1, <2>3
    <3>2. j > i
      BY <1>2, <3>1
    <3> QED BY <3>1, <3>2
  <2> QED BY <2>1, <2>2, <2>3
<1>7. Leaves(t, k, s)
  BY <1>3, <1>6 DEF Leaves
<1>8. 1 \in 1 .. Len(w)
  BY <1>2
<1>9. ASSUME Head(w).key = k, ~Has(t, k) PROVE Head(w).val = s[k]
  <2>1. SUFFICES ASSUME w[1].val # s[k] PROVE FALSE
    BY <1>2
  <2>2. PICK j \in 1 .. Len(w) - 1 : t[j].key = k
    BY <1>2, <1>5, <1>8, <1>9, <2>1
  <2> QED BY <1>3, <1>9, <2>2 DEF Has
<1> QED BY <1>2, <1>4, <1>7, <1>8, <1>9 DEF t

\* The order of the writes after the first of them.
LEMMA TailBefore ==
  ASSUME NEW w, WritesOK(w), w # <<>>, NEW x, NEW y, Before(w, x, y)
  PROVE  /\ Before(Tail(w), x, y)
         /\ Has(Tail(w), x) => Head(w).key # y
<1> DEFINE t == Tail(w)
<1>1. w \in Seq(Entries)
  BY DEF WritesOK
<1>2. /\ Head(w) = w[1] /\ t \in Seq(Entries) /\ Len(t) = Len(w) - 1
      /\ Len(w) \in Nat \ {0}
      /\ \A j \in 1 .. Len(w) - 1 : t[j] = w[j + 1]
  BY ONLY <1>1, w # <<>>, HeadAndTail
<1> HIDE DEF t
<1>3. DOMAIN w = 1 .. Len(w) /\ DOMAIN t = 1 .. Len(w) - 1
  BY <1>1, <1>2
<1>4. \A i, j \in 1 .. Len(w) : w[i].key = x /\ w[j].key = y => i < j
  BY <1>3 DEF Before
<1>5. ASSUME NEW i \in 1 .. Len(w) - 1, NEW j \in 1 .. Len(w) - 1, t[i].key = x, t[j].key = y
      PROVE  i < j
  <2>1. i + 1 \in 1 .. Len(w) /\ j + 1 \in 1 .. Len(w) /\ t[i] = w[i + 1] /\ t[j] = w[j + 1]
    BY <1>2
  <2>2. i + 1 < j + 1
    BY <1>4, <1>5, <2>1
  <2> QED BY <2>2
<1>6. ASSUME Has(t, x), Head(w).key = y PROVE FALSE
  <2>1. PICK i \in 1 .. Len(w) - 1 : t[i].key = x
    BY <1>3, <1>6 DEF Has
  <2>2. i + 1 \in 1 .. Len(w) /\ t[i] = w[i + 1] /\ 1 \in 1 .. Len(w)
    BY <1>2
  <2>3. i + 1 < 1
    BY <1>2, <1>4, <1>6, <2>1, <2>2
  <2> QED BY <2>3
<1> QED BY <1>3, <1>5, <1>6 DEF Before, t

\* What the writes leave in a setting is about that setting alone.
LEMMA LeavesLocal ==
  ASSUME NEW w, NEW k, NEW s, NEW u, s[k] = u[k], Leaves(w, k, s)
  PROVE  Leaves(w, k, u)
BY DEF Leaves

\* What is still read after the first setting is, and in which order.
LEMMA TailReads ==
  ASSUME NEW w \in Seq(Keys), w # <<>>, NEW k
  PROVE  /\ Head(w) \in Keys /\ Tail(w) \in Seq(Keys)
         /\ Reads(w, k) <=> (Head(w) = k \/ Reads(Tail(w), k))
         /\ \A l : Leads(w, k, l) => /\ Leads(Tail(w), k, l)
                                     /\ Reads(w, k) => Reads(Tail(w), l)
<1> DEFINE t == Tail(w)
<1>2. /\ Head(w) = w[1] /\ t \in Seq(Keys) /\ Len(t) = Len(w) - 1
      /\ Len(w) \in Nat \ {0} /\ Head(w) \in Keys
      /\ \A j \in 1 .. Len(w) - 1 : t[j] = w[j + 1]
  BY ONLY w \in Seq(Keys), w # <<>>, HeadAndTail
<1> HIDE DEF t
<1>3. DOMAIN w = 1 .. Len(w) /\ DOMAIN t = 1 .. Len(w) - 1
  BY <1>2
<1>4. ASSUME NEW i \in 1 .. Len(w), i # 1 PROVE i - 1 \in 1 .. Len(w) - 1 /\ t[i - 1] = w[i]
  <2>1. i - 1 \in 1 .. Len(w) - 1 /\ (i - 1) + 1 = i
    BY <1>2, <1>4
  <2> QED BY <1>2, <2>1
<1>5. ASSUME NEW i \in 1 .. Len(w) - 1 PROVE i + 1 \in 1 .. Len(w) /\ t[i] = w[i + 1]
  BY <1>2
<1>6. 1 \in 1 .. Len(w)
  BY <1>2
<1>7. Reads(w, k) <=> (Head(w) = k \/ Reads(t, k))
  BY <1>2, <1>3, <1>4, <1>5, <1>6 DEF Reads
<1>8. ASSUME NEW l, Leads(w, k, l) PROVE Leads(t, k, l) /\ (Reads(w, k) => Reads(t, l))
  <2>1. ASSUME NEW i \in 1 .. Len(w), w[i] = k
        PROVE  \E j \in 1 .. Len(w) - 1 : j + 1 > i /\ t[j] = l
    <3>1. PICK j \in 1 .. Len(w) : j > i /\ w[j] = l
      BY <1>3, <1>8, <2>1 DEF Leads
    <3>2. j # 1 /\ (j - 1) + 1 = j
      BY <1>2, <3>1
    <3>3. j - 1 \in 1 .. Len(w) - 1 /\ t[j - 1] = l /\ (j - 1) + 1 > i
      BY <1>4, <3>1, <3>2
    <3> QED BY <3>3
  <2>2. ASSUME NEW m \in 1 .. Len(w) - 1, t[m] = k
        PROVE  \E j \in 1 .. Len(w) - 1 : j > m /\ t[j] = l
    <3>1. m + 1 \in 1 .. Len(w) /\ w[m + 1] = k
      BY <1>5, <2>2
    <3>2. PICK j \in 1 .. Len(w) - 1 : j + 1 > m + 1 /\ t[j] = l
      BY <2>1, <3>1
    <3>3. j > m
      BY <1>2, <3>2
    <3> QED BY <3>2, <3>3
  <2>3. ASSUME Reads(w, k) PROVE Reads(t, l)
    <3>1. PICK i \in 1 .. Len(w) : w[i] = k
      BY <1>3, <2>3 DEF Reads
    <3>2. PICK j \in 1 .. Len(w) - 1 : t[j] = l
      BY <2>1, <3>1
    <3> QED BY <1>3, <3>2 DEF Reads
  <2>4. Leads(t, k, l)
    BY <1>3, <2>2 DEF Leads
  <2> QED BY <2>3, <2>4
<1> QED BY <1>2, <1>7, <1>8 DEF t
-----------------------------------------------------------------------------
(* An operation begins.                                                    *)

\* The writes do what the operation does, to a setting that is as it was
\* meant.
Prepared(o, writes) ==
  /\ WritesOK(writes) /\ \A i \in DOMAIN writes : writes[i].key \in Touches(o)
  /\ Touches(o) # {} => writes # <<>>
  /\ \A k \in Touches(o) : cfg[k] = ideal[k] =>
       /\ Leaves(writes, k, Outcome(o, ideal))
       /\ Has(writes, k) \/ ideal[k] = Outcome(o, ideal)[k]
  /\ o.kind \in {"file", "apply"} =>
       \A n \in Slots : Before(writes, <<"level", n>>, Switch(o, n))

\* What changes when thread t begins.
LEMMA BeginFacts ==
  ASSUME Typed, NEW t \in Threads, NEW o \in OpsOf(t), NEW writes, WritesOK(writes), Begin(t, o, writes),
         toRead'["player"] = toRead["player"]
  PROVE  /\ todo[t] = <<>> /\ todo'[t] = writes /\ todo'[Other(t)] = todo[Other(t)]
         /\ op'[t] = o /\ op'[Other(t)] = op[Other(t)]
         /\ cfg' = cfg /\ ideal' = ideal /\ base' = base /\ Reading' = Reading
         /\ clash \subseteq clash'
         /\ \A k : Writes(Other(t), k) /\ k \in Touches(o) => k \in clash'
         /\ IF Reading THEN news' = Append(news, o) ELSE news' = news
         /\ todo' = [u \in Threads |-> todo'[u]] /\ op' = [u \in Threads |-> op'[u]]
         /\ \A u \in Threads : WritesOK(todo'[u]) /\ op'[u] \in OpsOf(u)
         /\ clash' \subseteq Keys /\ news' \in Seq(Ops)
<1>1. /\ todo[t] = <<>> /\ todo' = [todo EXCEPT ![t] = writes] /\ op' = [op EXCEPT ![t] = o]
      /\ clash' = IF todo[Other(t)] = <<>> THEN clash
                  ELSE clash \cup (Touches(o) \cap Touches(op[Other(t)]))
      /\ news' = IF toRead["player"] = <<>> THEN news ELSE Append(news, o)
      /\ cfg' = cfg /\ ideal' = ideal /\ base' = base
  BY DEF Begin
<1>2. /\ todo = [u \in Threads |-> todo[u]] /\ op = [u \in Threads |-> op[u]]
      /\ \A u \in Threads : WritesOK(todo[u]) /\ op[u] \in OpsOf(u)
      /\ clash \subseteq Keys /\ news \in Seq(Ops)
  BY DEF Typed
<1>3. Other(t) \in Threads /\ Other(t) # t
  BY ThreadFacts
<1>4. /\ todo'[t] = writes /\ todo'[Other(t)] = todo[Other(t)]
      /\ op'[t] = o /\ op'[Other(t)] = op[Other(t)]
  BY <1>1, <1>2, <1>3
<1>5. todo' = [u \in Threads |-> todo'[u]] /\ op' = [u \in Threads |-> op'[u]]
  BY <1>1, <1>2
<1>6. \A u \in Threads : WritesOK(todo'[u]) /\ op'[u] \in OpsOf(u)
  BY <1>2, <1>4, ThreadFacts
<1>7. o \in Ops /\ Touches(o) \subseteq Keys
  BY OpsOfOps, TouchesKeys
<1>8. clash \subseteq clash' /\ clash' \subseteq Keys
  BY <1>1, <1>2, <1>7
<1>9. news' \in Seq(Ops)
  <2>1. Append(news, o) \in Seq(Ops)
    BY <1>2, <1>7
  <2> QED BY <1>1, <1>2, <2>1
<1>10. \A k : Writes(Other(t), k) /\ k \in Touches(o) => k \in clash'
  BY <1>1 DEF Writes, Busy
<1>11. IF Reading THEN news' = Append(news, o) ELSE news' = news
  BY <1>1 DEF Reading
<1>12. Reading' = Reading
  BY DEF Reading
<1> QED BY <1>1, <1>4, <1>5, <1>6, <1>8, <1>9, <1>10, <1>11, <1>12

\* When an operation begins, what the settings hold is still accounted for.
LEMMA BeginKeys ==
  ASSUME Typed, OwnWrites, KeyInv, NEW t \in Threads, NEW o \in OpsOf(t), NEW writes,
         Prepared(o, writes), Begin(t, o, writes), toRead'["player"] = toRead["player"]
  PROVE  KeyInv' /\ OwnWrites'
<1> DEFINE u == Other(t)
<1>1. /\ todo[t] = <<>> /\ todo'[t] = writes /\ todo'[u] = todo[u]
      /\ op'[t] = o /\ op'[u] = op[u]
      /\ cfg' = cfg /\ ideal' = ideal /\ clash \subseteq clash'
      /\ \A k : Writes(u, k) /\ k \in Touches(o) => k \in clash'
  BY BeginFacts DEF Prepared
<1>2. u \in Threads /\ u # t /\ \A v \in Threads : v = t \/ v = u
  BY ThreadFacts
<1> HIDE DEF u
<1>3. \A k : /\ Writes(t, k)' <=> writes # <<>> /\ k \in Touches(o)
             /\ Writes(u, k)' <=> Writes(u, k)
             /\ ~Writes(t, k)
  BY <1>1 DEF Writes, Busy
<1>4. \A k : /\ Writing(k) <=> Writes(t, k) \/ Writes(u, k)
             /\ Writing(k)' <=> Writes(t, k)' \/ Writes(u, k)'
  <2>1. \A k : Writing(k) <=> Writes("cli", k) \/ Writes("ui", k)
    BY DEF Writing, Writes, Busy
  <2>2. \A k : Writing(k)' <=> Writes("cli", k)' \/ Writes("ui", k)'
    BY DEF Writing, Writes, Busy
  <2>3. (t = "cli" /\ u = "ui") \/ (t = "ui" /\ u = "cli")
    BY <1>2 DEF Threads
  <2>4. CASE t = "cli" /\ u = "ui"
    BY <2>1, <2>2, <2>4
  <2>5. CASE t = "ui" /\ u = "cli"
    BY <2>1, <2>2, <2>5
  <2> QED BY <2>3, <2>4, <2>5
<1>5. ASSUME NEW k \in Keys \ clash'
      PROVE  /\ ~(Writes(t, k)' /\ Writes(u, k)')
             /\ Writes(t, k)' => Settles(t, k)'
             /\ Writes(u, k)' => Settles(u, k)'
             /\ ~Writing(k)' => cfg'[k] = ideal'[k]
  <2>1. k \in Keys \ clash
    BY <1>1
  <2>2. ~(Writes(t, k)' /\ Writes(u, k)')
    BY <1>1, <1>3, <1>5
  <2>3. ~Writes(u, k) => cfg[k] = ideal[k]
    BY <1>3, <1>4, <2>1 DEF KeyInv
  <2>4. ASSUME Writes(t, k)' PROVE Settles(t, k)'
    <3>1. cfg[k] = ideal[k] /\ k \in Touches(o)
      BY <1>3, <2>2, <2>3, <2>4
    <3>2. Leaves(writes, k, Outcome(o, ideal)) /\ (Has(writes, k) \/ ideal[k] = Outcome(o, ideal)[k])
      BY <3>1 DEF Prepared
    <3>3. Then(t)' = Outcome(o, ideal) /\ Pending(t, k)' = Has(writes, k)
      BY <1>1 DEF Then, Pending
    <3> HIDE DEF Then, Pending
    <3> QED BY <1>1, <3>1, <3>2, <3>3 DEF Settles
  <2>5. ASSUME Writes(u, k)' PROVE Settles(u, k)'
    <3>1. Settles(u, k)
      BY <1>2, <1>3, <2>1, <2>5 DEF KeyInv
    <3>2. Then(u)' = Then(u) /\ Pending(u, k)' = Pending(u, k)
      BY <1>1 DEF Then, Pending
    <3> QED BY <1>1, <3>1, <3>2 DEF Settles
  <2>6. ASSUME ~Writing(k)' PROVE cfg'[k] = ideal'[k]
    <3>1. ~Writes(u, k)
      BY <1>3, <1>4, <2>6
    <3> QED BY <1>1, <2>3, <3>1
  <2> QED BY <2>2, <2>4, <2>5, <2>6
<1>6. KeyInv'
  <2>1. ASSUME NEW k \in Keys \ clash' PROVE ~(Writes("cli", k)' /\ Writes("ui", k)')
    <3>1. (t = "cli" /\ u = "ui") \/ (t = "ui" /\ u = "cli")
      BY <1>2 DEF Threads
    <3> QED BY <1>5, <2>1, <3>1
  <2>2. ASSUME NEW k \in Keys \ clash', NEW v \in Threads, Writes(v, k)' PROVE Settles(v, k)'
    BY <1>2, <1>5, <2>2
  <2>3. \A k \in Keys \ clash' : ~Writing(k)' => cfg'[k] = ideal'[k]
    BY <1>5
  <2> QED BY <2>1, <2>2, <2>3 DEF KeyInv
<1>7. OwnWrites'
  <2>1. ASSUME NEW v \in Threads PROVE \A i \in DOMAIN todo'[v] : todo'[v][i].key \in Touches(op'[v])
    <3>1. CASE v = t
      BY <1>1, <3>1 DEF Prepared
    <3>2. CASE v = u
      BY <1>1, <3>2 DEF OwnWrites
    <3> QED BY <1>2, <3>1, <3>2
  <2> QED BY <2>1 DEF OwnWrites
<1> QED BY <1>6, <1>7

\* The settings of a slot.
LEMMA SlotKeyFacts ==
  ASSUME NEW n \in Slots
  PROVE  /\ {<<"level", n>>, <<"enable", n>>, <<"filename", n>>} \subseteq SlotKeys(n)
         /\ <<"level", n>> \in Keys /\ <<"enable", n>> \in Keys /\ <<"filename", n>> \in Keys
         /\ SlotKeys(n) \subseteq Keys
BY KeyFacts DEF SlotKeys

\* An operation that touches a slot's name or enable as file or page, touches
\* all there is to the slot.
LEMMA TouchesSlot ==
  ASSUME NEW o \in Ops, NEW n \in Slots
  PROVE  /\ <<"filename", n>> \in Touches(o) => o.kind \in {"file", "apply"}
         /\ o.kind \in {"file", "apply"} /\ Touches(o) \cap SlotKeys(n) # {}
              => SlotKeys(n) \subseteq Touches(o)
<1>1. Formed(o)
  BY OpsFormed
<1>2. ASSUME NEW k, NEW v, NEW name \in {"enable", "level"}, NEW m \in 0 .. NSlots,
             k = <<name, m>>, o = Number(k, v)
      PROVE  o.kind = "number" /\ <<"filename", n>> \notin Touches(o)
  <2>1. Touches(o) = {<<name, m>>} /\ <<name, m>> # <<"filename", n>>
    BY <1>2, TouchesOf
  <2> QED BY <1>2, <2>1 DEF Number
<1>3. ASSUME NEW b, NEW v, o = Band(b, v)
      PROVE  o.kind = "band" /\ <<"filename", n>> \notin Touches(o)
  <2>1. Touches(o) = {Mag} /\ Mag # <<"filename", n>>
    BY <1>3, TouchesOf DEF Mag
  <2> QED BY <1>3, <2>1 DEF Band
<1>4. ASSUME NEW m \in Slots, NEW f, o = File(m, f)
      PROVE  o.kind = "file" /\ (Touches(o) \cap SlotKeys(n) # {} => SlotKeys(n) \subseteq Touches(o))
  <2>1. Touches(o) = SlotKeys(m)
    BY <1>4, TouchesOf
  <2>2. SlotKeys(m) \cap SlotKeys(n) # {} => m = n
    BY DEF SlotKeys
  <2> QED BY <1>4, <2>1, <2>2 DEF File
<1>5. ASSUME NEW page \in {"eq", "file"}, NEW s, o = Applied(page, s)
      PROVE  o.kind = "apply" /\ (Touches(o) \cap SlotKeys(n) # {} => SlotKeys(n) \subseteq Touches(o))
  <2>1. Touches(o) = PageKeys(page)
    BY <1>5, TouchesOf
  <2>2. EqKeys \cap SlotKeys(n) = {}
    <3>1. n # 0
      BY SettingsAssumption DEF Slots
    <3> QED BY <3>1 DEF EqKeys, SlotKeys, Mag
  <2>3. SlotKeys(n) \subseteq FileKeys
    BY DEF SlotKeys, FileKeys
  <2> QED BY <1>5, <2>1, <2>2, <2>3 DEF Applied, PageKeys
<1>6. ASSUME NEW l, NEW m, NEW ok, o = Json(l, m, ok)
      PROVE  o.kind = "json" /\ <<"filename", n>> \notin Touches(o)
  <2>1. Touches(o) = {<<"level", 0>>, Mag} /\ Mag # <<"filename", n>>
    BY <1>6, TouchesOf DEF Mag
  <2> QED BY <1>6, <2>1 DEF Json
<1>7. CASE o = Idle
  BY <1>7, TouchesOf DEF Idle
<1> HIDE DEF SlotKeys
<1> QED BY <1>1, <1>2, <1>3, <1>4, <1>5, <1>6, <1>7 DEF Formed

\* An operation that sets the level of a slot as file or page also sets
\* what makes the file be used.
LEMMA SwitchTouched ==
  ASSUME NEW o \in Ops, NEW n \in Slots, o.kind \in {"file", "apply"}, <<"level", n>> \in Touches(o)
  PROVE  Switch(o, n) \in Touches(o) /\ Switch(o, n) \in Keys
<1>1. SlotKeys(n) \subseteq Touches(o)
  <2>1. <<"level", n>> \in Touches(o) \cap SlotKeys(n)
    BY SlotKeyFacts
  <2> QED BY <2>1, TouchesSlot
<1> QED BY <1>1, SlotKeyFacts DEF Switch

\* When an operation begins, the level is still what is written first.
LEMMA BeginLevelFirst ==
  ASSUME Typed, OwnWrites, KeyInv, LevelFirst, NEW t \in Threads, NEW o \in OpsOf(t), NEW writes,
         Prepared(o, writes), Begin(t, o, writes), toRead'["player"] = toRead["player"]
  PROVE  LevelFirst'
<1> DEFINE u == Other(t)
<1>1. /\ todo[t] = <<>> /\ todo'[t] = writes /\ todo'[u] = todo[u]
      /\ op'[t] = o /\ op'[u] = op[u]
      /\ cfg' = cfg /\ ideal' = ideal /\ clash \subseteq clash'
      /\ \A k : Writes(u, k) /\ k \in Touches(o) => k \in clash'
  BY BeginFacts DEF Prepared
<1>2. u \in Threads /\ u # t /\ \A v \in Threads : v = t \/ v = u
  BY ThreadFacts
<1> HIDE DEF u
<1>3. o \in Ops
  BY OpsOfOps
<1>4. ASSUME NEW n \in Slots, op'[t].kind \in {"file", "apply"}, Pending(t, <<"level", n>>)'
      PROVE  /\ Before(todo'[t], <<"level", n>>, Switch(op'[t], n))
             /\ Switch(op'[t], n) \notin clash' => cfg'[Switch(op'[t], n)] = ideal'[Switch(op'[t], n)]
  <2> DEFINE k == Switch(o, n)
  <2>1. Before(writes, <<"level", n>>, k)
    BY <1>1, <1>4 DEF Prepared
  <2>2. <<"level", n>> \in Touches(o)
    BY <1>1, <1>4 DEF Pending, Has, Prepared
  <2>3. k \in Touches(o) /\ k \in Keys
    BY <1>1, <1>3, <1>4, <2>2, SwitchTouched
  <2> HIDE DEF k
  <2>4. ASSUME k \notin clash' PROVE cfg[k] = ideal[k]
    <3>1. ~Writes(u, k) /\ ~Writes(t, k) /\ k \in Keys \ clash
      BY <1>1, <2>3, <2>4 DEF Writes, Busy
    <3>2. ~Writing(k)
      BY <1>2, <3>1, ThreadFacts
    <3> QED BY <3>1, <3>2 DEF KeyInv
  <2> QED BY <1>1, <2>1, <2>4 DEF k
<1>5. ASSUME NEW n \in Slots, op'[u].kind \in {"file", "apply"}, Pending(u, <<"level", n>>)'
      PROVE  /\ Before(todo'[u], <<"level", n>>, Switch(op'[u], n))
             /\ Switch(op'[u], n) \notin clash' => cfg'[Switch(op'[u], n)] = ideal'[Switch(op'[u], n)]
  <2>1. Pending(u, <<"level", n>>)
    BY <1>1, <1>5 DEF Pending
  <2>2. /\ Before(todo[u], <<"level", n>>, Switch(op[u], n))
        /\ Switch(op[u], n) \notin clash => cfg[Switch(op[u], n)] = ideal[Switch(op[u], n)]
    BY <1>1, <1>2, <1>5, <2>1 DEF LevelFirst
  <2> QED BY <1>1, <2>2
<1>6. ASSUME NEW v \in Threads, NEW n \in Slots, op'[v].kind \in {"file", "apply"},
             Pending(v, <<"level", n>>)'
      PROVE  /\ Before(todo'[v], <<"level", n>>, Switch(op'[v], n))
             /\ Switch(op'[v], n) \notin clash' => cfg'[Switch(op'[v], n)] = ideal'[Switch(op'[v], n)]
  BY <1>2, <1>4, <1>5, <1>6
<1> QED BY <1>6 DEF LevelFirst

\* Slot n is as it was if none of this is about it.
LEMMA SlotAsBefore ==
  ASSUME NEW n \in Slots,
         SlotOK(n), NewsOf(n)' = NewsOf(n), \A i \in NewsOf(n) : news'[i] = news[i],
         DOMAIN news \subseteq DOMAIN news', NewsOf(n)' \subseteq DOMAIN news,
         clash \subseteq clash', base' = base, \A k \in SlotKeys(n) : ideal'[k] = ideal[k],
         cfg'[<<"level", n>>] = cfg[<<"level", n>>],
         toRead'["player"] = toRead["player"], view'["player"] = view["player"],
         \A t \in Threads : Busy(t) /\ Touches(op[t]) \cap SlotKeys(n) # {} => Busy(t)' /\ op'[t] = op[t],
         \A t \in Threads : Busy(t)' /\ Touches(op'[t]) \cap SlotKeys(n) # {} => Busy(t) /\ op'[t] = op[t],
         \A t \in Threads : Pending(t, <<"level", n>>)' => Pending(t, <<"level", n>>)
  PROVE  SlotOK(n)'
<1>1. Empty(n)' = Empty(n) /\ NamedYet(n)' = NamedYet(n) /\ (Unchanged(n) => Unchanged(n)')
  BY DEF Empty, NamedYet, Unread, Seen, Unchanged
<1>2. \A k : Unread(k)' = Unread(k) /\ Seen(k)' = Seen(k)
  BY DEF Unread, Seen
<1>3. Uses(n)' = Uses(n)
  BY DEF Uses
<1>4. \A s : Same(n, s) => Same(n, s)'
  BY DEF Same
<1>5. SUFFICES ASSUME Empty(n), SlotKeys(n) \cap clash' = {}
               PROVE  /\ NewsOf(n)' = {} => Untouched(n)'
                      /\ \A i \in DOMAIN news' : NewsOf(n)' = {i} =>
                           \A o, s : o = news'[i] /\ s = Outcome(o, base') =>
                             UnderWayOrDone(n, o, s)' /\ OnePiece(n, o, s)'
  BY <1>1 DEF SlotOK
<1>6. /\ NewsOf(n) = {} => Untouched(n)
      /\ \A i \in DOMAIN news : NewsOf(n) = {i} =>
           \A o, s : o = news[i] /\ s = Outcome(o, base) => UnderWayOrDone(n, o, s) /\ OnePiece(n, o, s)
  BY <1>5 DEF SlotOK
<1>7. NewsOf(n)' = {} => Untouched(n)'
  BY <1>1, <1>6 DEF Untouched
<1>8. ASSUME NEW i \in DOMAIN news', NewsOf(n)' = {i},
             NEW o, NEW s, o = news'[i], s = Outcome(o, base')
      PROVE  UnderWayOrDone(n, o, s)' /\ OnePiece(n, o, s)'
  <2>1. i \in DOMAIN news /\ i \in NewsOf(n) /\ news[i] = o /\ s = Outcome(o, base)
    BY <1>8
  <2>2. UnderWayOrDone(n, o, s) /\ OnePiece(n, o, s)
    BY <1>6, <1>8, <2>1
  <2>3. Touches(o) \cap SlotKeys(n) # {}
    BY <2>1 DEF NewsOf
  <2>5. LevelDone(n, s) => LevelDone(n, s)'
    BY DEF LevelDone
  <2>6. OnePiece(n, o, s)'
    BY <1>1, <1>2, <1>3, <2>2, <2>5 DEF OnePiece
  <2>7. UnderWayOrDone(n, o, s)'
    <3>1. CASE Unchanged(n) /\ \E t \in Threads : Busy(t) /\ op[t] = o
      <4>1. PICK t \in Threads : Busy(t) /\ op[t] = o
        BY <3>1
      <4>2. Busy(t)' /\ op'[t] = o
        BY <2>3, <4>1
      <4>3. Unchanged(n)'
        BY <1>1, <3>1
      <4> QED BY <4>2, <4>3 DEF UnderWayOrDone
    <3>2. CASE Same(n, s) /\ Elsewhere(n)
      <4>1. Elsewhere(n)'
        BY <3>2 DEF Elsewhere
      <4>2. Same(n, s)'
        BY <1>4, <3>2
      <4> QED BY <4>1, <4>2 DEF UnderWayOrDone
    <3> QED BY <2>2, <3>1, <3>2 DEF UnderWayOrDone
  <2> QED BY <2>6, <2>7
<1> QED BY <1>7, <1>8

\* What the player has published is not touched by what begins.
LEMMA PublishedStays ==
  ASSUME PublishedWhole, base' = base, clash \subseteq clash', news' = news,
         toRead'["player"] = toRead["player"], view'["player"] = view["player"]
  PROVE  PublishedWhole'
<1>1. \A n : Uses(n)' = Uses(n) /\ Used(n)' = Used(n) /\ NewsOf(n)' = NewsOf(n)
  BY DEF Uses, Used, NewsOf
<1>2. SUFFICES ASSUME toRead["player"] = <<>>, NEW n \in Slots, NEW i \in DOMAIN news,
                      base[<<"enable", n>>] = 0, base[<<"filename", n>>] = NONE,
                      SlotKeys(n) \cap clash' = {}, NewsOf(n) = {i}, Uses(n)
               PROVE  Used(n) = << Outcome(news[i], base)[<<"filename", n>>],
                                   Outcome(news[i], base)[<<"level", n>>] >>
  BY <1>1 DEF PublishedWhole
<1>3. SlotKeys(n) \cap clash = {}
  BY <1>2
<1> QED BY <1>2, <1>3 DEF PublishedWhole

\* When an operation begins, what has happened to the slots is still
\* accounted for: the operation is news to the player if it is reading.
LEMMA BeginSlots ==
  ASSUME Typed, NewsInv, SlotInv, PublishedWhole, NEW t \in Threads, NEW o \in OpsOf(t), NEW writes,
         Prepared(o, writes), Begin(t, o, writes), toRead'["player"] = toRead["player"],
         view'["player"] = view["player"]
  PROVE  NewsInv' /\ SlotInv' /\ PublishedWhole'
<1> DEFINE u == Other(t)
<1>1. /\ todo[t] = <<>> /\ todo'[t] = writes /\ todo'[u] = todo[u]
      /\ op'[t] = o /\ op'[u] = op[u]
      /\ cfg' = cfg /\ ideal' = ideal /\ base' = base /\ clash \subseteq clash' /\ Reading' = Reading
      /\ IF Reading THEN news' = Append(news, o) ELSE news' = news
      /\ news \in Seq(Ops)
  BY BeginFacts DEF Prepared, Typed
<1>2. u \in Threads /\ u # t /\ \A v \in Threads : v = t \/ v = u
  BY ThreadFacts
<1>3. o \in Ops
  BY OpsOfOps
<1>4. Append(news, o) \in Seq(Ops) /\ DOMAIN Append(news, o) = 1 .. Len(news) + 1
      /\ DOMAIN news = 1 .. Len(news) /\ Len(news) \in Nat
      /\ Append(news, o)[Len(news) + 1] = o
      /\ \A i \in 1 .. Len(news) : Append(news, o)[i] = news[i]
  BY <1>1, <1>3
<1> HIDE DEF u
<1>5. ASSUME Reading
      PROVE  /\ DOMAIN news' = 1 .. Len(news) + 1 /\ news'[Len(news) + 1] = o
             /\ \A i \in 1 .. Len(news) : news'[i] = news[i]
             /\ Len(news) + 1 \in 1 .. Len(news) + 1 /\ Len(news) + 1 \notin 1 .. Len(news)
             /\ 1 .. Len(news) \subseteq 1 .. Len(news) + 1
             /\ \A i \in 1 .. Len(news) + 1 : i \in 1 .. Len(news) \/ i = Len(news) + 1
  <2>1. news' = Append(news, o)
    BY <1>1, <1>5
  <2> QED BY <1>4, <2>1
<1>6. NewsInv'
  <2>1. SUFFICES ASSUME Reading, NEW v \in Threads, Busy(v)'
                 PROVE  \E i \in DOMAIN news' : news'[i] = op'[v]
    BY <1>1 DEF NewsInv
  <2>2. CASE v = t
    BY <1>1, <1>5, <2>1, <2>2
  <2>3. CASE v = u
    <3>1. Busy(v)
      BY <1>1, <2>1, <2>3 DEF Busy
    <3>2. PICK i \in DOMAIN news : news[i] = op[v]
      BY <2>1, <3>1 DEF NewsInv
    <3>3. i \in DOMAIN news' /\ news'[i] = op'[v]
      BY <1>1, <1>4, <1>5, <2>1, <2>3, <3>2
    <3> QED BY <3>3
  <2> QED BY <1>2, <2>2, <2>3
<1>7. ASSUME Reading, NEW n \in Slots, Touches(o) \cap SlotKeys(n) = {} PROVE SlotOK(n)'
  <2>1. SlotOK(n)
    BY <1>7 DEF SlotInv
  <2>2. NewsOf(n)' = NewsOf(n)
    BY <1>4, <1>5, <1>7 DEF NewsOf
  <2>3. \A i \in NewsOf(n) : news'[i] = news[i]
    BY <1>4, <1>5, <1>7 DEF NewsOf
  <2>4. DOMAIN news \subseteq DOMAIN news' /\ NewsOf(n)' \subseteq DOMAIN news
    BY <1>4, <1>5, <1>7, <2>2 DEF NewsOf
  <2>5. ASSUME NEW v \in Threads, Busy(v) PROVE Busy(v)' /\ op'[v] = op[v]
    <3>1. v = u
      BY <1>1, <1>2, <2>5 DEF Busy
    <3> QED BY <1>1, <2>5, <3>1 DEF Busy
  <2>6. ASSUME NEW v \in Threads, Busy(v)', Touches(op'[v]) \cap SlotKeys(n) # {}
        PROVE  Busy(v) /\ op'[v] = op[v]
    <3>1. v = u
      BY <1>1, <1>2, <1>7, <2>6
    <3> QED BY <1>1, <2>6, <3>1 DEF Busy
  <2>7. ASSUME NEW v \in Threads, Pending(v, <<"level", n>>)' PROVE Pending(v, <<"level", n>>)
    <3>1. CASE v = t
      <4>1. <<"level", n>> \in Touches(o)
        BY <1>1, <2>7, <3>1 DEF Pending, Has, Prepared
      <4> QED BY <1>7, <4>1, SlotKeyFacts
    <3>2. CASE v = u
      BY <1>1, <2>7, <3>2 DEF Pending
    <3> QED BY <1>2, <3>1, <3>2
  <2> QED BY <1>1, <2>1, <2>2, <2>3, <2>4, <2>5, <2>6, <2>7, SlotAsBefore
<1>8. ASSUME Reading, NEW n \in Slots, Touches(o) \cap SlotKeys(n) # {} PROVE SlotOK(n)'
  <2>1. SlotOK(n)
    BY <1>8 DEF SlotInv
  <2>2. Empty(n)' = Empty(n) /\ (SlotKeys(n) \cap clash' = {} => SlotKeys(n) \cap clash = {})
    BY <1>1 DEF Empty
  <2>3. Len(news) + 1 \in NewsOf(n)' /\ NewsOf(n) \subseteq NewsOf(n)' /\ NewsOf(n) \subseteq 1 .. Len(news)
    BY <1>4, <1>5, <1>8 DEF NewsOf
  <2>4. SUFFICES ASSUME Empty(n), SlotKeys(n) \cap clash' = {}, NEW i \in DOMAIN news', NewsOf(n)' = {i},
                        NEW x, NEW s, x = news'[i], s = Outcome(x, base')
                 PROVE  UnderWayOrDone(n, x, s)' /\ OnePiece(n, x, s)'
    BY <2>2, <2>3 DEF SlotOK
  <2>5. i = Len(news) + 1 /\ NewsOf(n) = {}
    BY <1>5, <1>8, <2>3, <2>4
  <2>6. Untouched(n)
    BY <2>1, <2>2, <2>4, <2>5 DEF SlotOK
  <2>7. Unchanged(n)' /\ ~NamedYet(n)'
    BY <1>1, <2>6 DEF Untouched, Unchanged, NamedYet, Unread, Seen
  <2>8. Busy(t)' /\ op'[t] = x
    BY <1>1, <1>5, <1>8, <2>4, <2>5 DEF Busy, Prepared
  <2> QED BY <2>7, <2>8 DEF UnderWayOrDone, OnePiece
<1>9. SlotInv'
  BY <1>1, <1>7, <1>8 DEF SlotInv
<1>10. PublishedWhole'
  <2>1. CASE Reading
    BY <1>1, <2>1 DEF PublishedWhole, Reading
  <2>2. CASE ~Reading
    BY <1>1, <2>2, PublishedStays
  <2> QED BY <2>1, <2>2
<1> QED BY <1>6, <1>9, <1>10

\* The beginning of an operation keeps the invariant.
LEMMA BeginKeeps ==
  ASSUME IInv, NEW t \in Threads, NEW o \in OpsOf(t), NEW writes,
         Prepared(o, writes), Begin(t, o, writes), view' = view, open' \subseteq {"eq", "file"},
         toRead' = [r \in Readers |-> toRead'[r]], \A r \in Readers : toRead'[r] \in Seq(Keys),
         toRead'["player"] = toRead["player"]
  PROVE  IInv'
<1>1. Typed /\ OwnWrites /\ KeyInv /\ LevelFirst /\ NewsInv /\ SlotInv /\ PublishedWhole
      /\ ReadsOnward(toRead["player"])
  BY DEF IInv
<1>2. WritesOK(writes)
  BY DEF Prepared
<1>3. Typed'
  <2>1. /\ todo' = [v \in Threads |-> todo'[v]] /\ op' = [v \in Threads |-> op'[v]]
        /\ \A v \in Threads : WritesOK(todo'[v]) /\ op'[v] \in OpsOf(v)
        /\ clash' \subseteq Keys /\ news' \in Seq(Ops)
        /\ cfg' = cfg /\ ideal' = ideal /\ base' = base
    BY <1>1, <1>2, BeginFacts
  <2> QED BY <1>1, <2>1 DEF Typed
<1>4. KeyInv' /\ OwnWrites'
  BY <1>1, BeginKeys
<1>5. LevelFirst'
  BY <1>1, BeginLevelFirst
<1>6. NewsInv' /\ SlotInv' /\ PublishedWhole'
  BY <1>1, BeginSlots
<1>7. ReadsOnward(toRead'["player"])
  BY <1>1
<1> QED BY <1>3, <1>4, <1>5, <1>6, <1>7 DEF IInv

-----------------------------------------------------------------------------
(* Every operation is prepared by the writes it does.                      *)

\* Writes that leave the outcome of the operation prepare it.
LEMMA ProperPrepared ==
  ASSUME NEW o, NEW w, NEW s, Proper(w, Touches(o), s), Covers(w, Touches(o)),
         Touches(o) # {} => w # <<>>,
         \A k \in Touches(o) : cfg[k] = ideal[k] => s[k] = Outcome(o, ideal)[k],
         o.kind \in {"file", "apply"} => \A n \in Slots : Before(w, <<"level", n>>, Switch(o, n))
  PROVE  Prepared(o, w)
<1>1. WritesOK(w) /\ (\A i \in DOMAIN w : w[i].key \in Touches(o))
      /\ \A k \in Touches(o) : Leaves(w, k, s)
  BY DEF Proper
<1>2. \A k \in Touches(o) : Has(w, k)
  BY DEF Covers, Has
<1>3. \A k \in Touches(o) : cfg[k] = ideal[k] => Leaves(w, k, Outcome(o, ideal))
  BY <1>1, LeavesLocal
<1> QED BY <1>1, <1>2, <1>3 DEF Prepared

\* A remote command that sets a number (connection.cpp:66-489).
LEMMA NumberPrepared ==
  ASSUME NEW name \in {"enable", "level"}, NEW n \in 0 .. NSlots, NEW v \in Int
  PROVE  /\ Number(<<name, n>>, v) \in OpsOf("cli")
         /\ Prepared(Number(<<name, n>>, v), Write(<<name, n>>, v))
<1> DEFINE k == <<name, n>>
           o == Number(k, v)
           s == [x \in Keys |-> v]
           w == Write(k, v)
<1>1. o \in OpsOf("cli")
  BY DEF OpsOf, Numbers
<1>2. Touches(o) = {k} /\ o.kind = "number" /\ o.to = v
  BY TouchesOf DEF Number
<1>3. k \in Keys /\ v \in Kind(k)
  <2>1. CASE name = "enable"
    BY <2>1, KeyFacts, KindFacts
  <2>2. CASE name = "level"
    BY <2>2, KeyFacts, KindFacts
  <2> QED BY <2>1, <2>2
<1>4. s[k] = v
  BY <1>3
<1> HIDE DEF s, k
<1>5. Proper(w, {k}, s) /\ Covers(w, {k}) /\ w # <<>>
  BY <1>3, <1>4, WriteProper
<1>6. Outcome(o, ideal)[k] = v
  BY <1>2, <1>3, OutcomeAt
<1> HIDE DEF o, w
<1>7. Prepared(o, w)
  BY <1>2, <1>4, <1>5, <1>6, ProperPrepared
<1> QED BY <1>1, <1>7 DEF o, w, k

\* EQM: the other bands are written as they were read.
LEMMA BandPrepared ==
  ASSUME Typed, NEW b \in Bands, NEW v \in Int
  PROVE  Band(b, v) \in OpsOf("cli") /\ Prepared(Band(b, v), WriteBand(b, v))
<1> DEFINE o == Band(b, v)
           m == IF cfg[Mag] = GARBLED THEN GARBLED ELSE [cfg[Mag] EXCEPT ![b] = v]
           s == [x \in Keys |-> m]
           w == WriteString(Mag, m)
<1>1. o \in OpsOf("cli")
  BY DEF OpsOf, BandsSet
<1>2. Touches(o) = {Mag} /\ o.kind = "band" /\ o.to = v /\ o.band = b
  BY TouchesOf DEF Band
<1>3. Mag \in Keys /\ Kind(Mag) = [Bands -> Int] \cup {GARBLED}
  BY KeyFacts, KindFacts
<1>4. cfg[Mag] \in Kind(Mag) /\ ideal[Mag] \in [Bands -> Int]
  BY <1>3 DEF Typed, Holds, Meant
<1>5. m \in Kind(Mag) /\ GARBLED \in Kind(Mag)
  BY <1>3, <1>4
<1>6. ideal[Mag] # GARBLED
  BY <1>4, SettingsAssumption DEF Bands
<1>7. Outcome(o, ideal)[Mag] = [ideal[Mag] EXCEPT ![b] = v]
  BY <1>2, <1>3, OutcomeAt
<1>8. cfg[Mag] = ideal[Mag] => m = Outcome(o, ideal)[Mag]
  BY <1>6, <1>7
<1>9. s[Mag] = m
  BY <1>3
<1>10. WriteBand(b, v) = w
  BY DEF WriteBand
<1> HIDE DEF s, o, m
<1>11. Proper(w, {Mag}, s) /\ Covers(w, {Mag}) /\ w # <<>>
  BY <1>3, <1>5, <1>9, WriteStringProper
<1> HIDE DEF w
<1>12. Prepared(o, w)
  BY <1>2, <1>8, <1>9, <1>11, ProperPrepared
<1> QED BY <1>1, <1>10, <1>12 DEF o

\* FnFN: the four settings of the slot.
LEMMA FilePrepared ==
  ASSUME NEW n \in Slots, NEW f \in FileNames \cup {NONE}
  PROVE  File(n, f) \in OpsOf("cli") /\ Prepared(File(n, f), WriteFile(n, f))
<1> DEFINE o == File(n, f)
           s == Outcome(o, ideal)
           w == WriteFile(n, f)
<1>1. o \in OpsOf("cli")
  BY DEF OpsOf, FilesSet
<1>2. Touches(o) = SlotKeys(n) /\ o.kind = "file" /\ o.name = f
  BY TouchesOf DEF File
<1>3. \A k \in SlotKeys(n) : s[k] = FileSetting(f, k[1])
  BY <1>2, SlotKeyFacts, OutcomeAt
<1> HIDE DEF s, o
<1>4. Proper(w, SlotKeys(n), s) /\ Covers(w, SlotKeys(n)) /\ w # <<>>
      /\ Before(w, <<"level", n>>, <<"enable", n>>)
  BY <1>3, FileProper
<1> HIDE DEF w
<1>5. ASSUME NEW m \in Slots PROVE Before(w, <<"level", m>>, Switch(o, m))
  <2>1. Switch(o, m) = <<"enable", m>>
    BY <1>2 DEF Switch
  <2>2. CASE m = n
    BY <1>4, <2>1, <2>2
  <2>3. CASE m # n
    <3>1. <<"level", m>> \notin SlotKeys(n)
      BY <2>3 DEF SlotKeys
    <3> QED BY <1>4, <3>1 DEF Before, Proper
  <2> QED BY <2>2, <2>3
<1>6. Prepared(o, w)
  BY <1>2, <1>4, <1>5, ProperPrepared DEF s
<1> QED BY <1>1, <1>6 DEF o, w

\* apply(): what the page shows.
LEMMA ApplyPrepared ==
  ASSUME Typed, NEW page \in {"eq", "file"}
  PROVE  ApplyPage(page) \in OpsOf("ui") /\ Prepared(ApplyPage(page), WritePage(page))
<1> DEFINE s == view["ui"]
           o == Applied(page, s)
           w == WritePage(page)
<1>1. Shows(s) /\ ApplyPage(page) = o
  BY DEF Typed, ApplyPage, Applied
<1>2. s \in Shown0
  <2>1. s = [k \in Keys |-> s[k]] /\ \A k \in Keys : s[k] \in Kind(k)
    BY <1>1, ShowsMeant DEF Holds, IsMap
  <2>2. \A k \in Keys : s[k] \in Values
    BY <2>1, InValues
  <2>3. s \in [Keys -> Values]
    BY <2>1, <2>2
  <2> QED BY <1>1, <2>3 DEF Shown0
<1>3. o \in OpsOf("ui")
  BY <1>2 DEF OpsOf, Applies
<1>4. Touches(o) = PageKeys(page) /\ o.kind = "apply" /\ o.shown = s
  BY TouchesOf DEF Applied
<1>5. Touches(o) \subseteq Keys
  BY <1>3, OpsOfOps, TouchesKeys DEF Threads
<1>6. \A k \in Touches(o) : Outcome(o, ideal)[k] = s[k]
  BY <1>4, <1>5, OutcomeAt
<1>7. Proper(w, PageKeys(page), s) /\ Covers(w, PageKeys(page)) /\ (PageKeys(page) # {} => w # <<>>)
      /\ \A n \in Slots : Before(w, <<"level", n>>, <<"filename", n>>)
  BY <1>1, PageProper
<1>8. \A n \in Slots : Switch(o, n) = <<"filename", n>>
  BY <1>4 DEF Switch
<1> HIDE DEF o, w, s
<1>9. Prepared(o, w)
  BY <1>4, <1>6, <1>7, <1>8, ProperPrepared
<1> QED BY <1>1, <1>3, <1>9 DEF w

\* ReadJson(), which may fail after the level.
LEMMA JsonPrepared ==
  ASSUME NEW l \in Int, NEW m \in [Bands -> Int], NEW ok \in BOOLEAN
  PROVE  Json(l, m, ok) \in OpsOf("ui") /\ Prepared(Json(l, m, ok), WriteJson(l, m, ok))
<1> DEFINE lv == <<"level", 0>>
           o == Json(l, m, ok)
           s == [k \in Keys |-> IF k = Mag THEN m ELSE l]
           a == Write(lv, l)
           b == WriteString(Mag, m)
<1>1. o \in OpsOf("ui")
  BY DEF OpsOf, Jsons
<1>2. Touches(o) = {lv, Mag} /\ o.kind = "json" /\ o.level = l /\ o.mags = m /\ o.whole = ok
  BY TouchesOf DEF Json
<1>3. lv \in Keys /\ Mag \in Keys /\ lv # Mag /\ l \in Kind(lv) /\ m \in Kind(Mag) /\ GARBLED \in Kind(Mag)
  <2>1. 0 \in 0 .. NSlots
    BY SettingsAssumption
  <2> QED BY <2>1, KeyFacts, KindFacts
<1>4. s[lv] = l /\ s[Mag] = m
  BY <1>3
<1> HIDE DEF s, lv, o
<1>5. /\ Outcome(o, ideal)[lv] = l
      /\ Outcome(o, ideal)[Mag] = IF ok THEN m ELSE ideal[Mag]
  <2>1. lv \in Touches(o) /\ Mag \in Touches(o)
    BY <1>2
  <2>2. Outcome(o, ideal)[lv] = l
    BY ONLY <1>2, <1>3, <2>1, OutcomeAt
  <2>3. Outcome(o, ideal)[Mag] = IF ok THEN m ELSE ideal[Mag]
    BY ONLY <1>2, <1>3, <2>1, OutcomeAt
  <2> QED BY <2>2, <2>3
<1>6. Proper(a, {lv}, s) /\ Covers(a, {lv}) /\ a # <<>>
  BY <1>3, <1>4, WriteProper
<1>7. Proper(b, {Mag}, s) /\ Covers(b, {Mag}) /\ b # <<>>
  BY <1>3, <1>4, WriteStringProper
<1> HIDE DEF a, b
<1>8. WriteJson(l, m, ok) = a \o (IF ok THEN b ELSE <<>>)
  BY DEF WriteJson, a, b, lv
<1>9. CASE ok
  <2>1. WriteJson(l, m, ok) = a \o b
    BY <1>8, <1>9
  <2>2. Proper(a \o b, {lv} \cup {Mag}, s) /\ Covers(a \o b, {lv} \cup {Mag}) /\ a \o b # <<>>
    BY <1>6, <1>7, JoinProper
  <2>3. {lv} \cup {Mag} = Touches(o)
    BY <1>2
  <2>4. \A k \in Touches(o) : s[k] = Outcome(o, ideal)[k]
    BY <1>2, <1>4, <1>5, <1>9
  <2>5. Prepared(o, a \o b)
    BY <1>2, <2>2, <2>3, <2>4, ProperPrepared
  <2> QED BY <1>1, <2>1, <2>5 DEF o
<1>10. CASE ~ok
  <2>1. WriteJson(l, m, ok) = a
    <3>1. a \in Seq(Entries)
      BY <1>6 DEF Proper, WritesOK
    <3>2. a \o <<>> = a
      BY ONLY <3>1
    <3> QED BY <1>8, <1>10, <3>2
  <2>2. WritesOK(a) /\ (\A i \in DOMAIN a : a[i].key = lv) /\ Leaves(a, lv, s) /\ Has(a, lv)
    BY <1>6 DEF Proper, Covers, Has
  <2>3. Leaves(a, lv, Outcome(o, ideal))
    BY <1>4, <1>5, <2>2, LeavesLocal
  <2>4. Leaves(a, Mag, Outcome(o, ideal))
    BY <1>3, <2>2 DEF Leaves
  <2>5. ideal[Mag] = Outcome(o, ideal)[Mag]
    BY <1>5, <1>10
  <2>6. Prepared(o, a)
    BY <1>2, <1>6, <2>2, <2>3, <2>4, <2>5 DEF Prepared
  <2> QED BY <1>1, <2>1, <2>6 DEF o
<1> QED BY <1>9, <1>10

-----------------------------------------------------------------------------
(* A thread writes a setting.                                              *)

\* What changes when thread t writes a setting.
LEMMA WriteFacts ==
  ASSUME Typed, OwnWrites, NEW t \in Threads, WriteNext(t)
  PROVE  \E k, v :
           /\ k \in Keys /\ v \in Kind(k) /\ Busy(t) /\ Head(todo[t]).key = k /\ Head(todo[t]).val = v
           /\ k \in Touches(op[t])
           /\ cfg'[k] = v /\ (\A x \in Keys : x # k => cfg'[x] = cfg[x]) /\ Holds(cfg')
           /\ todo'[t] = Tail(todo[t]) /\ todo'[Other(t)] = todo[Other(t)]
           /\ todo' = [u \in Threads |-> todo'[u]] /\ op' = [u \in Threads |-> op'[u]]
           /\ \A u \in Threads : WritesOK(todo'[u]) /\ op'[u] \in OpsOf(u)
           /\ op'[Other(t)] = op[Other(t)] /\ Meant(ideal')
           /\ \/ Busy(t)' /\ op'[t] = op[t] /\ ideal' = ideal
              \/ todo'[t] = <<>> /\ ~Busy(t)' /\ ideal' = Then(t)
           /\ toRead' = toRead /\ view' = view /\ open' = open /\ clash' = clash
           /\ base' = base /\ news' = news
<1> DEFINE w == todo[t]
           k == Head(w).key
           v == Head(w).val
<1>1. /\ w # <<>> /\ cfg' = [cfg EXCEPT ![k] = v] /\ todo' = [todo EXCEPT ![t] = Tail(w)]
      /\ IF Len(w) > 1 THEN op' = op /\ ideal' = ideal
         ELSE ideal' = Outcome(op[t], ideal) /\ op' = [op EXCEPT ![t] = Idle]
      /\ toRead' = toRead /\ view' = view /\ open' = open /\ clash' = clash
      /\ base' = base /\ news' = news
  BY DEF WriteNext, Typed
<1>2. /\ Holds(cfg) /\ Meant(ideal)
      /\ todo = [u \in Threads |-> todo[u]] /\ \A u \in Threads : WritesOK(todo[u])
      /\ op = [u \in Threads |-> op[u]] /\ \A u \in Threads : op[u] \in OpsOf(u)
  BY DEF Typed
<1>3. Other(t) \in Threads /\ Other(t) # t /\ \A u \in Threads : u = t \/ u = Other(t)
  BY ThreadFacts
<1>4. WritesOK(Tail(w)) /\ v \in Kind(k) /\ k \in Keys
  BY <1>1, <1>2, TailHas
<1>5. w \in Seq(Entries)
  BY <1>2 DEF WritesOK
<1>6. Head(w) = w[1] /\ 1 \in DOMAIN w /\ Len(w) \in Nat \ {0} /\ Len(Tail(w)) = Len(w) - 1
      /\ Tail(w) \in Seq(Entries)
  BY ONLY <1>1, <1>5, HeadAndTail
<1>7. k \in Touches(op[t])
  BY <1>6 DEF OwnWrites
<1>8. /\ todo'[t] = Tail(w) /\ todo'[Other(t)] = todo[Other(t)]
      /\ todo' = [u \in Threads |-> todo'[u]]
  BY <1>1, <1>2, <1>3
<1>9. \A u \in Threads : WritesOK(todo'[u])
  BY <1>2, <1>3, <1>4, <1>8
<1>10. cfg'[k] = v /\ (\A x \in Keys : x # k => cfg'[x] = cfg[x]) /\ Holds(cfg')
  <2> HIDE DEF k, v
  <2>1. cfg = [x \in Keys |-> cfg[x]] /\ \A x \in Keys : cfg[x] \in Kind(x)
    BY <1>2 DEF Holds, IsMap
  <2>2. cfg' = [x \in Keys |-> IF x = k THEN v ELSE cfg[x]]
    BY <1>1, <2>1
  <2>3. cfg'[k] = v /\ (\A x \in Keys : x # k => cfg'[x] = cfg[x])
    BY <1>4, <2>2
  <2>4. IsMap(cfg')
    BY <2>2 DEF IsMap
  <2>5. \A x \in Keys : cfg'[x] \in Kind(x)
    BY <1>4, <2>1, <2>3
  <2> QED BY <2>3, <2>4, <2>5 DEF Holds
<1>11. Tail(w) = <<>> <=> ~(Len(w) > 1)
  BY ONLY <1>1, <1>5, TailEmpty
<1>13. Meant(ideal')
  BY <1>1, <1>2, OpsOfOps, OutcomeMeant
<1>14. /\ op' = [u \in Threads |-> op'[u]] /\ \A u \in Threads : op'[u] \in OpsOf(u)
       /\ op'[Other(t)] = op[Other(t)]
  <2>1. Idle \in OpsOf(t)
    BY DEF OpsOf
  <2>2. op' = op \/ op' = [op EXCEPT ![t] = Idle]
    BY <1>1
  <2>3. CASE op' = op
    BY <1>2, <2>3
  <2>4. CASE op' = [op EXCEPT ![t] = Idle]
    BY <1>2, <1>3, <2>1, <2>4
  <2> QED BY <2>2, <2>3, <2>4
<1>15. \/ Busy(t)' /\ op'[t] = op[t] /\ ideal' = ideal
       \/ todo'[t] = <<>> /\ ~Busy(t)' /\ ideal' = Then(t)
  BY <1>1, <1>8, <1>11 DEF Busy, Then
<1>16. Busy(t)
  BY <1>1 DEF Busy
<1> QED BY <1>1, <1>4, <1>7, <1>8, <1>9, <1>10, <1>13, <1>14, <1>15, <1>16

\* What the operation of t does not touch stays.
LEMMA WriteElsewhere ==
  ASSUME NEW t \in Threads, NEW x \in Keys, x \notin Touches(op[t]),
         ideal' = ideal \/ ideal' = Then(t)
  PROVE  ideal'[x] = ideal[x]
BY OutcomeAt DEF Then

\* A write leaves what the settings hold accounted for.
LEMMA WriteKeys ==
  ASSUME Typed, OwnWrites, KeyInv, LevelFirst, NEW t \in Threads, WriteNext(t)
  PROVE  Typed' /\ OwnWrites' /\ KeyInv' /\ LevelFirst'
<1> DEFINE u == Other(t)
<1>1. PICK k0, v0 :
           /\ k0 \in Keys /\ v0 \in Kind(k0) /\ Busy(t) /\ Head(todo[t]).key = k0 /\ Head(todo[t]).val = v0
           /\ k0 \in Touches(op[t])
           /\ cfg'[k0] = v0 /\ (\A x \in Keys : x # k0 => cfg'[x] = cfg[x]) /\ Holds(cfg')
           /\ todo'[t] = Tail(todo[t]) /\ todo'[u] = todo[u]
           /\ todo' = [v \in Threads |-> todo'[v]] /\ op' = [v \in Threads |-> op'[v]]
           /\ \A v \in Threads : WritesOK(todo'[v]) /\ op'[v] \in OpsOf(v)
           /\ op'[u] = op[u] /\ Meant(ideal')
           /\ \/ Busy(t)' /\ op'[t] = op[t] /\ ideal' = ideal
              \/ todo'[t] = <<>> /\ ~Busy(t)' /\ ideal' = Then(t)
           /\ toRead' = toRead /\ view' = view /\ open' = open /\ clash' = clash
           /\ base' = base /\ news' = news
  BY WriteFacts
<1>2. u \in Threads /\ u # t /\ \A v \in Threads : v = t \/ v = u
  BY ThreadFacts
<1>3. WritesOK(todo[t]) /\ todo[t] # <<>>
  BY <1>1 DEF Typed, Busy
<1>4. \A x : Pending(t, x) <=> k0 = x \/ Has(Tail(todo[t]), x)
  BY <1>1, <1>3, TailHas DEF Pending
<1>5. \A x : Pending(t, x)' <=> Has(Tail(todo[t]), x)
  BY <1>1 DEF Pending
<1>6. \A x : Pending(u, x)' <=> Pending(u, x)
  BY <1>1 DEF Pending
<1> HIDE DEF u
<1>7. /\ \A x : Writes(t, x) <=> x \in Touches(op[t])
      /\ \A x : Writes(u, x)' <=> Writes(u, x)
      /\ \A x : Writes(t, x)' => Busy(t)' /\ op'[t] = op[t] /\ ideal' = ideal
      /\ \A x : Writes(t, x)' => Writes(t, x)
  BY <1>1 DEF Writes, Busy
<1>8. \A x : /\ Writing(x) <=> Writes(t, x) \/ Writes(u, x)
             /\ Writing(x)' <=> Writes(t, x)' \/ Writes(u, x)'
  <2>1. \A x : Writing(x) <=> Writes("cli", x) \/ Writes("ui", x)
    BY DEF Writing, Writes, Busy
  <2>2. \A x : Writing(x)' <=> Writes("cli", x)' \/ Writes("ui", x)'
    BY DEF Writing, Writes, Busy
  <2>3. (t = "cli" /\ u = "ui") \/ (t = "ui" /\ u = "cli")
    BY <1>2 DEF Threads
  <2>4. CASE t = "cli" /\ u = "ui"
    BY <2>1, <2>2, <2>4
  <2>5. CASE t = "ui" /\ u = "cli"
    BY <2>1, <2>2, <2>5
  <2> QED BY <2>3, <2>4, <2>5
<1>9. \A x \in Keys \ clash : ~(Writes(t, x) /\ Writes(u, x))
  <2>1. (t = "cli" /\ u = "ui") \/ (t = "ui" /\ u = "cli")
    BY <1>2 DEF Threads
  <2> QED BY <2>1 DEF KeyInv
<1>10. Typed'
  BY <1>1 DEF Typed
<1>11. OwnWrites'
  <2>1. ASSUME NEW i \in DOMAIN todo'[t] PROVE todo'[t][i].key \in Touches(op'[t])
    <3>1. Has(Tail(todo[t]), todo'[t][i].key)
      BY <1>1, <2>1 DEF Has
    <3>2. Has(todo[t], todo'[t][i].key)
      BY <1>3, <3>1, TailHas
    <3>3. todo'[t][i].key \in Touches(op[t])
      BY <3>2 DEF Has, OwnWrites
    <3>4. todo'[t] # <<>>
      BY <2>1
    <3> QED BY <1>1, <3>3, <3>4
  <2>2. \A i \in DOMAIN todo'[u] : todo'[u][i].key \in Touches(op'[u])
    BY <1>1, <1>2 DEF OwnWrites
  <2>3. ASSUME NEW v \in Threads PROVE \A i \in DOMAIN todo'[v] : todo'[v][i].key \in Touches(op'[v])
    BY <1>2, <2>1, <2>2
  <2> QED BY <2>3 DEF OwnWrites
<1>12. ASSUME NEW k \in Keys \ clash, Writes(t, k)
       PROVE  /\ Has(Tail(todo[t]), k) => /\ cfg'[k] \in {ideal[k], GARBLED, Then(t)[k]}
                                          /\ Leaves(Tail(todo[t]), k, Then(t))
              /\ ~Has(Tail(todo[t]), k) => cfg'[k] = Then(t)[k]
  <2>1. IF Pending(t, k)
        THEN cfg[k] \in {ideal[k], GARBLED, Then(t)[k]} /\ Leaves(todo[t], k, Then(t))
        ELSE cfg[k] = Then(t)[k]
    BY <1>12 DEF KeyInv, Settles
  <2>2. CASE k0 = k
    <3>1. Leaves(todo[t], k, Then(t))
      BY <1>4, <2>1, <2>2
    <3>2. /\ Leaves(Tail(todo[t]), k, Then(t)) /\ v0 \in {Then(t)[k], GARBLED}
          /\ ~Has(Tail(todo[t]), k) => v0 = Then(t)[k]
      BY <1>1, <1>3, <2>2, <3>1, TailLeaves
    <3> QED BY <1>1, <2>2, <3>2
  <2>3. CASE k0 # k
    <3>1. cfg'[k] = cfg[k]
      BY <1>1, <2>3
    <3>2. Leaves(todo[t], k, Then(t)) => Leaves(Tail(todo[t]), k, Then(t))
      BY <1>3, TailLeaves
    <3> QED BY <1>4, <2>1, <2>3, <3>1, <3>2
  <2> QED BY <2>2, <2>3
<1>13. ASSUME NEW k \in Keys \ clash
       PROVE  /\ ~(Writes(t, k)' /\ Writes(u, k)')
              /\ Writes(t, k)' => Settles(t, k)'
              /\ Writes(u, k)' => Settles(u, k)'
              /\ ~Writing(k)' => cfg'[k] = ideal'[k]
  <2>1. ~(Writes(t, k)' /\ Writes(u, k)')
    BY <1>7, <1>9
  <2>2. ASSUME Writes(t, k)' PROVE Settles(t, k)'
    <3>1. Writes(t, k) /\ op'[t] = op[t] /\ ideal' = ideal
      BY <1>7, <2>2
    <3>2. Then(t)' = Then(t)
      BY <3>1 DEF Then
    <3>3. todo'[t] = Tail(todo[t]) /\ (Pending(t, k)' <=> Has(Tail(todo[t]), k))
      BY <1>1, <1>5
    <3> QED BY <1>12, <3>1, <3>2, <3>3 DEF Settles
  <2>3. ASSUME Writes(u, k)' PROVE Settles(u, k)'
    <3>1. Writes(u, k) /\ k \notin Touches(op[t])
      BY <1>7, <1>9, <2>3
    <3>2. cfg'[k] = cfg[k] /\ ideal'[k] = ideal[k]
      BY <1>1, <3>1, WriteElsewhere
    <3>3. Then(u)'[k] = Then(u)[k]
      <4>1. Then(u)' = Outcome(op[u], ideal')
        BY <1>1 DEF Then
      <4> QED BY <3>2, <4>1, OutcomeLocal DEF Then
    <3>4. IF Pending(u, k)
          THEN cfg[k] \in {ideal[k], GARBLED, Then(u)[k]} /\ Leaves(todo[u], k, Then(u))
          ELSE cfg[k] = Then(u)[k]
      BY <1>2, <3>1 DEF KeyInv, Settles
    <3>5. Leaves(todo[u], k, Then(u)) => Leaves(todo[u], k, Then(u)')
      BY <3>3, LeavesLocal
    <3>6. todo'[u] = todo[u] /\ (Pending(u, k)' <=> Pending(u, k))
      BY <1>1, <1>6
    <3> QED BY <3>2, <3>3, <3>4, <3>5, <3>6 DEF Settles
  <2>4. ASSUME ~Writing(k)' PROVE cfg'[k] = ideal'[k]
    <3>1. ~Writes(u, k) /\ ~Writes(t, k)'
      BY <1>7, <1>8, <2>4
    <3>2. CASE k \in Touches(op[t])
      <4>1. ~Busy(t)' \/ op'[t] # op[t]
        BY <3>1, <3>2 DEF Writes
      <4>2. todo'[t] = <<>> /\ ideal' = Then(t)
        BY <1>1, <4>1
      <4>3. ~Has(Tail(todo[t]), k)
        BY <1>1, <4>2 DEF Has
      <4>4. Writes(t, k)
        BY <1>7, <3>2
      <4> QED BY <1>12, <4>2, <4>3, <4>4
    <3>3. CASE k \notin Touches(op[t])
      <4>1. cfg[k] = ideal[k]
        BY <1>7, <1>8, <3>1, <3>3 DEF KeyInv
      <4>2. cfg'[k] = cfg[k] /\ ideal'[k] = ideal[k]
        BY <1>1, <3>3, WriteElsewhere
      <4> QED BY <4>1, <4>2
    <3> QED BY <3>2, <3>3
  <2> QED BY <2>1, <2>2, <2>3, <2>4
<1>14. KeyInv'
  <2>1. ASSUME NEW k \in Keys \ clash' PROVE ~(Writes("cli", k)' /\ Writes("ui", k)')
    <3>1. (t = "cli" /\ u = "ui") \/ (t = "ui" /\ u = "cli")
      BY <1>2 DEF Threads
    <3> QED BY <1>1, <1>13, <2>1, <3>1
  <2>2. ASSUME NEW k \in Keys \ clash', NEW v \in Threads, Writes(v, k)' PROVE Settles(v, k)'
    BY <1>1, <1>2, <1>13, <2>2
  <2>3. \A k \in Keys \ clash' : ~Writing(k)' => cfg'[k] = ideal'[k]
    BY <1>1, <1>13
  <2> QED BY <2>1, <2>2, <2>3 DEF KeyInv
<1>15. ASSUME NEW n \in Slots, op'[t].kind \in {"file", "apply"}, Pending(t, <<"level", n>>)'
       PROVE  /\ Before(todo'[t], <<"level", n>>, Switch(op'[t], n))
              /\ Switch(op'[t], n) \notin clash' => cfg'[Switch(op'[t], n)] = ideal'[Switch(op'[t], n)]
  <2>1. Has(Tail(todo[t]), <<"level", n>>) /\ Pending(t, <<"level", n>>)
    BY <1>4, <1>5, <1>15
  <2>2. todo'[t] # <<>>
    BY <1>1, <2>1 DEF Has
  <2>3. op'[t] = op[t] /\ ideal' = ideal
    BY <1>1, <2>2
  <2>4. PICK sw : sw = Switch(op[t], n)
    OBVIOUS
  <2>5. Before(todo[t], <<"level", n>>, sw) /\ (sw \notin clash => cfg[sw] = ideal[sw])
    BY <1>15, <2>1, <2>3, <2>4 DEF LevelFirst
  <2>6. Before(Tail(todo[t]), <<"level", n>>, sw) /\ k0 # sw
    BY <1>1, <1>3, <2>1, <2>5, TailBefore
  <2>7. sw \in Keys
    BY <2>4, SlotKeyFacts DEF Switch
  <2>8. cfg'[sw] = cfg[sw]
    BY <1>1, <2>6, <2>7
  <2> QED BY <1>1, <2>3, <2>4, <2>5, <2>6, <2>8
<1>16. ASSUME NEW n \in Slots, op'[u].kind \in {"file", "apply"}, Pending(u, <<"level", n>>)'
       PROVE  /\ Before(todo'[u], <<"level", n>>, Switch(op'[u], n))
              /\ Switch(op'[u], n) \notin clash' => cfg'[Switch(op'[u], n)] = ideal'[Switch(op'[u], n)]
  <2>1. Pending(u, <<"level", n>>) /\ op'[u] = op[u]
    BY <1>1, <1>6, <1>16
  <2>2. PICK sw : sw = Switch(op[u], n)
    OBVIOUS
  <2>3. Before(todo[u], <<"level", n>>, sw) /\ (sw \notin clash => cfg[sw] = ideal[sw])
    BY <1>2, <1>16, <2>1, <2>2 DEF LevelFirst
  <2>4. <<"level", n>> \in Touches(op[u]) /\ Busy(u)
    BY <1>2, <2>1 DEF Pending, Has, OwnWrites, Busy
  <2>5. op[u] \in Ops
    BY <1>2, OpsOfOps DEF Typed
  <2>6. sw \in Touches(op[u]) /\ sw \in Keys
    BY <1>16, <2>1, <2>2, <2>4, <2>5, SwitchTouched
  <2>7. ASSUME sw \notin clash PROVE cfg'[sw] = ideal'[sw]
    <3>1. Writes(u, sw)
      BY <2>4, <2>6 DEF Writes
    <3>2. sw \notin Touches(op[t])
      BY <1>7, <1>9, <2>6, <2>7, <3>1
    <3>3. cfg'[sw] = cfg[sw] /\ ideal'[sw] = ideal[sw]
      BY <1>1, <2>6, <3>2, WriteElsewhere
    <3> QED BY <2>3, <2>7, <3>3
  <2> QED BY <1>1, <2>2, <2>3, <2>7
<1>17. ASSUME NEW v \in Threads, NEW n \in Slots, op'[v].kind \in {"file", "apply"},
              Pending(v, <<"level", n>>)'
       PROVE  /\ Before(todo'[v], <<"level", n>>, Switch(op'[v], n))
              /\ Switch(op'[v], n) \notin clash' => cfg'[Switch(op'[v], n)] = ideal'[Switch(op'[v], n)]
  BY <1>2, <1>15, <1>16, <1>17
<1>18. LevelFirst'
  BY <1>17 DEF LevelFirst
<1> QED BY <1>10, <1>11, <1>14, <1>18

\* The operation that t is in is the only news of the slot: it has happened
\* to the slot neither before nor twice.
LEMMA OnlyNews ==
  ASSUME Typed, NewsInv, Reading, NEW n \in Slots, SlotOK(n), Empty(n), SlotKeys(n) \cap clash = {},
         NEW t \in Threads, Busy(t), Touches(op[t]) \cap SlotKeys(n) # {}
  PROVE  /\ NewsOf(n) # {}
         /\ \A i \in DOMAIN news : NewsOf(n) = {i} =>
              /\ op[t] = news[i] /\ Unchanged(n) /\ OnePiece(n, op[t], Outcome(op[t], base))
              /\ Busy(Other(t)) => Touches(op[Other(t)]) \cap SlotKeys(n) = {}
<1>1. \A v \in Threads : op[v] \in OpsOf(v)
  BY DEF Typed
<1>2. ASSUME NEW v \in Threads, Busy(v), Touches(op[v]) \cap SlotKeys(n) # {}
      PROVE  \E j \in NewsOf(n) : news[j] = op[v]
  <2>1. PICK j \in DOMAIN news : news[j] = op[v]
    BY <1>2 DEF NewsInv
  <2>2. j \in NewsOf(n)
    BY <1>2, <2>1 DEF NewsOf
  <2> QED BY <2>1, <2>2
<1>3. NewsOf(n) # {}
  BY <1>2
<1>4. ASSUME NEW i \in DOMAIN news, NewsOf(n) = {i}
      PROVE  /\ op[t] = news[i] /\ Unchanged(n) /\ OnePiece(n, op[t], Outcome(op[t], base))
             /\ Busy(Other(t)) => Touches(op[Other(t)]) \cap SlotKeys(n) = {}
  <2>1. op[t] = news[i]
    BY <1>2, <1>4
  <2>2. PICK o, s : o = news[i] /\ s = Outcome(o, base)
    OBVIOUS
  <2>3. UnderWayOrDone(n, o, s) /\ OnePiece(n, o, s)
    BY <1>4, <2>2 DEF SlotOK
  <2>4. ~Elsewhere(n)
    BY DEF Elsewhere
  <2>5. Unchanged(n)
    BY <2>3, <2>4 DEF UnderWayOrDone
  <2>6. ASSUME Busy(Other(t)), Touches(op[Other(t)]) \cap SlotKeys(n) # {} PROVE FALSE
    <3>1. Other(t) \in Threads /\ Other(t) # t
      BY ThreadFacts
    <3>2. op[Other(t)] = news[i]
      BY <1>2, <1>4, <2>6, <3>1
    <3>3. op[t] \in OpsOf(t) /\ op[t] \in OpsOf(Other(t)) /\ Touches(op[t]) # {}
      BY <1>1, <2>1, <3>1, <3>2
    <3> QED BY <3>1, <3>3, DifferentOps
  <2>7. OnePiece(n, op[t], Outcome(op[t], base))
    BY <2>1, <2>2, <2>3
  <2> QED BY <2>1, <2>5, <2>6, <2>7
<1> QED BY <1>3, <1>4

\* A write leaves what has happened to the slots accounted for: with the
\* last of them the operation has happened.
LEMMA WriteSlots ==
  ASSUME Typed, OwnWrites, NewsInv, SlotInv, PublishedWhole, NEW t \in Threads, WriteNext(t)
  PROVE  NewsInv' /\ SlotInv' /\ PublishedWhole'
<1> DEFINE u == Other(t)
<1>1. PICK k0, v0 :
           /\ k0 \in Keys /\ v0 \in Kind(k0) /\ Busy(t) /\ Head(todo[t]).key = k0
           /\ Head(todo[t]).val = v0 /\ k0 \in Touches(op[t])
           /\ cfg'[k0] = v0 /\ (\A x \in Keys : x # k0 => cfg'[x] = cfg[x])
           /\ todo'[t] = Tail(todo[t]) /\ todo'[u] = todo[u]
           /\ op'[u] = op[u]
           /\ \/ Busy(t)' /\ op'[t] = op[t] /\ ideal' = ideal
              \/ todo'[t] = <<>> /\ ~Busy(t)' /\ ideal' = Then(t)
           /\ toRead' = toRead /\ view' = view /\ clash' = clash
           /\ base' = base /\ news' = news
  BY WriteFacts
<1>2. u \in Threads /\ u # t /\ \A v \in Threads : v = t \/ v = u
  BY ThreadFacts
<1>3. WritesOK(todo[t]) /\ todo[t] # <<>> /\ op[t] \in OpsOf(t)
  BY <1>1 DEF Typed, Busy
<1>4. \A x : Pending(t, x) <=> k0 = x \/ Has(Tail(todo[t]), x)
  BY <1>1, <1>3, TailHas DEF Pending
<1>5. \A x : Pending(t, x)' <=> Has(Tail(todo[t]), x)
  BY <1>1 DEF Pending
<1>6. \A x : Pending(u, x)' <=> Pending(u, x)
  BY <1>1 DEF Pending
<1>7. Busy(u)' <=> Busy(u)
  BY <1>1 DEF Busy
<1> HIDE DEF u
<1>8. \A v \in Threads : Busy(v)' => Busy(v) /\ op'[v] = op[v]
  BY <1>1, <1>2, <1>7
<1>9. \A v \in Threads : \A x : Pending(v, x)' => Pending(v, x)
  BY <1>2, <1>4, <1>5, <1>6
<1>10. Reading' = Reading
  BY <1>1 DEF Reading
<1>11. NewsInv'
  BY <1>1, <1>8, <1>10 DEF NewsInv
<1>12. PublishedWhole'
  BY <1>1, PublishedStays
<1>13. \A n : NewsOf(n)' = NewsOf(n) /\ Empty(n)' = Empty(n)
  BY <1>1 DEF NewsOf, Empty
<1>14. ASSUME Reading, NEW n \in Slots, Touches(op[t]) \cap SlotKeys(n) = {} PROVE SlotOK(n)'
  <2>1. SlotOK(n)
    BY <1>14 DEF SlotInv
  <2>2. \A k \in SlotKeys(n) : ideal'[k] = ideal[k]
    BY <1>1, <1>14, SlotKeyFacts, WriteElsewhere
  <2>3. cfg'[<<"level", n>>] = cfg[<<"level", n>>]
    <3>1. <<"level", n>> \in Keys /\ <<"level", n>> \in SlotKeys(n)
      BY SlotKeyFacts
    <3> QED BY <1>1, <1>14, <3>1
  <2>4. ASSUME NEW v \in Threads, Busy(v), Touches(op[v]) \cap SlotKeys(n) # {}
        PROVE  Busy(v)' /\ op'[v] = op[v]
    BY <1>1, <1>2, <1>7, <1>14, <2>4
  <2>5. DOMAIN news \subseteq DOMAIN news' /\ NewsOf(n)' \subseteq DOMAIN news
        /\ \A i \in NewsOf(n) : news'[i] = news[i]
    BY <1>1, <1>13 DEF NewsOf
  <2> QED BY <1>1, <1>8, <1>9, <1>13, <2>1, <2>2, <2>3, <2>4, <2>5, SlotAsBefore
<1>15. ASSUME Reading, NEW n \in Slots, Touches(op[t]) \cap SlotKeys(n) # {} PROVE SlotOK(n)'
  <2>1. SlotOK(n)
    BY <1>15 DEF SlotInv
  <2>2. SUFFICES ASSUME Empty(n), SlotKeys(n) \cap clash = {}
                 PROVE  /\ NewsOf(n)' # {}
                        /\ \A i \in DOMAIN news' : NewsOf(n)' = {i} =>
                             \A o, s : o = news'[i] /\ s = Outcome(o, base') =>
                               UnderWayOrDone(n, o, s)' /\ OnePiece(n, o, s)'
    BY <1>1, <1>13 DEF SlotOK
  <2>3. /\ NewsOf(n) # {}
        /\ \A i \in DOMAIN news : NewsOf(n) = {i} =>
              /\ op[t] = news[i] /\ Unchanged(n) /\ OnePiece(n, op[t], Outcome(op[t], base))
              /\ Busy(u) => Touches(op[u]) \cap SlotKeys(n) = {}
    BY <1>1, <1>15, <2>1, <2>2, OnlyNews DEF u
  <2>4. ASSUME NEW i \in DOMAIN news, NewsOf(n) = {i}, NEW o, NEW s, o = news[i], s = Outcome(o, base)
        PROVE  UnderWayOrDone(n, o, s)' /\ OnePiece(n, o, s)'
    <3>1. /\ op[t] = o /\ Unchanged(n) /\ OnePiece(n, o, s)
          /\ Busy(u) => Touches(op[u]) \cap SlotKeys(n) = {}
      BY <2>3, <2>4
    <3>2. LevelDone(n, s) => LevelDone(n, s)'
      <4>1. SUFFICES ASSUME LevelDone(n, s) PROVE LevelDone(n, s)'
        OBVIOUS
      <4>2. k0 # <<"level", n>>
        BY <1>4, <4>1 DEF LevelDone
      <4>3. cfg'[<<"level", n>>] = cfg[<<"level", n>>]
        BY <1>1, <4>2, SlotKeyFacts
      <4> QED BY <1>9, <4>1, <4>3 DEF LevelDone
    <3>3. /\ NamedYet(n)' = NamedYet(n) /\ Uses(n)' = Uses(n)
          /\ \A k : Unread(k)' = Unread(k) /\ Seen(k)' = Seen(k)
      BY <1>1 DEF NamedYet, Unread, Seen, Uses
    <3>4. OnePiece(n, o, s)'
      BY <3>1, <3>2, <3>3 DEF OnePiece
    <3>5. CASE Busy(t)' /\ op'[t] = op[t] /\ ideal' = ideal
      <4>1. Unchanged(n)'
        BY <1>1, <3>1, <3>5 DEF Unchanged
      <4>2. UnderWayOrDone(n, o, s)'
        BY <3>1, <3>5, <4>1 DEF UnderWayOrDone
      <4> QED BY <3>4, <4>2
    <3>6. CASE ~Busy(t)' /\ ideal' = Then(t)
      <4>1. Elsewhere(n)'
        <5>1. ASSUME NEW v \in Threads, Busy(v)' PROVE Touches(op'[v]) \cap SlotKeys(n) = {}
          <6>1. v = u
            BY <1>2, <3>6, <5>1
          <6> QED BY <1>1, <1>7, <3>1, <5>1, <6>1
        <5> QED BY <5>1 DEF Elsewhere
      <4>2. Same(n, s)'
        <5>1. ASSUME NEW k \in SlotKeys(n) PROVE ideal'[k] = s[k]
          <6>1. ideal[k] = base[k] /\ k \in Keys
            BY <3>1, <5>1, SlotKeyFacts DEF Unchanged
          <6>2. Outcome(o, ideal)[k] = Outcome(o, base)[k]
            BY <6>1, OutcomeLocal
          <6> QED BY <2>4, <3>1, <3>6, <6>2 DEF Then
        <5> QED BY <5>1 DEF Same
      <4>3. UnderWayOrDone(n, o, s)'
        BY <4>1, <4>2 DEF UnderWayOrDone
      <4> QED BY <3>4, <4>3
    <3> QED BY <1>1, <3>5, <3>6
  <2> QED BY <1>1, <1>13, <2>3, <2>4
<1>16. SlotInv'
  BY <1>10, <1>14, <1>15 DEF SlotInv
<1> QED BY <1>11, <1>12, <1>16

\* A write keeps the invariant.
LEMMA WriteKeeps ==
  ASSUME IInv, NEW t \in Threads, WriteNext(t)
  PROVE  IInv'
<1>1. Typed /\ OwnWrites /\ KeyInv /\ LevelFirst /\ NewsInv /\ SlotInv /\ PublishedWhole
      /\ ReadsOnward(toRead["player"])
  BY DEF IInv
<1>2. Typed' /\ OwnWrites' /\ KeyInv' /\ LevelFirst'
  BY <1>1, WriteKeys
<1>3. NewsInv' /\ SlotInv' /\ PublishedWhole'
  BY <1>1, WriteSlots
<1>4. toRead' = toRead
  BY DEF WriteNext
<1> QED BY <1>1, <1>2, <1>3, <1>4 DEF IInv

-----------------------------------------------------------------------------
(* A thread reads a setting.                                               *)

\* What the player may find in a slot that has one piece of news.
LEMMA SlotRead ==
  ASSUME Typed, OwnWrites, KeyInv, LevelFirst, NewsInv, Reading,
         NEW n \in Slots, SlotOK(n), Empty(n), SlotKeys(n) \cap clash = {},
         NEW i \in DOMAIN news, NewsOf(n) = {i}, NEW o, NEW s, o = news[i], s = Outcome(o, base)
  PROVE  /\ cfg[<<"filename", n>>] \in FileNames =>
              o.kind \in {"file", "apply"} /\ cfg[<<"filename", n>>] = s[<<"filename", n>>]
         /\ o.kind \in {"file", "apply"} /\ cfg[Switch(o, n)] # base[Switch(o, n)] => LevelDone(n, s)
<1>1. PICK fn, lv, sw : fn = <<"filename", n>> /\ lv = <<"level", n>> /\ sw = Switch(o, n)
  OBVIOUS
<1>2. /\ fn \in SlotKeys(n) /\ lv \in SlotKeys(n) /\ sw \in SlotKeys(n) /\ SlotKeys(n) \subseteq Keys
      /\ fn \in Keys /\ lv \in Keys /\ sw \in Keys
  BY <1>1, SlotKeyFacts DEF Switch
<1>3. fn \notin clash /\ lv \notin clash /\ sw \notin clash
  BY <1>2
<1>4. base[fn] = NONE /\ NONE \notin FileNames /\ GARBLED \notin FileNames
  BY <1>1, SettingsAssumption DEF Empty
<1>5. o \in Ops /\ Touches(o) \cap SlotKeys(n) # {}
  <2>1. news \in Seq(Ops) /\ i \in NewsOf(n)
    BY DEF Typed
  <2>2. news[i] \in Ops
    BY ONLY <2>1, i \in DOMAIN news
  <2> QED BY <2>1, <2>2 DEF NewsOf
<1>6. /\ fn \in Touches(o) => o.kind \in {"file", "apply"}
      /\ o.kind \in {"file", "apply"} => SlotKeys(n) \subseteq Touches(o)
  BY <1>1, <1>5, TouchesSlot
<1>7. fn \notin Touches(o) => s[fn] = NONE
  BY <1>2, <1>4, OutcomeAt
<1>8. \A t \in Threads : \A x : Pending(t, x) => Busy(t) /\ x \in Touches(op[t])
  BY DEF Pending, Has, OwnWrites, Busy
<1>9. UnderWayOrDone(n, o, s)
  BY DEF SlotOK
<1>10. CASE Unchanged(n) /\ \E t \in Threads : Busy(t) /\ op[t] = o
  <2>1. PICK t \in Threads : Busy(t) /\ op[t] = o
    BY <1>10
  <2>2. Busy(Other(t)) => Touches(op[Other(t)]) \cap SlotKeys(n) = {}
    BY <1>5, <2>1, OnlyNews
  <2>3. \A v \in Threads : v = t \/ v = Other(t)
    BY ThreadFacts
  <2>4. \A x \in SlotKeys(n) : /\ Writing(x) => x \in Touches(o)
                               /\ Pending(Other(t), x) => FALSE
    <3>1. \A x \in SlotKeys(n) : ~Writes(Other(t), x)
      BY <2>2 DEF Writes
    <3>2. \A x \in SlotKeys(n) : Writing(x) => x \in Touches(o)
      BY <2>1, <2>3, <3>1, ThreadFacts DEF Writes
    <3>3. \A x \in SlotKeys(n) : ~Pending(Other(t), x)
      BY <1>8, <3>1, ThreadFacts DEF Writes
    <3> QED BY <3>2, <3>3
  <2>5. ASSUME NEW x \in SlotKeys(n) PROVE ideal[x] = base[x] /\ Then(t)[x] = s[x] /\ x \in Keys \ clash
    <3>1. ideal[x] = base[x] /\ x \in Keys
      BY <1>2, <1>10 DEF Unchanged
    <3>2. Outcome(o, ideal)[x] = Outcome(o, base)[x]
      BY <3>1, OutcomeLocal
    <3> QED BY <2>1, <3>1, <3>2 DEF Then
  <2>6. ASSUME NEW x \in SlotKeys(n), x \in Touches(o)
        PROVE  IF Pending(t, x) THEN cfg[x] \in {base[x], GARBLED, s[x]} ELSE cfg[x] = s[x]
    <3>1. Writes(t, x) /\ x \in Keys \ clash
      BY <2>1, <2>5, <2>6 DEF Writes
    <3>2. Settles(t, x)
      BY <3>1 DEF KeyInv
    <3> QED BY <2>5, <2>6, <3>2 DEF Settles
  <2>7. ASSUME cfg[fn] \in FileNames PROVE o.kind \in {"file", "apply"} /\ cfg[fn] = s[fn]
    <3>1. fn \in Touches(o)
      <4>1. SUFFICES ASSUME fn \notin Touches(o) PROVE FALSE
        OBVIOUS
      <4>2. ~Writing(fn)
        BY <1>2, <2>4, <4>1
      <4>3. cfg[fn] = ideal[fn] /\ ideal[fn] = base[fn]
        BY <1>2, <1>3, <2>5, <4>2 DEF KeyInv
      <4> QED BY <1>4, <2>7, <4>3
    <3>2. cfg[fn] \in {base[fn], GARBLED, s[fn]}
      BY <1>2, <2>6, <3>1
    <3> QED BY <1>4, <1>6, <2>7, <3>1, <3>2
  <2>8. ASSUME o.kind \in {"file", "apply"}, cfg[sw] # base[sw] PROVE LevelDone(n, s)
    <3>1. ~Pending(t, lv)
      <4>1. SUFFICES ASSUME Pending(t, lv) PROVE FALSE
        OBVIOUS
      <4>2. cfg[sw] = ideal[sw]
        BY <1>1, <1>3, <2>1, <2>8, <4>1 DEF LevelFirst
      <4> QED BY <1>2, <2>5, <2>8, <4>2
    <3>2. cfg[lv] = s[lv]
      BY <1>2, <1>6, <2>6, <2>8, <3>1
    <3>3. \A v \in Threads : ~Pending(v, lv)
      BY <1>2, <2>3, <2>4, <3>1
    <3> QED BY <1>1, <3>2, <3>3 DEF LevelDone
  <2> QED BY <1>1, <2>7, <2>8
<1>11. CASE Same(n, s) /\ Elsewhere(n)
  <2>1. ASSUME NEW x \in SlotKeys(n) PROVE cfg[x] = s[x] /\ \A t \in Threads : ~Pending(t, x)
    <3>1. \A t \in Threads : ~Writes(t, x)
      BY <1>11 DEF Elsewhere, Writes
    <3>2. ~Writing(x) /\ x \in Keys \ clash
      BY <1>2, <3>1, ThreadFacts
    <3>3. cfg[x] = ideal[x] /\ ideal[x] = s[x]
      BY <1>11, <3>2 DEF KeyInv, Same
    <3>4. \A t \in Threads : ~Pending(t, x)
      BY <1>8, <3>1 DEF Writes
    <3> QED BY <3>3, <3>4
  <2>2. LevelDone(n, s)
    BY <1>1, <1>2, <2>1 DEF LevelDone
  <2>3. ASSUME cfg[fn] \in FileNames PROVE o.kind \in {"file", "apply"} /\ cfg[fn] = s[fn]
    <3>1. cfg[fn] = s[fn]
      BY <1>2, <2>1
    <3>2. fn \in Touches(o)
      BY <1>4, <1>7, <2>3, <3>1
    <3> QED BY <1>6, <3>1, <3>2
  <2> QED BY <1>1, <2>2, <2>3
<1> QED BY <1>9, <1>10, <1>11 DEF UnderWayOrDone

\* What changes when the player reads a setting.
LEMMA PlayerFacts ==
  ASSUME Typed, ReadNext("player")
  PROVE  \E k \in Keys :
           /\ Reading /\ Seen(k)' = cfg[k] /\ \A x \in Keys : x # k => Seen(x)' = Seen(x)
           /\ view' = [t \in Readers |-> view'[t]] /\ Holds(view'["player"]) /\ view'["ui"] = view["ui"]
           /\ toRead' = [t \in Readers |-> toRead'[t]] /\ \A t \in Readers : toRead'[t] \in Seq(Keys)
           /\ Head(toRead["player"]) = k /\ toRead'["player"] = Tail(toRead["player"])
           /\ \A x : Unread(x) <=> (k = x \/ Unread(x)')
           /\ \A x, l : Leads(toRead["player"], x, l) =>
                          /\ Leads(toRead'["player"], x, l)
                          /\ Unread(x) => Unread(l)'
           /\ cfg' = cfg /\ todo' = todo /\ open' = open /\ op' = op /\ ideal' = ideal
           /\ clash' = clash /\ base' = base /\ news' = news
<1> DEFINE w == toRead["player"]
<1>0. PICK k : k = Head(w)
  OBVIOUS
<1>1. /\ w # <<>> /\ view' = [view EXCEPT !["player"][k] = cfg[k]]
      /\ toRead' = [toRead EXCEPT !["player"] = Tail(w)]
      /\ cfg' = cfg /\ todo' = todo /\ open' = open /\ op' = op /\ ideal' = ideal
      /\ clash' = clash /\ base' = base /\ news' = news
  BY <1>0 DEF ReadNext, history
<1>2. /\ view = [t \in Readers |-> view[t]] /\ Holds(view["player"]) /\ Holds(cfg)
      /\ toRead = [t \in Readers |-> toRead[t]] /\ w \in Seq(Keys) /\ toRead["ui"] \in Seq(Keys)
      /\ Readers = {"ui", "player"}
  BY DEF Typed, Readers
<1>3. k \in Keys /\ Tail(w) \in Seq(Keys) /\ \A x : Reads(w, x) <=> (k = x \/ Reads(Tail(w), x))
  BY <1>0, <1>1, <1>2, TailReads
<1>4. \A x, l : Leads(w, x, l) => Leads(Tail(w), x, l) /\ (Reads(w, x) => Reads(Tail(w), l))
  BY <1>1, <1>2, TailReads
<1>5. /\ toRead' = [t \in Readers |-> toRead'[t]] /\ toRead'["player"] = Tail(w)
      /\ toRead'["ui"] = toRead["ui"]
  BY <1>1, <1>2
<1>6. \A x : (Unread(x) <=> Reads(w, x)) /\ (Unread(x)' <=> Reads(Tail(w), x))
  BY <1>5 DEF Unread
<1>7. /\ view' = [t \in Readers |-> view'[t]] /\ view'["ui"] = view["ui"]
      /\ view'["player"] = [view["player"] EXCEPT ![k] = cfg[k]]
  BY <1>1, <1>2
<1>8. /\ Holds(view'["player"]) /\ view'["player"][k] = cfg[k]
      /\ \A x \in Keys : x # k => view'["player"][x] = view["player"][x]
  <2>1. PICK p : p = view["player"]
    OBVIOUS
  <2>2. p = [x \in Keys |-> p[x]] /\ (\A x \in Keys : p[x] \in Kind(x)) /\ cfg[k] \in Kind(k)
    BY <1>2, <1>3, <2>1 DEF Holds, IsMap
  <2>3. view'["player"] = [x \in Keys |-> IF x = k THEN cfg[k] ELSE p[x]]
    BY <1>7, <2>1, <2>2
  <2> QED BY <1>3, <2>1, <2>2, <2>3 DEF Holds, IsMap
<1>9. Reading
  BY <1>1 DEF Reading
<1>10. Seen(k)' = cfg[k] /\ \A x \in Keys : x # k => Seen(x)' = Seen(x)
  BY <1>8 DEF Seen
<1>11. \A t \in Readers : toRead'[t] \in Seq(Keys)
  BY <1>2, <1>3, <1>5
<1>12. Head(toRead["player"]) = k
  BY <1>0
<1>13. \A x : Unread(x) <=> (k = x \/ Unread(x)')
  BY <1>3, <1>6
<1>14. \A x, l : Leads(toRead["player"], x, l) =>
                  /\ Leads(toRead'["player"], x, l)
                  /\ Unread(x) => Unread(l)'
  BY <1>4, <1>5, <1>6
<1> QED BY <1>1, <1>3, <1>5, <1>7, <1>8, <1>9, <1>10, <1>11, <1>12, <1>13, <1>14

\* What the player has read of a slot is of one piece after one more.
LEMMA PlayerSlot ==
  ASSUME Typed, OwnWrites, KeyInv, LevelFirst, ReadsOnward(toRead["player"]), NewsInv, SlotInv,
         ReadNext("player"), NEW n \in Slots
  PROVE  SlotOK(n)'
<1>1. PICK k \in Keys :
           /\ Reading /\ Seen(k)' = cfg[k] /\ \A x \in Keys : x # k => Seen(x)' = Seen(x)
           /\ toRead'["player"] = Tail(toRead["player"])
           /\ \A x : Unread(x) <=> (k = x \/ Unread(x)')
           /\ \A x, l : Leads(toRead["player"], x, l) =>
                          /\ Leads(toRead'["player"], x, l)
                          /\ Unread(x) => Unread(l)'
           /\ cfg' = cfg /\ todo' = todo /\ op' = op /\ ideal' = ideal
           /\ clash' = clash /\ base' = base /\ news' = news
  BY PlayerFacts
<1>2. PICK fn, en, lv : fn = <<"filename", n>> /\ en = <<"enable", n>> /\ lv = <<"level", n>>
  OBVIOUS
<1>3. /\ fn \in SlotKeys(n) /\ fn \in Keys /\ en \in Keys /\ lv \in Keys
      /\ fn # en /\ fn # lv /\ en # lv
  BY <1>2, SlotKeyFacts
<1>4. SlotOK(n)
  BY <1>1 DEF SlotInv
<1>5. (Unread(fn) => Unread(en)') /\ (Unread(en) => Unread(lv)')
  BY <1>1, <1>2 DEF ReadsOnward
<1>6. /\ NamedYet(n) <=> ~Unread(fn) /\ Seen(fn) \in FileNames
      /\ NamedYet(n)' <=> ~Unread(fn)' /\ Seen(fn)' \in FileNames
      /\ Uses(n) <=> Seen(fn) \in FileNames /\ Seen(en) # 0
      /\ Uses(n)' <=> Seen(fn)' \in FileNames /\ Seen(en)' # 0
  BY <1>2 DEF NamedYet, Uses, Seen
<1>7. /\ NewsOf(n)' = NewsOf(n) /\ Empty(n)' = Empty(n) /\ Unchanged(n)' = Unchanged(n)
      /\ \A o, s : /\ UnderWayOrDone(n, o, s)' <=> UnderWayOrDone(n, o, s)
                   /\ LevelDone(n, s)' <=> LevelDone(n, s)
  BY <1>1 DEF NewsOf, Empty, Unchanged, UnderWayOrDone, LevelDone, Same, Elsewhere, Busy, Pending
<1>8. SUFFICES ASSUME Empty(n), SlotKeys(n) \cap clash = {}
               PROVE  /\ NewsOf(n) = {} => Untouched(n)'
                      /\ \A i \in DOMAIN news : NewsOf(n) = {i} =>
                           \A o, s : o = news[i] /\ s = Outcome(o, base) =>
                             UnderWayOrDone(n, o, s)' /\ OnePiece(n, o, s)'
  BY <1>1, <1>7 DEF SlotOK
<1>9. ASSUME NewsOf(n) = {} PROVE Untouched(n)'
  <2>1. Unchanged(n) /\ ~NamedYet(n)
    BY <1>4, <1>8, <1>9 DEF SlotOK, Untouched
  <2>2. SUFFICES ASSUME NamedYet(n)' PROVE FALSE
    BY <1>7, <2>1 DEF Untouched
  <2>3. k = fn
    BY <1>1, <1>3, <1>6, <2>1, <2>2
  <2>4. \A t \in Threads : ~Writes(t, fn)
    <3>1. SUFFICES ASSUME NEW t \in Threads, Busy(t), fn \in Touches(op[t]) PROVE FALSE
      BY DEF Writes
    <3>2. PICK j \in DOMAIN news : news[j] = op[t]
      BY <1>1, <3>1 DEF NewsInv
    <3>3. j \in NewsOf(n)
      BY <1>3, <3>1, <3>2 DEF NewsOf
    <3> QED BY <1>9, <3>3
  <2>5. cfg[fn] = ideal[fn]
    BY <1>3, <1>8, <2>4, ThreadFacts DEF KeyInv
  <2>6. cfg[fn] = NONE
    BY <1>2, <1>3, <1>8, <2>1, <2>5 DEF Unchanged, Empty
  <2>7. cfg[fn] \in FileNames
    BY <1>1, <1>6, <2>2, <2>3
  <2> QED BY <2>6, <2>7, SettingsAssumption
<1>10. ASSUME NEW i \in DOMAIN news, NewsOf(n) = {i}, NEW o, NEW s, o = news[i], s = Outcome(o, base)
       PROVE  UnderWayOrDone(n, o, s)' /\ OnePiece(n, o, s)'
  <2>1. UnderWayOrDone(n, o, s) /\ OnePiece(n, o, s)
    BY <1>4, <1>8, <1>10 DEF SlotOK
  <2>2. /\ cfg[fn] \in FileNames => o.kind \in {"file", "apply"} /\ cfg[fn] = s[fn]
        /\ o.kind \in {"file", "apply"} /\ cfg[Switch(o, n)] # base[Switch(o, n)] => LevelDone(n, s)
    BY <1>1, <1>2, <1>4, <1>8, <1>10, SlotRead
  <2>3. NamedYet(n) =>
          /\ o.kind \in {"file", "apply"} /\ Seen(fn) = s[fn]
          /\ o.kind = "apply" \/ (~Unread(en) /\ Seen(en) # 0) => LevelDone(n, s)
          /\ ~Unread(lv) /\ Uses(n) => Seen(lv) = s[lv]
    BY <1>2, <2>1 DEF OnePiece
  <2>4. base[fn] = NONE /\ base[en] = 0 /\ NONE \notin FileNames
    BY <1>2, <1>8, SettingsAssumption DEF Empty
  <2>5. Switch(o, n) = IF o.kind = "apply" THEN fn ELSE en
    BY <1>2 DEF Switch
  <2>6. ASSUME NamedYet(n)'
        PROVE  /\ o.kind \in {"file", "apply"} /\ Seen(fn)' = s[fn]
               /\ o.kind = "apply" \/ (~Unread(en)' /\ Seen(en)' # 0) => LevelDone(n, s)
               /\ ~Unread(lv)' /\ Uses(n)' => Seen(lv)' = s[lv]
    <3>1. ~Unread(fn)' /\ Seen(fn)' \in FileNames
      BY <1>6, <2>6
    <3>2. CASE k = fn
      <4>1. o.kind \in {"file", "apply"} /\ Seen(fn)' = s[fn] /\ cfg[fn] # base[fn]
        BY <1>1, <2>2, <2>4, <3>1, <3>2
      <4>2. Unread(en)' /\ Unread(en)
        BY <1>1, <1>5, <3>2
      <4>3. o.kind = "apply" => LevelDone(n, s)
        BY <2>2, <2>5, <4>1
      <4>4. Unread(lv)'
        BY <1>5, <4>2
      <4> QED BY <4>1, <4>2, <4>3, <4>4
    <3>3. CASE k # fn
      <4>1. NamedYet(n) /\ Seen(fn)' = Seen(fn)
        BY <1>1, <1>3, <1>6, <3>1, <3>3
      <4>2. o.kind \in {"file", "apply"} /\ Seen(fn)' = s[fn]
        BY <2>3, <4>1
      <4>3. ASSUME o.kind = "apply" \/ (~Unread(en)' /\ Seen(en)' # 0) PROVE LevelDone(n, s)
        <5>1. CASE o.kind = "apply"
          BY <2>3, <4>1, <5>1
        <5>2. CASE o.kind # "apply" /\ k = en
          <6>1. Switch(o, n) = en /\ cfg[en] # base[en]
            BY <1>1, <2>4, <2>5, <4>3, <5>2
          <6> QED BY <2>2, <4>2, <6>1
        <5>3. CASE o.kind # "apply" /\ k # en
          <6>1. ~Unread(en) /\ Seen(en) # 0
            BY <1>1, <1>3, <4>3, <5>3
          <6> QED BY <2>3, <4>1, <6>1
        <5> QED BY <5>1, <5>2, <5>3
      <4>4. ASSUME ~Unread(lv)', Uses(n)' PROVE Seen(lv)' = s[lv]
        <5>1. ~Unread(en) /\ k # en /\ Seen(en)' = Seen(en) /\ Seen(en) # 0
          BY <1>1, <1>3, <1>5, <1>6, <4>4
        <5>2. CASE k = lv
          <6>1. LevelDone(n, s)
            BY <2>3, <4>1, <5>1
          <6>2. cfg[lv] = s[lv]
            BY <1>2, <6>1 DEF LevelDone
          <6> QED BY <1>1, <5>2, <6>2
        <5>3. CASE k # lv
          <6>1. ~Unread(lv) /\ Seen(lv)' = Seen(lv)
            BY <1>1, <1>3, <4>4, <5>3
          <6>2. Uses(n)
            BY <1>6, <4>1, <4>4, <5>1
          <6> QED BY <2>3, <4>1, <6>1, <6>2
        <5> QED BY <5>2, <5>3
      <4> QED BY <4>2, <4>3, <4>4
    <3> QED BY <3>2, <3>3
  <2>7. OnePiece(n, o, s)'
    BY <1>2, <1>7, <2>6 DEF OnePiece
  <2> QED BY <1>7, <2>1, <2>7
<1> QED BY <1>9, <1>10

\* A setting that the player reads keeps the invariant, and the last one
\* makes the filter whole.
LEMMA PlayerKeeps ==
  ASSUME IInv, ReadNext("player")
  PROVE  IInv'
<1>1. Typed /\ OwnWrites /\ KeyInv /\ LevelFirst /\ NewsInv /\ SlotInv /\ PublishedWhole
      /\ ReadsOnward(toRead["player"])
  BY DEF IInv
<1>2. PICK k \in Keys :
           /\ Reading
           /\ view' = [t \in Readers |-> view'[t]] /\ Holds(view'["player"]) /\ view'["ui"] = view["ui"]
           /\ toRead' = [t \in Readers |-> toRead'[t]] /\ \A t \in Readers : toRead'[t] \in Seq(Keys)
           /\ \A x, l : Leads(toRead["player"], x, l) => Leads(toRead'["player"], x, l)
           /\ cfg' = cfg /\ todo' = todo /\ open' = open /\ op' = op /\ ideal' = ideal
           /\ clash' = clash /\ base' = base /\ news' = news
  BY <1>1, PlayerFacts
<1>3. Typed'
  BY <1>1, <1>2 DEF Typed
<1>4. OwnWrites' /\ NewsInv'
  BY <1>1, <1>2 DEF OwnWrites, NewsInv, Busy
<1>5. KeyInv'
  <2>1. \A x : Writing(x)' = Writing(x)
    BY <1>2 DEF Writing
  <2>2. \A t, x : Writes(t, x)' = Writes(t, x) /\ Settles(t, x)' = Settles(t, x)
    BY <1>2 DEF Writes, Busy, Settles, Pending, Then
  <2> QED BY <1>1, <1>2, <2>1, <2>2 DEF KeyInv
<1>6. LevelFirst'
  BY <1>1, <1>2 DEF LevelFirst, Pending
<1>7. ReadsOnward(toRead'["player"])
  BY <1>1, <1>2 DEF ReadsOnward
<1>8. \A n \in Slots : SlotOK(n)'
  BY <1>1, PlayerSlot
<1>9. SlotInv'
  BY <1>8 DEF SlotInv
<1>10. PublishedWhole'
  <2>1. SUFFICES ASSUME toRead'["player"] = <<>>, NEW n \in Slots, NEW i \in DOMAIN news',
                        Empty(n)', SlotKeys(n) \cap clash' = {}, NewsOf(n)' = {i}, Uses(n)',
                        NEW o, NEW s, o = news'[i], s = Outcome(o, base')
                 PROVE  Used(n)' = <<s[<<"filename", n>>], s[<<"level", n>>]>>
    BY DEF PublishedWhole, Empty
  <2>2. OnePiece(n, o, s)'
    BY <1>8, <2>1 DEF SlotOK
  <2>3. \A x : ~Unread(x)'
    BY <2>1 DEF Unread, Reads
  <2>4. Seen(<<"filename", n>>)' \in FileNames
    BY <2>1 DEF Uses, Seen
  <2>5. Seen(<<"filename", n>>)' = s[<<"filename", n>>] /\ Seen(<<"level", n>>)' = s[<<"level", n>>]
    BY <2>1, <2>2, <2>3, <2>4 DEF OnePiece, NamedYet
  <2> QED BY <2>5 DEF Used, Seen
<1> QED BY <1>3, <1>4, <1>5, <1>6, <1>7, <1>9, <1>10 DEF IInv

-----------------------------------------------------------------------------
(* The user turns to a page.                                               *)

\* Nothing but what the pages show, and have still to read, has changed.
LEMMA PageKeeps ==
  ASSUME IInv, cfg' = cfg, todo' = todo, op' = op, ideal' = ideal, clash' = clash, base' = base,
         news' = news, open' \subseteq {"eq", "file"},
         view' = [r \in Readers |-> view'[r]], view'["player"] = view["player"], Shows(view'["ui"]),
         toRead' = [r \in Readers |-> toRead'[r]], \A r \in Readers : toRead'[r] \in Seq(Keys),
         toRead'["player"] = toRead["player"]
  PROVE  IInv'
<1>1. Typed /\ OwnWrites /\ KeyInv /\ LevelFirst /\ NewsInv /\ SlotInv /\ PublishedWhole
      /\ ReadsOnward(toRead["player"])
  BY DEF IInv
<1>2. Typed'
  BY <1>1 DEF Typed
<1>3. OwnWrites' /\ NewsInv'
  BY <1>1 DEF OwnWrites, NewsInv, Busy, Reading
<1>4. KeyInv'
  <2>1. \A k : Writing(k)' = Writing(k)
    BY DEF Writing
  <2>2. \A t, k : Writes(t, k)' = Writes(t, k) /\ Settles(t, k)' = Settles(t, k)
    BY DEF Writes, Busy, Settles, Pending, Then
  <2> QED BY <1>1, <2>1, <2>2 DEF KeyInv
<1>5. LevelFirst'
  BY <1>1 DEF LevelFirst, Pending
<1>6. SlotInv'
  <2>1. SUFFICES ASSUME Reading, NEW n \in Slots PROVE SlotOK(n)'
    BY DEF SlotInv, Reading
  <2>2. SlotOK(n)
    BY <1>1, <2>1 DEF SlotInv
  <2>3. NewsOf(n)' = NewsOf(n) /\ NewsOf(n) \subseteq DOMAIN news
    BY DEF NewsOf
  <2>4. \A t \in Threads : /\ Busy(t)' <=> Busy(t)
                           /\ Pending(t, <<"level", n>>)' <=> Pending(t, <<"level", n>>)
    BY DEF Busy, Pending
  <2> QED BY <2>2, <2>3, <2>4, SlotAsBefore
<1>7. PublishedWhole'
  BY <1>1, PublishedStays
<1> QED BY <1>1, <1>2, <1>3, <1>4, <1>5, <1>6, <1>7 DEF IInv

\* What a page shows of a setting.
LEMMA ShownIsShown ==
  ASSUME Typed, NEW k \in Keys, NEW v \in Shown(k)
  PROVE  v \in PageKind(k)
<1>1. cfg[k] \in Kind(k)
  BY DEF Typed, Holds
<1>2. CASE k = Mag
  <2>1. cfg[k] = GARBLED => v \in [Bands -> Range0]
    BY <1>2 DEF Shown
  <2>2. ASSUME cfg[k] # GARBLED PROVE v \in [Bands -> Range0]
    <3>1. cfg[k] \in [Bands -> Int]
      BY <1>1, <1>2, <2>2, KindFacts
    <3>2. v = [b \in Bands |-> Clamp(cfg[k][b])]
      BY <1>2, <2>2 DEF Shown
    <3>3. \A b \in Bands : Clamp(cfg[k][b]) \in Range0
      BY <3>1, ClampRange
    <3> QED BY <3>2, <3>3
  <2> QED BY <1>2, <2>1, <2>2, KindFacts
<1>3. CASE k # Mag /\ k[1] = "level"
  <2>1. v = Clamp(cfg[k]) /\ cfg[k] \in Int
    BY <1>1, <1>3 DEF Shown, Kind
  <2>2. v \in Range0
    BY <2>1, ClampRange
  <2> QED BY <1>3, <2>2 DEF PageKind
<1>4. CASE k # Mag /\ k[1] # "level"
  <2>1. PageKind(k) = Kind(k)
    BY <1>4 DEF PageKind
  <2>2. v = cfg[k] \/ (k[1] = "metadata" /\ v = NONE)
    BY <1>4 DEF Shown
  <2>3. k[1] = "metadata" => NONE \in Kind(k)
    BY <1>4 DEF Kind
  <2> QED BY <1>1, <2>1, <2>2, <2>3
<1> QED BY <1>2, <1>3, <1>4

\* LoadSettings(): a setting that a page reads keeps the invariant.
LEMMA PageReadKeeps ==
  ASSUME IInv, ReadNext("ui")
  PROVE  IInv'
<1>0. Typed
  BY DEF IInv
<1>1. /\ Readers = {"ui", "player"} /\ view = [r \in Readers |-> view[r]] /\ Shows(view["ui"])
      /\ toRead = [r \in Readers |-> toRead[r]] /\ toRead["ui"] \in Seq(Keys)
      /\ toRead["player"] \in Seq(Keys) /\ open \subseteq {"eq", "file"}
  BY <1>0 DEF Typed, Readers
<1>2. PICK k : k = Head(toRead["ui"])
  OBVIOUS
<1>3. PICK v \in Shown(k) : view' = [view EXCEPT !["ui"][k] = v]
  BY <1>2 DEF ReadNext
<1>4. /\ toRead["ui"] # <<>> /\ toRead' = [toRead EXCEPT !["ui"] = Tail(@)]
      /\ cfg' = cfg /\ todo' = todo /\ op' = op /\ ideal' = ideal /\ clash' = clash /\ base' = base
      /\ news' = news /\ open' = open
  BY DEF ReadNext, history
<1>5. k \in Keys /\ Tail(toRead["ui"]) \in Seq(Keys)
  BY <1>1, <1>2, <1>4, TailReads
<1>6. v \in PageKind(k)
  BY <1>0, <1>3, <1>5, ShownIsShown
<1>7. /\ view' = [r \in Readers |-> view'[r]] /\ view'["player"] = view["player"]
      /\ view'["ui"] = [view["ui"] EXCEPT ![k] = v]
  BY <1>1, <1>3
<1>8. Shows(view'["ui"])
  BY <1>1, <1>5, <1>6, <1>7, ShowsExcept
<1>9. /\ toRead' = [r \in Readers |-> toRead'[r]] /\ toRead'["player"] = toRead["player"]
      /\ \A r \in Readers : toRead'[r] \in Seq(Keys)
  BY <1>1, <1>4, <1>5
<1> QED BY <1>1, <1>4, <1>7, <1>8, <1>9, PageKeeps

\* What a page reads are settings.
LEMMA PageKeysAreKeys ==
  ASSUME NEW page \in {"eq", "file"}
  PROVE  PageOrder(page) \in Seq(Keys)
<1>1. PageOrder(page) \in Seq(PageKeys(page)) /\ PageKeys(page) \subseteq Keys
  BY PageOrders, KeyFacts DEF PageKeys
<1> QED BY ONLY <1>1

\* OnInitDialog() keeps the invariant.
LEMMA OpenKeeps ==
  ASSUME IInv, NEW page \in {"eq", "file"}, Open(page)
  PROVE  IInv'
<1>1. /\ Readers = {"ui", "player"} /\ view = [r \in Readers |-> view[r]] /\ Shows(view["ui"])
      /\ toRead = [r \in Readers |-> toRead[r]] /\ toRead["player"] \in Seq(Keys)
      /\ open \subseteq {"eq", "file"}
  BY DEF IInv, Typed, Readers
<1>2. /\ open' = open \cup {page} /\ toRead' = [toRead EXCEPT !["ui"] = PageOrder(page)]
      /\ cfg' = cfg /\ todo' = todo /\ op' = op /\ ideal' = ideal /\ clash' = clash /\ base' = base
      /\ news' = news /\ view' = view
  BY DEF Open, history
<1>3. PageOrder(page) \in Seq(Keys)
  BY PageKeysAreKeys
<1>4. /\ toRead' = [r \in Readers |-> toRead'[r]] /\ toRead'["player"] = toRead["player"]
      /\ \A r \in Readers : toRead'[r] \in Seq(Keys)
  BY <1>1, <1>2, <1>3
<1>5. open' \subseteq {"eq", "file"}
  BY <1>1, <1>2
<1> QED BY <1>1, <1>2, <1>4, <1>5, PageKeeps

\* A page is made to show other settings, and to read some again.
LEMMA ShowKeeps ==
  ASSUME IInv, NEW s, Shows(s), Show(s), NEW w \in Seq(Keys), toRead' = [toRead EXCEPT !["ui"] = w]
  PROVE  IInv'
<1>1. /\ Readers = {"ui", "player"} /\ view = [r \in Readers |-> view[r]]
      /\ toRead = [r \in Readers |-> toRead[r]] /\ toRead["player"] \in Seq(Keys)
      /\ open \subseteq {"eq", "file"}
  BY DEF IInv, Typed, Readers
<1>2. /\ view' = [view EXCEPT !["ui"] = s] /\ open' = open
      /\ cfg' = cfg /\ todo' = todo /\ op' = op /\ ideal' = ideal /\ clash' = clash /\ base' = base
      /\ news' = news
  BY DEF Show, history
<1>3. /\ toRead' = [r \in Readers |-> toRead'[r]] /\ toRead'["player"] = toRead["player"]
      /\ \A r \in Readers : toRead'[r] \in Seq(Keys)
  BY <1>1
<1>4. view' = [r \in Readers |-> view'[r]] /\ view'["player"] = view["player"] /\ view'["ui"] = s
  BY <1>1, <1>2
<1> QED BY <1>1, <1>2, <1>3, <1>4, PageKeeps

\* What a page has still to read stays.
LEMMA NothingToRead ==
  ASSUME IInv, toRead' = toRead
  PROVE  toRead["ui"] \in Seq(Keys) /\ toRead' = [toRead EXCEPT !["ui"] = toRead["ui"]]
<1>1. toRead = [r \in Readers |-> toRead[r]] /\ toRead["ui"] \in Seq(Keys)
  BY DEF IInv, Typed, Readers
<1> QED BY <1>1

\* A slider or a check box that is moved keeps the invariant.
LEMMA EditKeeps ==
  ASSUME IInv, Edit
  PROVE  IInv'
<1>1. PICK k \in Keys :
        \/ k[1] \in {"enable", "resample"} /\ Show([view["ui"] EXCEPT ![k] = 1 - @])
        \/ k[1] = "level" /\ \E v \in Requests : Show([view["ui"] EXCEPT ![k] = Clamp(v)])
        \/ k = Mag /\ \E b \in Bands, v \in Requests : Show([view["ui"] EXCEPT ![k][b] = Clamp(v)])
  BY DEF Edit
<1>2. PICK s : s = view["ui"]
  OBVIOUS
<1>3. Shows(s) /\ (\A x \in Keys : s[x] \in PageKind(x)) /\ Requests \subseteq Int
  BY <1>2, SettingsAssumption DEF IInv, Typed, Shows
<1>4. toRead' = toRead
  BY DEF Edit
<1>5. \A u : Shows(u) /\ Show(u) => IInv'
  BY <1>4, NothingToRead, ShowKeeps
<1>6. \A v \in PageKind(k) : Shows([s EXCEPT ![k] = v])
  BY <1>3, ShowsExcept
<1>7. CASE k[1] \in {"enable", "resample"} /\ Show([view["ui"] EXCEPT ![k] = 1 - @])
  <2>1. PageKind(k) = Int
    BY <1>7 DEF PageKind, Kind, Mag
  <2>2. 1 - s[k] \in PageKind(k)
    BY <1>3, <2>1
  <2>3. Show([s EXCEPT ![k] = 1 - s[k]])
    BY <1>2, <1>7
  <2> QED BY <1>5, <1>6, <2>2, <2>3
<1>8. CASE k[1] = "level" /\ \E v \in Requests : Show([view["ui"] EXCEPT ![k] = Clamp(v)])
  <2>1. PICK v \in Requests : Show([s EXCEPT ![k] = Clamp(v)])
    BY <1>2, <1>8
  <2>2. PageKind(k) = Range0
    BY <1>8 DEF PageKind, Mag
  <2>3. Clamp(v) \in PageKind(k)
    BY <1>3, <2>2, ClampRange
  <2> QED BY <1>5, <1>6, <2>1, <2>3
<1>9. CASE k = Mag /\ \E b \in Bands, v \in Requests : Show([view["ui"] EXCEPT ![k][b] = Clamp(v)])
  <2>1. PICK b \in Bands, v \in Requests : Show([s EXCEPT ![k] = [s[k] EXCEPT ![b] = Clamp(v)]])
    BY <1>2, <1>9
  <2>2. s[k] \in [Bands -> Range0] /\ Clamp(v) \in Range0
    BY <1>3, <1>9, KindFacts, ClampRange
  <2>3. [s[k] EXCEPT ![b] = Clamp(v)] \in PageKind(k)
    BY <1>9, <2>2, KindFacts
  <2> QED BY <1>5, <1>6, <2>1, <2>3
<1> QED BY <1>1, <1>7, <1>8, <1>9

\* A file that is browsed for keeps the invariant.
LEMMA BrowseKeeps ==
  ASSUME IInv, Browse
  PROVE  IInv'
<1>1. PICK n \in Slots, f \in FileNames :
        Show([view["ui"] EXCEPT ![<<"filename", n>>] = f, ![<<"metadata", n>>] = f,
                              ![<<"enable", n>>] = 1, ![<<"level", 1>>] = Clamp(Attenuation[f])])
  BY DEF Browse
<1>2. PICK s, fn, md, en, lv : s = view["ui"] /\ fn = <<"filename", n>> /\ md = <<"metadata", n>>
                               /\ en = <<"enable", n>> /\ lv = <<"level", 1>>
  OBVIOUS
<1>3. /\ f \in PageKind(fn) /\ f \in PageKind(md) /\ 1 \in PageKind(en)
      /\ Clamp(Attenuation[f]) \in PageKind(lv)
  <2>1. Attenuation[f] \in Int
    BY SettingsAssumption
  <2> QED BY <1>2, <2>1, KindFacts, ClampRange
<1>4. fn \in Keys /\ md \in Keys /\ en \in Keys /\ lv \in Keys
  <2>1. 1 \in 0 .. NSlots
    BY SettingsAssumption DEF Slots
  <2>2. SlotKeys(n) \subseteq Keys /\ lv \in Keys
    BY <1>2, <2>1, KeyFacts
  <2> QED BY <1>2, <2>2 DEF SlotKeys
<1>5. Shows(s)
  BY <1>2 DEF IInv, Typed
<1>6. Shows([s EXCEPT ![fn] = f])
  BY <1>3, <1>4, <1>5, ShowsExcept
<1>7. Shows([[s EXCEPT ![fn] = f] EXCEPT ![md] = f])
  BY <1>3, <1>4, <1>6, ShowsExcept
<1>8. Shows([[[s EXCEPT ![fn] = f] EXCEPT ![md] = f] EXCEPT ![en] = 1])
  BY <1>3, <1>4, <1>7, ShowsExcept
<1>9. Shows([[[[s EXCEPT ![fn] = f] EXCEPT ![md] = f] EXCEPT ![en] = 1]
               EXCEPT ![lv] = Clamp(Attenuation[f])])
  BY <1>3, <1>4, <1>8, ShowsExcept
<1>10. Show([s EXCEPT ![fn] = f, ![md] = f, ![en] = 1, ![lv] = Clamp(Attenuation[f])])
  BY <1>1, <1>2
<1>11. toRead' = toRead
  BY DEF Browse
<1>12. Shows([s EXCEPT ![fn] = f, ![md] = f, ![en] = 1, ![lv] = Clamp(Attenuation[f])])
  BY <1>9
<1> QED BY <1>10, <1>11, <1>12, NothingToRead, ShowKeeps

\* reset() keeps the invariant.
LEMMA ResetKeeps ==
  ASSUME IInv, NEW page \in {"eq", "file"}, ResetPage(page)
  PROVE  IInv'
<1>1. PICK s, d : s = view["ui"] /\ d = [k \in Keys |-> Default(k)]
  OBVIOUS
<1>2. Shows(s) /\ Shows(d)
  BY <1>1, DefaultShows DEF IInv, Typed
<1>3. PICK u : u = [k \in Keys |-> IF k \in PageKeys(page) \ {Mag} THEN Default(k) ELSE s[k]]
  OBVIOUS
<1>4. Shows(u)
  <2>1. \A k \in Keys : d[k] = Default(k) /\ d[k] \in PageKind(k) /\ s[k] \in PageKind(k)
    BY <1>1, <1>2 DEF Shows
  <2>2. \A k \in Keys : u[k] \in PageKind(k)
    BY <1>3, <2>1
  <2>3. IsMap(u)
    BY <1>3 DEF IsMap
  <2> QED BY <2>2, <2>3 DEF Shows
<1>5. Show(u)
  BY <1>1, <1>3 DEF ResetPage
<1>6. PICK w : w = IF page = "eq" THEN <<Mag>> ELSE <<>>
  OBVIOUS
<1>7. toRead' = [toRead EXCEPT !["ui"] = w]
  BY <1>6 DEF ResetPage
<1>8. w \in Seq(Keys)
  <2>1. Mag \in Keys
    BY KeyFacts
  <2>2. <<Mag>> \in Seq(Keys) /\ <<>> \in Seq(Keys)
    BY ONLY <2>1
  <2> QED BY <1>6, <2>2
<1> QED BY <1>2, <1>4, <1>5, <1>7, <1>8, ShowKeeps

-----------------------------------------------------------------------------
(* A filter is set up.                                                     *)

PlayerField == <<"filename", "enable", "resample", "level">>
SlotOrder == [n \in Slots |-> [i \in 1 .. 4 |-> <<PlayerField[i], n>>]]

\* The order in which the player reads the settings of the slots.
LEMMA SlotOrderFacts ==
  /\ Len(SlotOrder) = NSlots /\ (SlotOrder = <<>> \/ NSlots # 0) /\ NSlots \in Nat /\ Slots = 1 .. NSlots
  /\ \A n \in 1 .. NSlots : SlotOrder[n] \in Seq(Keys) /\ Len(SlotOrder[n]) = 4
  /\ \A n \in 1 .. NSlots, i \in 1 .. 4 : SlotOrder[n][i] = <<PlayerField[i], n>>
<1>1. Slots = 1 .. NSlots /\ NSlots \in Nat
  BY SettingsAssumption DEF Slots
<1>2. ASSUME NEW i \in 1 .. 4, NEW n \in Slots PROVE <<PlayerField[i], n>> \in Keys
  <2>1. PlayerField[i] \in {"enable", "resample", "level", "filename", "metadata"}
    BY DEF PlayerField
  <2> HIDE DEF PlayerField
  <2>2. <<PlayerField[i], n>> \in FileKeys
    BY <2>1 DEF FileKeys
  <2> QED BY <2>2, KeyFacts
<1>3. \A n \in Slots : SlotOrder[n] = [i \in 1 .. 4 |-> <<PlayerField[i], n>>]
  BY DEF SlotOrder
<1>4. SlotOrder = [n \in Slots |-> SlotOrder[n]]
  BY DEF SlotOrder
<1> HIDE DEF SlotOrder, PlayerField
<1>5. ASSUME NEW n \in Slots PROVE SlotOrder[n] \in [1 .. 4 -> Keys]
  BY <1>2, <1>3
<1>6. \A n \in Slots : SlotOrder[n] \in Seq(Keys) /\ Len(SlotOrder[n]) = 4
  BY <1>5, FunctionIsSeq
<1>7. SlotOrder \in [1 .. NSlots -> Seq(Keys)]
  BY <1>1, <1>4, <1>6
<1>8. Len(SlotOrder) = NSlots /\ SlotOrder \in Seq(Seq(Keys))
  BY ONLY <1>1, <1>7, FunctionIsSeq
<1>9. SlotOrder = <<>> \/ NSlots # 0
  <2>1. SlotOrder # <<>> => Len(SlotOrder) \in Nat \ {0}
    BY ONLY <1>8, HeadAndTail
  <2> QED BY <1>8, <2>1
<1> QED BY <1>1, <1>3, <1>6, <1>8, <1>9

\* on_chunk() reads all settings of every slot, in this order
\* (foo_dsp_bfir.cpp:177-198).
LEMMA SetUpReads ==
  /\ SetUpOrder \in Seq(Keys) /\ SetUpOrder # <<>>
  /\ \A n \in Slots, a \in 1 .. 4 : Reads(SetUpOrder, <<PlayerField[a], n>>)
  /\ \A n \in Slots, a, b \in 1 .. 4 :
       a < b => Leads(SetUpOrder, <<PlayerField[a], n>>, <<PlayerField[b], n>>)
<1>1. PICK e, w : e = <<<<"enable", 0>>, Mag, <<"level", 0>>>> /\ w = FlattenSeq(SlotOrder)
  OBVIOUS
<1>2. SetUpOrder = e \o w
  BY <1>1 DEF SetUpOrder, SlotOrder, PlayerField
<1>3. e \in Seq(Keys) /\ Len(e) = 3 /\ \A i \in 1 .. 3 : e[i] \in {<<"enable", 0>>, Mag, <<"level", 0>>}
  <2>1. <<"enable", 0>> \in Keys /\ Mag \in Keys /\ <<"level", 0>> \in Keys
    <3>1. 0 \in 0 .. NSlots
      BY SettingsAssumption
    <3> QED BY <3>1, KeyFacts
  <2>2. PICK a, b, c : a = <<"enable", 0>> /\ b = Mag /\ c = <<"level", 0>>
    OBVIOUS
  <2>3. e = <<a, b, c>> /\ a \in Keys /\ b \in Keys /\ c \in Keys
    BY <1>1, <2>1, <2>2
  <2>4. e \in Seq(Keys) /\ Len(e) = 3 /\ \A i \in 1 .. 3 : e[i] \in {a, b, c}
    BY ONLY <2>3
  <2> QED BY <2>2, <2>4
<1>4. w \in Seq(Keys) /\ \E g, h : Places(w, SlotOrder, NSlots, g, h)
  <2>1. /\ NSlots \in Nat /\ Len(SlotOrder) = NSlots /\ (SlotOrder = <<>> \/ NSlots # 0)
        /\ \A n \in 1 .. NSlots : SlotOrder[n] \in Seq(Keys)
    BY SlotOrderFacts
  <2> QED BY ONLY <1>1, <2>1, FlattenPlaces
<1>5. PICK g, h : Places(w, SlotOrder, NSlots, g, h)
  BY <1>4
<1>6. PICK o : o = e \o w
  OBVIOUS
<1>7. /\ o \in Seq(Keys) /\ Len(o) = 3 + Len(w) /\ Len(w) \in Nat
      /\ \A j \in 1 .. 3 : o[j] = e[j]
      /\ \A j \in 1 .. Len(w) : o[3 + j] = w[j]
  <2>1. e \in Seq(Keys) /\ w \in Seq(Keys)
    BY <1>3, <1>4
  <2>2. /\ e \o w \in Seq(Keys) /\ Len(e \o w) = Len(e) + Len(w) /\ Len(w) \in Nat
        /\ \A j \in 1 .. Len(e) : (e \o w)[j] = e[j]
        /\ \A j \in 1 .. Len(w) : (e \o w)[Len(e) + j] = w[j]
    BY ONLY <2>1, JoinAt
  <2>3. Len(e) = 3
    BY <1>3
  <2> QED BY ONLY <1>6, <2>2, <2>3
<1>8. DOMAIN o = 1 .. 3 + Len(w)
  BY ONLY <1>7
<1>9. /\ \A j \in 1 .. Len(w) : 3 + j \in 1 .. 3 + Len(w)
      /\ \A i \in 1 .. 3 + Len(w) : i \notin 1 .. 3 => i - 3 \in 1 .. Len(w) /\ 3 + (i - 3) = i
  BY <1>7
<1>10. ASSUME NEW j \in 1 .. Len(w)
       PROVE  g[j] \in Slots /\ h[j] \in 1 .. 4 /\ w[j] = <<PlayerField[h[j]], g[j]>>
  <2>1. g[j] \in 1 .. NSlots /\ h[j] \in 1 .. Len(SlotOrder[g[j]]) /\ w[j] = SlotOrder[g[j]][h[j]]
    BY <1>5 DEF Places
  <2> QED BY <2>1, SlotOrderFacts
<1>11. ASSUME NEW n \in Slots, NEW a \in 1 .. 4
       PROVE  \E j \in 1 .. Len(w) : g[j] = n /\ h[j] = a /\ w[j] = <<PlayerField[a], n>>
  <2>1. n \in 1 .. NSlots /\ a \in 1 .. Len(SlotOrder[n])
    BY SlotOrderFacts
  <2>2. PICK j \in 1 .. Len(w) : g[j] = n /\ h[j] = a
    BY <1>5, <2>1 DEF Places
  <2> QED BY <1>10, <2>2
<1>12. \A a, b \in 1 .. 4 : PlayerField[a] = PlayerField[b] => a = b
  BY DEF PlayerField
<1>13. ASSUME NEW n \in Slots, NEW a \in 1 .. 4 PROVE Reads(o, <<PlayerField[a], n>>)
  <2>1. PICK j \in 1 .. Len(w) : w[j] = <<PlayerField[a], n>>
    BY <1>11
  <2>2. 3 + j \in DOMAIN o /\ o[3 + j] = <<PlayerField[a], n>>
    BY <1>7, <1>8, <1>9, <2>1
  <2> QED BY <2>2 DEF Reads
<1>14. ASSUME NEW n \in Slots, NEW a \in 1 .. 4, NEW b \in 1 .. 4, a < b
       PROVE  Leads(o, <<PlayerField[a], n>>, <<PlayerField[b], n>>)
  <2>1. SUFFICES ASSUME NEW i \in DOMAIN o, o[i] = <<PlayerField[a], n>>
                 PROVE  \E j \in DOMAIN o : j > i /\ o[j] = <<PlayerField[b], n>>
    BY DEF Leads
  <2>2. i \notin 1 .. 3
    <3>1. SUFFICES ASSUME i \in 1 .. 3 PROVE FALSE
      OBVIOUS
    <3>2. o[i] \in {<<"enable", 0>>, Mag, <<"level", 0>>}
      BY <1>3, <1>7, <3>1
    <3>3. n # 0
      BY SlotOrderFacts
    <3> QED BY <2>1, <3>2, <3>3 DEF Mag
  <2>3. i - 3 \in 1 .. Len(w) /\ 3 + (i - 3) = i
    BY <1>8, <1>9, <2>1, <2>2
  <2>4. PICK p \in 1 .. Len(w) : 3 + p = i
    BY <2>3
  <2>5. w[p] = <<PlayerField[a], n>>
    BY <1>7, <2>1, <2>4
  <2>6. g[p] = n /\ h[p] = a
    BY <1>10, <1>12, <2>5
  <2>7. PICK q \in 1 .. Len(w) : g[q] = n /\ h[q] = b /\ w[q] = <<PlayerField[b], n>>
    BY <1>11
  <2>8. p < q
    <3>1. g[p] = g[q] /\ h[p] < h[q]
      BY <1>14, <2>6, <2>7
    <3>2. NSlots \in Nat
      BY SettingsAssumption
    <3> QED BY ONLY <1>5, <3>1, <3>2, p \in 1 .. Len(w), q \in 1 .. Len(w), PlacesInOrder
  <2>9. 3 + q \in DOMAIN o /\ 3 + q > i /\ o[3 + q] = <<PlayerField[b], n>>
    BY <1>7, <1>8, <1>9, <2>4, <2>7, <2>8
  <2> QED BY <2>9
<1>15. o # <<>>
  BY <1>7
<1> QED BY <1>2, <1>6, <1>7, <1>13, <1>14, <1>15

\* on_chunk() reads the name of a slot, then its enable, then its level.
LEMMA SetUpOnward ==
  /\ SetUpOrder \in Seq(Keys) /\ SetUpOrder # <<>> /\ ReadsOnward(SetUpOrder)
  /\ \A n \in Slots : Reads(SetUpOrder, <<"filename", n>>)
<1>1. /\ PlayerField[1] = "filename" /\ PlayerField[2] = "enable" /\ PlayerField[4] = "level"
      /\ 1 \in 1 .. 4 /\ 2 \in 1 .. 4 /\ 4 \in 1 .. 4 /\ 1 < 2 /\ 2 < 4
  BY DEF PlayerField
<1>2. \A n \in Slots : /\ Leads(SetUpOrder, <<PlayerField[1], n>>, <<PlayerField[2], n>>)
                       /\ Leads(SetUpOrder, <<PlayerField[2], n>>, <<PlayerField[4], n>>)
                       /\ Reads(SetUpOrder, <<PlayerField[1], n>>)
  BY <1>1, SetUpReads
<1> QED BY <1>1, <1>2, SetUpReads DEF ReadsOnward

\* What is under way when a set-up begins.
LEMMA UnderWayFacts ==
  ASSUME Typed, NEW w, w = UnderWay("cli") \o UnderWay("ui")
  PROVE  /\ w \in Seq(Ops)
         /\ \A t \in Threads : Busy(t) => \E i \in DOMAIN w : w[i] = op[t]
         /\ \A i \in DOMAIN w : \E t \in Threads : Busy(t) /\ op[t] = w[i]
<1>1. PICK a, b, c, d : a = op["cli"] /\ b = op["ui"] /\ c = UnderWay("cli") /\ d = UnderWay("ui")
  OBVIOUS
<1>2. a \in Ops /\ b \in Ops
  BY <1>1, OpsOfOps DEF Typed, Threads
<1>3. /\ c = IF Busy("cli") THEN <<a>> ELSE <<>>
      /\ d = IF Busy("ui") THEN <<b>> ELSE <<>>
      /\ w = c \o d
  BY <1>1 DEF UnderWay, Busy
<1>4. \A t \in Threads : t = "cli" \/ t = "ui"
  BY DEF Threads
<1>5. "cli" \in Threads /\ "ui" \in Threads
  BY DEF Threads
<1>6. CASE Busy("cli") /\ Busy("ui")
  <2>1. w = <<a>> \o <<b>>
    BY <1>3, <1>6
  <2>2. w \in Seq(Ops) /\ DOMAIN w = {1, 2} /\ w[1] = a /\ w[2] = b
    BY ONLY <1>2, <2>1
  <2> QED BY <1>1, <1>4, <1>5, <1>6, <2>2
<1>7. CASE Busy("cli") /\ ~Busy("ui")
  <2>1. w = <<a>> \o <<>>
    BY <1>3, <1>7
  <2>2. w \in Seq(Ops) /\ DOMAIN w = {1} /\ w[1] = a
    BY ONLY <1>2, <2>1
  <2> QED BY <1>1, <1>4, <1>5, <1>7, <2>2
<1>8. CASE ~Busy("cli") /\ Busy("ui")
  <2>1. w = <<>> \o <<b>>
    BY <1>3, <1>8
  <2>2. w \in Seq(Ops) /\ DOMAIN w = {1} /\ w[1] = b
    BY ONLY <1>2, <2>1
  <2> QED BY <1>1, <1>4, <1>5, <1>8, <2>2
<1>9. CASE ~Busy("cli") /\ ~Busy("ui")
  <2>1. w = <<>> \o <<>>
    BY <1>3, <1>9
  <2>2. w \in Seq(Ops) /\ DOMAIN w = {}
    BY ONLY <2>1
  <2> QED BY <1>4, <1>9, <2>2
<1> QED BY <1>6, <1>7, <1>8, <1>9

\* A set-up that begins keeps the invariant: it starts from what is meant,
\* and from what is under way.
LEMMA SetUpKeeps ==
  ASSUME IInv, SetUp
  PROVE  IInv'
<1>1. Typed /\ OwnWrites /\ KeyInv /\ LevelFirst /\ NewsInv /\ SlotInv /\ PublishedWhole
  BY DEF IInv
<1>2. /\ toRead' = [toRead EXCEPT !["player"] = SetUpOrder] /\ base' = ideal
      /\ news' = UnderWay("cli") \o UnderWay("ui")
      /\ cfg' = cfg /\ todo' = todo /\ view' = view /\ open' = open /\ op' = op /\ ideal' = ideal
      /\ clash' = clash
  BY DEF SetUp
<1>3. Readers = {"ui", "player"} /\ toRead = [r \in Readers |-> toRead[r]]
      /\ \A r \in Readers : toRead[r] \in Seq(Keys)
  BY <1>1 DEF Typed, Readers
<1>4. /\ toRead' = [r \in Readers |-> toRead'[r]] /\ toRead'["player"] = SetUpOrder
      /\ \A r \in Readers : toRead'[r] \in Seq(Keys)
  BY <1>2, <1>3, SetUpOnward
<1>5. /\ news' \in Seq(Ops)
      /\ \A t \in Threads : Busy(t) => \E i \in DOMAIN news' : news'[i] = op[t]
      /\ \A i \in DOMAIN news' : \E t \in Threads : Busy(t) /\ op[t] = news'[i]
  BY <1>1, <1>2, UnderWayFacts
<1>6. Typed'
  BY <1>1, <1>2, <1>4, <1>5 DEF Typed
<1>7. \A t : Busy(t)' <=> Busy(t)
  BY <1>2 DEF Busy
<1>8. OwnWrites' /\ LevelFirst'
  BY <1>1, <1>2 DEF OwnWrites, LevelFirst, Pending
<1>9. NewsInv'
  BY <1>2, <1>5, <1>7 DEF NewsInv
<1>10. KeyInv'
  <2>1. \A k : Writing(k)' = Writing(k)
    BY <1>2 DEF Writing
  <2>2. \A t, k : Writes(t, k)' = Writes(t, k) /\ Settles(t, k)' = Settles(t, k)
    BY <1>2 DEF Writes, Busy, Settles, Pending, Then
  <2> QED BY <1>1, <1>2, <2>1, <2>2 DEF KeyInv
<1>11. ReadsOnward(toRead'["player"]) /\ \A n \in Slots : Unread(<<"filename", n>>)'
  BY <1>4, SetUpOnward DEF Unread
<1>12. ASSUME NEW n \in Slots PROVE SlotOK(n)'
  <2>1. ~NamedYet(n)'
    BY <1>11 DEF NamedYet
  <2>2. Unchanged(n)'
    BY <1>2 DEF Unchanged
  <2>3. ASSUME NEW i \in DOMAIN news', NEW o, o = news'[i], NEW s
        PROVE  UnderWayOrDone(n, o, s)' /\ OnePiece(n, o, s)'
    <3>1. PICK t \in Threads : Busy(t) /\ op[t] = o
      BY <1>5, <2>3
    <3>2. Busy(t)' /\ op'[t] = o
      BY <1>2, <1>7, <3>1
    <3>3. UnderWayOrDone(n, o, s)'
      BY <2>2, <3>2 DEF UnderWayOrDone
    <3> QED BY <2>1, <3>3 DEF OnePiece
  <2> QED BY <2>1, <2>2, <2>3 DEF SlotOK, Untouched
<1>13. SlotInv' /\ PublishedWhole'
  BY <1>4, <1>12, SetUpOnward DEF SlotInv, PublishedWhole
<1> QED BY <1>6, <1>8, <1>9, <1>10, <1>11, <1>13 DEF IInv

-----------------------------------------------------------------------------
(* The invariant, and what follows from it.                                *)

\* The invariant holds of the defaults.
LEMMA InitIInv == Init => IInv
<1> SUFFICES ASSUME Init PROVE IInv
  OBVIOUS
<1>1. PICK d : d = [k \in Keys |-> Default(k)]
  OBVIOUS
<1>2. /\ cfg = d /\ ideal = d /\ base = d /\ view = [t \in Readers |-> d]
      /\ todo = [t \in Threads |-> <<>>] /\ toRead = [t \in Readers |-> <<>>]
      /\ open = {} /\ op = [t \in Threads |-> Idle] /\ clash = {} /\ news = <<>>
  BY <1>1 DEF Init, Threads, Readers
<1>3. Shows(d) /\ Meant(d) /\ Holds(d)
  BY <1>1, DefaultShows, ShowsMeant
<1>4. "player" \in Readers /\ "ui" \in Readers
  BY DEF Readers
<1>5. \A t \in Threads : ~Busy(t) /\ todo[t] = <<>> /\ op[t] = Idle
  BY <1>2 DEF Busy
<1>6. ~Reading /\ toRead["player"] = <<>>
  BY <1>2, <1>4 DEF Reading
<1>7. Typed
  <2>1. WritesOK(<<>>)
    BY DEF WritesOK
  <2>2. \A t \in Threads : Idle \in OpsOf(t)
    BY DEF OpsOf
  <2>3. <<>> \in Seq(Keys) /\ <<>> \in Seq(Ops)
    OBVIOUS
  <2>4. view["player"] = d /\ view["ui"] = d /\ view = [t \in Readers |-> view[t]]
    BY <1>2, <1>4
  <2>5. todo = [t \in Threads |-> todo[t]] /\ \A t \in Threads : WritesOK(todo[t])
    BY <1>2, <2>1
  <2>6. op = [t \in Threads |-> op[t]] /\ \A t \in Threads : op[t] \in OpsOf(t)
    BY <1>2, <2>2
  <2>7. toRead = [t \in Readers |-> toRead[t]] /\ \A t \in Readers : toRead[t] \in Seq(Keys)
    BY <1>2, <2>3
  <2> QED BY <1>2, <1>3, <2>3, <2>4, <2>5, <2>6, <2>7 DEF Typed
<1>8. OwnWrites
  BY <1>5 DEF OwnWrites
<1>9. KeyInv
  <2>1. \A t \in Threads : \A k : ~Writes(t, k)
    BY <1>5 DEF Writes
  <2> QED BY <1>2, <2>1 DEF KeyInv, Threads
<1>10. LevelFirst
  BY <1>5 DEF LevelFirst, Pending, Has
<1>11. ReadsOnward(toRead["player"])
  BY <1>6 DEF ReadsOnward, Leads
<1>12. NewsInv /\ SlotInv
  BY <1>6 DEF NewsInv, SlotInv
<1>13. PublishedWhole
  BY <1>2 DEF PublishedWhole
<1> QED BY <1>7, <1>8, <1>9, <1>10, <1>11, <1>12, <1>13 DEF IInv

\* The invariant holds when nothing changes.
LEMMA StutterIInv == IInv /\ UNCHANGED vars => IInv'
<1> SUFFICES ASSUME IInv, UNCHANGED vars PROVE IInv'
  OBVIOUS
<1>1. /\ cfg' = cfg /\ todo' = todo /\ op' = op /\ ideal' = ideal /\ clash' = clash /\ base' = base
      /\ news' = news /\ open' = open /\ view' = view /\ toRead' = toRead
  BY DEF vars, shared, history
<1>2. /\ open \subseteq {"eq", "file"} /\ view = [r \in Readers |-> view[r]] /\ Shows(view["ui"])
      /\ toRead = [r \in Readers |-> toRead[r]] /\ \A r \in Readers : toRead[r] \in Seq(Keys)
  BY DEF IInv, Typed
<1> QED BY <1>1, <1>2, PageKeeps

\* A remote command begins.
LEMMA CommandKeeps ==
  ASSUME IInv, NEW o \in OpsOf("cli"), NEW writes, Prepared(o, writes), Command(o, writes)
  PROVE  IInv'
<1>1. Begin("cli", o, writes) /\ toRead' = toRead /\ view' = view /\ open' = open
  BY DEF Command
<1>2. /\ open \subseteq {"eq", "file"} /\ "cli" \in Threads
      /\ toRead = [r \in Readers |-> toRead[r]] /\ \A r \in Readers : toRead[r] \in Seq(Keys)
  BY DEF IInv, Typed, Threads
<1> QED BY <1>1, <1>2, BeginKeeps

\* An operation of the UI thread begins.
LEMMA UserKeeps ==
  ASSUME IInv, NEW o \in OpsOf("ui"), NEW writes, Prepared(o, writes), Begin("ui", o, writes),
         view' = view, open' = open, NEW w \in Seq(Keys), toRead' = [toRead EXCEPT !["ui"] = w]
  PROVE  IInv'
<1>1. /\ open \subseteq {"eq", "file"} /\ "ui" \in Threads /\ Readers = {"ui", "player"}
      /\ toRead = [r \in Readers |-> toRead[r]] /\ \A r \in Readers : toRead[r] \in Seq(Keys)
  BY DEF IInv, Typed, Threads, Readers
<1>2. /\ toRead' = [r \in Readers |-> toRead'[r]] /\ \A r \in Readers : toRead'[r] \in Seq(Keys)
      /\ toRead'["player"] = toRead["player"]
  BY <1>1
<1> QED BY <1>1, <1>2, BeginKeeps

\* Every step of every thread keeps the invariant.
LEMMA NextIInv ==
  ASSUME IInv, Next
  PROVE  IInv'
<1>0. Typed /\ Requests \subseteq Int
  BY SettingsAssumption DEF IInv
<1>1. CASE CommandEnable
  <2>1. PICK n \in 0 .. NSlots, v \in {0, 1} : Command(Number(<<"enable", n>>, v), Write(<<"enable", n>>, v))
    BY <1>1 DEF CommandEnable
  <2>2. v \in Int
    OBVIOUS
  <2> QED BY <2>1, <2>2, NumberPrepared, CommandKeeps
<1>2. CASE CommandLevel
  <2>1. PICK n \in 0 .. NSlots, v \in Requests :
          Command(Number(<<"level", n>>, Clamp(v)), Write(<<"level", n>>, Clamp(v)))
    BY <1>2 DEF CommandLevel
  <2>2. Clamp(v) \in Int
    BY <1>0, ClampRange
  <2> QED BY <2>1, <2>2, NumberPrepared, CommandKeeps
<1>3. CASE CommandBand
  <2>1. PICK b \in Bands, v \in Requests : Command(Band(b, Clamp(v)), WriteBand(b, Clamp(v)))
    BY <1>3 DEF CommandBand
  <2>2. Clamp(v) \in Int
    BY <1>0, ClampRange
  <2> QED BY <1>0, <2>1, <2>2, BandPrepared, CommandKeeps
<1>4. CASE CommandFile
  <2>1. PICK n \in Slots, f \in FileNames \cup {NONE} : Command(File(n, f), WriteFile(n, f))
    BY <1>4 DEF CommandFile
  <2> QED BY <2>1, FilePrepared, CommandKeeps
<1>5. ASSUME NEW t \in {"cli", "ui"}, WriteNext(t) PROVE IInv'
  BY <1>5, WriteKeeps DEF Threads
<1>6. ASSUME NEW t \in {"ui", "player"}, ReadNext(t) PROVE IInv'
  BY <1>6, PlayerKeeps, PageReadKeeps
<1>7. ASSUME NEW page \in {"eq", "file"}, Open(page) \/ ResetPage(page) PROVE IInv'
  BY <1>7, OpenKeeps, ResetKeeps
<1>8. ASSUME NEW page \in {"eq", "file"}, Apply(page) PROVE IInv'
  <2>1. /\ Begin("ui", ApplyPage(page), WritePage(page)) /\ toRead' = toRead /\ view' = view
        /\ open' = open
    BY <1>8 DEF Apply
  <2>2. ApplyPage(page) \in OpsOf("ui") /\ Prepared(ApplyPage(page), WritePage(page))
    BY <1>0, ApplyPrepared
  <2>3. toRead["ui"] \in Seq(Keys) /\ toRead' = [toRead EXCEPT !["ui"] = toRead["ui"]]
    BY <2>1, NothingToRead
  <2> QED BY <2>1, <2>2, <2>3, UserKeeps
<1>9. CASE Edit \/ Browse
  BY <1>9, EditKeeps, BrowseKeeps
<1>10. CASE LoadJson
  <2>1. PICK v \in Requests, ok \in BOOLEAN :
          /\ Begin("ui", Json(v, [b \in Bands |-> v], ok), WriteJson(v, [b \in Bands |-> v], ok))
          /\ toRead' = [toRead EXCEPT !["ui"] = IF ok THEN PageOrder("eq") ELSE <<>>]
          /\ view' = view /\ open' = open
    BY <1>10 DEF LoadJson
  <2>2. PICK m, w : m = [b \in Bands |-> v] /\ w = IF ok THEN PageOrder("eq") ELSE <<>>
    OBVIOUS
  <2>3. v \in Int /\ m \in [Bands -> Int]
    BY <1>0, <2>2
  <2>4. w \in Seq(Keys)
    <3>1. PageOrder("eq") \in Seq(Keys) /\ <<>> \in Seq(Keys)
      BY PageKeysAreKeys
    <3> QED BY <2>2, <3>1
  <2>5. Json(v, m, ok) \in OpsOf("ui") /\ Prepared(Json(v, m, ok), WriteJson(v, m, ok))
    BY <2>3, JsonPrepared
  <2>6. Begin("ui", Json(v, m, ok), WriteJson(v, m, ok)) /\ toRead' = [toRead EXCEPT !["ui"] = w]
    BY <2>1, <2>2
  <2> QED BY <2>1, <2>4, <2>5, <2>6, UserKeeps
<1>11. CASE SetUp
  BY <1>11, SetUpKeeps
<1> QED BY <1>1, <1>2, <1>3, <1>4, <1>5, <1>6, <1>7, <1>8, <1>9, <1>10, <1>11 DEF Next

\* The invariant says what a setting is that no two operations wrote at once.
LEMMA IInvAsIf == IInv => AsIfOneByOne
<1> SUFFICES ASSUME IInv PROVE AsIfOneByOne
  OBVIOUS
<1>1. Typed /\ KeyInv
  BY DEF IInv
<1>2. Holds(cfg) /\ Holds(view["player"]) /\ Shows(view["ui"]) /\ Holds(view["ui"])
      /\ open \subseteq {"eq", "file"} /\ clash \subseteq Keys
  BY <1>1, ShowsMeant DEF Typed
<1>3. \A k \in Keys : Valid(k, cfg[k]) /\ Valid(k, view["player"][k]) /\ Valid(k, view["ui"][k])
  BY <1>2, ValidKind DEF Holds
<1>4. ASSUME NEW n \in 0 .. NSlots PROVE view["ui"][<<"level", n>>] \in Range0
  <2>1. <<"level", n>> \in Keys /\ PageKind(<<"level", n>>) = Range0
    BY KeyFacts, KindFacts
  <2> QED BY <1>2, <2>1 DEF Shows
<1>5. view["ui"][Mag] \in [Bands -> Range0]
  BY <1>2, KeyFacts, KindFacts DEF Shows
<1>6. TypeOK
  BY <1>2, <1>3, <1>4, <1>5 DEF TypeOK
<1>7. \A k \in Keys \ clash : ~Writing(k) => cfg[k] = ideal[k]
  BY <1>1 DEF KeyInv
<1> QED BY <1>6, <1>7 DEF AsIfOneByOne

\* The invariant is inductive.
THEOREM SettingsInvariant == Spec => []IInv
<1>1. Init => IInv
  BY InitIInv
<1>2. IInv /\ [Next]_vars => IInv'
  BY NextIInv, StutterIInv
<1> QED BY <1>1, <1>2, PTL DEF Spec

\* Whatever the threads do between each other's writes: every setting holds
\* a value of its kind and the sliders stay in their range, and a setting
\* that no two operations wrote at once is what it would be, had each been
\* one step (connection.cpp:66-489, prefs_eq.cpp:482-521, 563-583,
\* prefs_file.cpp:249-286).
THEOREM AsIfOneByOneHolds == Spec => []AsIfOneByOne
BY SettingsInvariant, IInvAsIf, PTL

\* Whenever the set-up falls into the writes of a file, or of a page, it
\* uses the file of an empty slot with the level that was set with it, or
\* leaves the slot out (connection.cpp:340-343, prefs_file.cpp:251-273,
\* foo_dsp_bfir.cpp:177-198).
THEOREM PublishedWholeHolds == Spec => []PublishedWhole
<1>1. IInv => PublishedWhole
  BY DEF IInv
<1> QED BY <1>1, SettingsInvariant, PTL

===============================================================================
