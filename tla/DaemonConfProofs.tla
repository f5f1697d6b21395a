-------------------------- MODULE DaemonConfProofs --------------------------
(***************************************************************************)
(* Proofs about DaemonConf: a line is taken for what it means, and a file  *)
(* for what its lines mean, whatever characters are in them.               *)
(***************************************************************************)
EXTENDS DaemonConf, ArgumentsProofs, FiniteSetTheorems

-----------------------------------------------------------------------------
(* Least and greatest numbers. *)

(* A set of naturals which is not empty has a least one.                     *)
LEMMA MinIsLeast ==
  ASSUME NEW S, S \subseteq Nat, S # {}
  PROVE  Min(S) \in S /\ \A y \in S : Min(S) <= y
<1>. DEFINE R == OpToRel(<, Nat)
<1>1. \A x, y \in Nat : y < x => <<y, x>> \in R
  BY DEF OpToRel
<1>. HIDE DEF R
<1>2. IsWellFoundedOn(R, Nat)
  BY NatLessThanWellFounded DEF R
<1>3. PICK x \in S : \A y \in S : ~(<<y, x>> \in R)
  BY <1>2, WFMin
<1>4. \A y \in S : x <= y
  <2>. TAKE y \in S
  <2>1. x \in Nat /\ y \in Nat
    OBVIOUS
  <2>2. ~(y < x)
    BY <1>1, <1>3, <2>1
  <2>. QED BY <2>1, <2>2
<1>. QED BY <1>4 DEF Min

(* One which is bounded has a greatest one.                                  *)
LEMMA MaxIsGreatest ==
  ASSUME NEW S, S \subseteq Nat, S # {}, NEW n \in Nat, \A y \in S : y <= n
  PROVE  Max(S) \in S /\ \A y \in S : y <= Max(S)
<1>. DEFINE T == {n - y : y \in S}
<1>1. T \subseteq Nat /\ T # {}
  <2>1. \A y \in S : n - y \in Nat
    OBVIOUS
  <2>. QED BY <2>1
<1>2. Min(T) \in T /\ \A z \in T : Min(T) <= z
  <2>. HIDE DEF T
  <2>. QED BY <1>1, MinIsLeast
<1>3. PICK x \in S : Min(T) = n - x
  BY <1>2
<1>4. \A y \in S : y <= x
  <2>. TAKE y \in S
  <2>1. n - y \in T /\ x \in Nat /\ y \in Nat
    OBVIOUS
  <2>. QED BY <1>2, <1>3, <2>1
<1>. QED BY <1>4 DEF Max

(* What is behind all of a set is the greatest one with it.                  *)
LEMMA MaxOfLast ==
  ASSUME NEW n \in Int, NEW S, S \subseteq Int, \A y \in S : y <= n
  PROVE  Max(S \cup {n}) = n
<1>. DEFINE T == S \cup {n}
<1>1. n \in T /\ \A y \in T : y \in Int /\ n >= y
  OBVIOUS
<1>. HIDE DEF T
<1>2. Max(T) \in T /\ \A y \in T : Max(T) >= y
  BY <1>1 DEF Max
<1>3. Max(T) \in Int /\ n >= Max(T) /\ Max(T) >= n
  BY <1>1, <1>2, Zenon
<1>4. Max(T) = n
  BY <1>3
<1>. QED BY <1>4 DEF T

-----------------------------------------------------------------------------
(* Places in a line. *)

(* The part of a line from m to n.                                           *)
LEMMA Part ==
  ASSUME NEW C, NEW s \in Seq(C), NEW m \in Nat \ {0}, NEW n \in 0..Len(s)
  PROVE  /\ SubSeq(s, m, n) \in Seq(C)
         /\ Len(SubSeq(s, m, n)) = IF m <= n THEN n - m + 1 ELSE 0
         /\ \A i \in 1..Len(SubSeq(s, m, n)) : SubSeq(s, m, n)[i] = s[m + i - 1]
<1>1. \A i \in m..n : s[i] \in C
  BY ElementOfSeq
<1>2. m \in Int /\ n \in Int
  OBVIOUS
<1>. QED BY <1>1, <1>2, SubSeqProperties

(* The first dark character has blanks in front of it only.                  *)
LEMMA FirstDarkPlace ==
  ASSUME NEW C, NEW s \in Seq(C)
  PROVE  /\ FirstDark(s) \in 1..Len(s) + 1
         /\ FirstDark(s) <= Len(s) => ~Blank(s[FirstDark(s)])
         /\ \A i \in 1..Len(s) : i < FirstDark(s) => Blank(s[i])
<1>. DEFINE S == {i \in DOMAIN s : ~Blank(s[i])} \cup {Len(s) + 1}
<1>1. Len(s) \in Nat /\ DOMAIN s = 1..Len(s)
  OBVIOUS
<1>2. S \subseteq Nat /\ S # {}
  BY <1>1
<1>3. Min(S) \in S /\ \A y \in S : Min(S) <= y
  <2>. HIDE DEF S
  <2>. QED BY <1>2, MinIsLeast
<1>4. FirstDark(s) = Min(S)
  BY DEF FirstDark
<1>5. ASSUME NEW i \in 1..Len(s), i < Min(S) PROVE Blank(s[i])
  <2>1. i \in S => Min(S) <= i /\ Min(S) \in Nat
    <3>. HIDE DEF S
    <3>. QED BY <1>2, <1>3
  <2>2. i \notin S
    BY <1>1, <1>5, <2>1, SMT
  <2>. QED BY <1>1, <2>2
<1>. QED BY <1>1, <1>3, <1>4, <1>5

(* The last dark character has blanks behind it only.                        *)
LEMMA LastDarkPlace ==
  ASSUME NEW C, NEW s \in Seq(C)
  PROVE  /\ LastDark(s) \in 0..Len(s)
         /\ LastDark(s) # 0 => ~Blank(s[LastDark(s)])
         /\ \A i \in 1..Len(s) : i > LastDark(s) => Blank(s[i])
<1>. DEFINE S == {i \in DOMAIN s : ~Blank(s[i])} \cup {0}
<1>1. Len(s) \in Nat /\ DOMAIN s = 1..Len(s)
  OBVIOUS
<1>2. S \subseteq Nat /\ S # {} /\ \A y \in S : y <= Len(s)
  BY <1>1
<1>3. Max(S) \in S /\ \A y \in S : y <= Max(S)
  <2>. HIDE DEF S
  <2>. QED BY <1>1, <1>2, MaxIsGreatest
<1>4. LastDark(s) = Max(S)
  BY DEF LastDark
<1>5. ASSUME NEW i \in 1..Len(s), i > Max(S) PROVE Blank(s[i])
  <2>1. i \in S => i <= Max(S) /\ Max(S) \in Nat
    <3>. HIDE DEF S
    <3>. QED BY <1>2, <1>3
  <2>2. i \notin S
    BY <1>1, <1>5, <2>1, SMT
  <2>. QED BY <1>1, <2>2
<1>. QED BY <1>1, <1>3, <1>4, <1>5

(* The first c has others in front of it only.                               *)
LEMMA PlaceFound ==
  ASSUME NEW C, NEW s \in Seq(C), NEW c
  PROVE  /\ Place(s, c) \in 1..Len(s) + 1
         /\ Place(s, c) <= Len(s) => s[Place(s, c)] = c
<1>. DEFINE S == {i \in DOMAIN s : s[i] = c} \cup {Len(s) + 1}
<1>1. Len(s) \in Nat /\ DOMAIN s = 1..Len(s)
  OBVIOUS
<1>2. S \subseteq Nat /\ S # {}
  BY <1>1
<1>3. Min(S) \in S
  <2>. HIDE DEF S
  <2>. QED BY <1>2, MinIsLeast
<1>4. Place(s, c) = Min(S)
  BY DEF Place
<1>. QED BY <1>1, <1>3, <1>4

-----------------------------------------------------------------------------
(* A line is taken for what it means. *)

(* What is trimmed on one side begins, or ends, with a dark character.       *)
LEMMA TrimmedPart ==
  ASSUME NEW C, NEW s \in Seq(C)
  PROVE  /\ LeftTrimmed(s) \in Seq(C) /\ RightTrimmed(s) \in Seq(C)
         /\ s # << >> /\ ~Blank(s[1]) => LeftTrimmed(s) = s
         /\ s # << >> /\ ~Blank(s[Len(s)]) => RightTrimmed(s) = s
         /\ s = << >> => LeftTrimmed(s) = s /\ RightTrimmed(s) = s
<1>1. /\ Len(s) \in Nat /\ FirstDark(s) \in 1..Len(s) + 1 /\ LastDark(s) \in 0..Len(s)
      /\ \A i \in 1..Len(s) : i < FirstDark(s) => Blank(s[i])
      /\ \A i \in 1..Len(s) : i > LastDark(s) => Blank(s[i])
  BY FirstDarkPlace, LastDarkPlace
<1>2. LeftTrimmed(s) \in Seq(C) /\ RightTrimmed(s) \in Seq(C)
  BY <1>1, Part DEF LeftTrimmed, RightTrimmed
<1>3. SubSeq(s, 1, Len(s)) = s
  BY SubSeqFull
<1>4. ASSUME s # << >>, ~Blank(s[1]) PROVE LeftTrimmed(s) = s
  <2>1. FirstDark(s) = 1
    BY <1>1, <1>4
  <2>. QED BY <1>3, <2>1 DEF LeftTrimmed
<1>5. ASSUME s # << >>, ~Blank(s[Len(s)]) PROVE RightTrimmed(s) = s
  <2>1. LastDark(s) = Len(s)
    BY <1>1, <1>5
  <2>. QED BY <1>3, <2>1 DEF RightTrimmed
<1>6. ASSUME s = << >> PROVE LeftTrimmed(s) = s /\ RightTrimmed(s) = s
  <2>1. Len(s) = 0 /\ FirstDark(s) = 1 /\ LastDark(s) = 0
    BY <1>1, <1>6
  <2>. QED BY <1>3, <2>1 DEF LeftTrimmed, RightTrimmed
<1>. QED BY <1>2, <1>4, <1>5, <1>6

(* Trimming leaves what is between the first and the last dark character.    *)
LEMMA TrimmedText ==
  ASSUME NEW C, NEW s \in Seq(C)
  PROVE  /\ Trimmed(s) \in Seq(C)
         /\ LastDark(s) = 0 => Trimmed(s) = << >>
         /\ LastDark(s) # 0 =>
              /\ FirstDark(s) <= LastDark(s)
              /\ Trimmed(s) = SubSeq(s, FirstDark(s), LastDark(s))
         /\ Trimmed(s) # << >> =>
              ~Blank(Trimmed(s)[1]) /\ ~Blank(Trimmed(s)[Len(Trimmed(s))])
<1>. DEFINE a == FirstDark(s)
            z == LastDark(s)
            r == RightTrimmed(s)
<1>1. /\ Len(s) \in Nat /\ a \in 1..Len(s) + 1 /\ z \in 0..Len(s)
      /\ a <= Len(s) => ~Blank(s[a])
      /\ z # 0 => ~Blank(s[z])
      /\ \A i \in 1..Len(s) : i < a => Blank(s[i])
  BY FirstDarkPlace, LastDarkPlace
<1>2. /\ r \in Seq(C) /\ Len(r) = z /\ \A i \in 1..z : r[i] = s[i]
  BY <1>1, Part DEF RightTrimmed
<1>3. CASE z = 0
  <2>1. r = << >>
    BY <1>2, <1>3, EmptySeq
  <2>. QED BY <1>2, <1>3, <2>1, TrimmedPart DEF Trimmed
<1>4. CASE z # 0
  <2>1. a <= z
    BY <1>1, <1>4
  <2>2. /\ FirstDark(r) \in 1..z + 1
        /\ FirstDark(r) <= z => ~Blank(r[FirstDark(r)])
        /\ \A i \in 1..z : i < FirstDark(r) => Blank(r[i])
    BY <1>2, FirstDarkPlace
  <2>3. r[a] = s[a] /\ ~Blank(s[a]) /\ a \in 1..z
    BY <1>1, <1>2, <2>1
  <2>4. ASSUME FirstDark(r) < a PROVE FALSE
    <3>1. FirstDark(r) \in 1..z /\ FirstDark(r) \in 1..Len(s)
      BY <1>1, <2>1, <2>2, <2>4
    <3>2. r[FirstDark(r)] = s[FirstDark(r)] /\ Blank(s[FirstDark(r)])
      BY <1>1, <1>2, <2>4, <3>1, Zenon
    <3>. QED BY <2>2, <3>1, <3>2
  <2>5. FirstDark(r) = a
    BY <1>1, <2>2, <2>3, <2>4
  <2>6. Trimmed(s) = SubSeq(SubSeq(s, 1, z), a, z)
    BY <1>2, <2>5 DEF Trimmed, LeftTrimmed, RightTrimmed
  <2>7. SubSeq(SubSeq(s, 1, z), a, z) = SubSeq(s, a, z)
    <3>1. /\ SubSeq(r, a, z) \in Seq(C) /\ Len(SubSeq(r, a, z)) = z - a + 1
          /\ \A i \in 1..z - a + 1 : SubSeq(r, a, z)[i] = r[a + i - 1]
      BY <1>1, <1>2, <2>1, Part
    <3>2. /\ SubSeq(s, a, z) \in Seq(C) /\ Len(SubSeq(s, a, z)) = z - a + 1
          /\ \A i \in 1..z - a + 1 : SubSeq(s, a, z)[i] = s[a + i - 1]
      BY <1>1, <2>1, Part
    <3>3. \A i \in 1..z - a + 1 : r[a + i - 1] = s[a + i - 1]
      BY <1>1, <1>2, <2>1
    <3>4. SubSeq(r, a, z) = SubSeq(s, a, z)
      BY <3>1, <3>2, <3>3, SeqEqual
    <3>. QED BY <3>4 DEF RightTrimmed
  <2>8. /\ SubSeq(s, a, z) \in Seq(C) /\ Len(SubSeq(s, a, z)) = z - a + 1
        /\ SubSeq(s, a, z)[1] = s[a] /\ SubSeq(s, a, z)[z - a + 1] = s[z]
    <3>1. /\ SubSeq(s, a, z) \in Seq(C) /\ Len(SubSeq(s, a, z)) = z - a + 1
          /\ \A i \in 1..z - a + 1 : SubSeq(s, a, z)[i] = s[a + i - 1]
      BY <1>1, <2>1, Part
    <3>2. /\ 1 \in 1..z - a + 1 /\ z - a + 1 \in 1..z - a + 1
          /\ a + 1 - 1 = a /\ a + (z - a + 1) - 1 = z
      BY <1>1, <2>1
    <3>. QED BY <3>1, <3>2
  <2>9. ~Blank(s[a]) /\ ~Blank(s[z])
    BY <1>1, <1>4, <2>1
  <2>. QED BY <1>4, <2>1, <2>6, <2>7, <2>8, <2>9
<1>. QED BY <1>3, <1>4

(* A line which is not misread has the text it means: with something in      *)
(* front of its comment, its end is found behind its indentation.            *)
LEMMA TextMeans ==
  ASSUME NEW C, NEW l \in Seq(C), ~Misread(l)
  PROVE  LineText(l, FirstDark(l) - 1) = Trimmed(Uncommented(l))
<1>. DEFINE n == Place(l, "#") - 1
            u == Uncommented(l)
            a == FirstDark(l)
            z == LastDark(u)
<1>1. Len(l) \in Nat /\ n \in 0..Len(l)
  BY PlaceFound
<1>2. u \in Seq(C) /\ Len(u) = n /\ \A i \in 1..n : u[i] = l[i]
  BY <1>1, Part DEF Uncommented
<1>3. /\ a \in 1..Len(l) + 1
      /\ a <= Len(l) => ~Blank(l[a])
      /\ \A i \in 1..Len(l) : i < a => Blank(l[i])
  BY FirstDarkPlace
<1>4. /\ z \in 0..n
      /\ z # 0 => ~Blank(u[z])
      /\ \A i \in 1..n : i > z => Blank(u[i])
  BY <1>2, LastDarkPlace
<1>5. CASE z = 0
  <2>1. Trimmed(u) = << >>
    BY <1>2, <1>5, TrimmedText
  <2>2. CASE a = 1
    BY <1>1, <1>5, <2>1, <2>2, SubSeqEmpty DEF LineText
  <2>3. CASE a # 1
    <3>1. l # << >> /\ Blank(l[1])
      BY <1>1, <1>3, <2>3
    <3>2. n = Len(l)
      BY <1>1, <2>1, <3>1, PlaceFound DEF Misread
    <3>3. a = Len(l) + 1
      BY <1>1, <1>2, <1>3, <1>4, <1>5, <3>2
    <3>4. SubSeq(l, Len(l) + 1, Len(l)) = << >>
      BY <1>1, SubSeqEmpty
    <3>5. LineText(l, a - 1) = SubSeq(l, Len(l) + 1, Len(l))
      BY <1>1, <1>5, <3>1, <3>3 DEF LineText
    <3>. QED BY <2>1, <3>4, <3>5
  <2>. QED BY <2>2, <2>3
<1>6. CASE z # 0
  <2>1. a <= z
    BY <1>1, <1>2, <1>3, <1>4, <1>6
  <2>2. LineText(l, a - 1) = SubSeq(l, a, z)
    BY <1>1, <1>3, <1>4, <2>1 DEF LineText
  <2>3. /\ FirstDark(u) \in 1..n + 1
        /\ FirstDark(u) <= n => ~Blank(u[FirstDark(u)])
        /\ \A i \in 1..n : i < FirstDark(u) => Blank(u[i])
    BY <1>2, FirstDarkPlace
  <2>4. u[a] = l[a] /\ ~Blank(l[a]) /\ a \in 1..n
    BY <1>1, <1>2, <1>3, <1>4, <2>1
  <2>5. ASSUME FirstDark(u) < a PROVE FALSE
    <3>1. FirstDark(u) \in 1..n /\ FirstDark(u) \in 1..Len(l)
      BY <1>1, <1>3, <2>3, <2>4, <2>5
    <3>2. u[FirstDark(u)] = l[FirstDark(u)] /\ Blank(l[FirstDark(u)])
      BY <1>2, <1>3, <2>5, <3>1, Zenon
    <3>. QED BY <2>3, <3>1, <3>2
  <2>6. FirstDark(u) = a
    BY <1>1, <1>3, <2>3, <2>4, <2>5
  <2>7. Trimmed(u) = SubSeq(u, a, z)
    BY <1>2, <1>6, <2>6, TrimmedText
  <2>8. /\ SubSeq(u, a, z) \in Seq(C) /\ Len(SubSeq(u, a, z)) = z - a + 1
        /\ \A i \in 1..z - a + 1 : SubSeq(u, a, z)[i] = u[a + i - 1]
    BY <1>2, <1>3, <1>4, <2>1, Part
  <2>9. /\ SubSeq(l, a, z) \in Seq(C) /\ Len(SubSeq(l, a, z)) = z - a + 1
        /\ \A i \in 1..z - a + 1 : SubSeq(l, a, z)[i] = l[a + i - 1]
    BY <1>1, <1>3, <1>4, <2>1, Part
  <2>10. \A i \in 1..z - a + 1 : u[a + i - 1] = l[a + i - 1]
    BY <1>1, <1>2, <1>3, <1>4, <2>1
  <2>11. SubSeq(u, a, z) = SubSeq(l, a, z)
    BY <2>8, <2>9, <2>10, SeqEqual
  <2>. QED BY <2>2, <2>7, <2>11
<1>. QED BY <1>5, <1>6

(* Every line which is not misread is taken for what it means.               *)
LEMMA ParsedMeans ==
  ASSUME NEW C, NEW l \in Seq(C), ~Misread(l)
  PROVE  ParseLine(l) = Meaning(l)
<1>. DEFINE t == Trimmed(Uncommented(l))
            p == Place(t, "=")
            k == SubSeq(t, 1, p - 1)
            v == SubSeq(t, p + 1, Len(t))
<1>1. LineText(l, FirstDark(l) - 1) = t
  BY TextMeans
<1>2. Uncommented(l) \in Seq(C)
  <2>1. Place(l, "#") - 1 \in 0..Len(l)
    BY PlaceFound
  <2>. QED BY <2>1, Part DEF Uncommented
<1>3. t \in Seq(C) /\ Len(t) \in Nat /\ (t # << >> => ~Blank(t[1]) /\ ~Blank(t[Len(t)]))
  BY <1>2, TrimmedText
<1>4. p \in 1..Len(t) + 1 /\ (p <= Len(t) => t[p] = "=")
  BY <1>3, PlaceFound
<1>5. CASE p > Len(t) \/ IsSection(t)
  BY <1>1, <1>5 DEF ParseLine, Meaning
<1>6. CASE p <= Len(t) /\ ~IsSection(t)
  <2>1. t # << >>
    BY <1>3, <1>4, <1>6
  <2>2. /\ k \in Seq(C) /\ Len(k) = p - 1 /\ \A i \in 1..p - 1 : k[i] = t[i]
    BY <1>3, <1>4, <1>6, Part
  <2>3. /\ v \in Seq(C) /\ Len(v) = Len(t) - p
        /\ \A i \in 1..Len(t) - p : v[i] = t[p + i]
    <3>1. p \in Nat /\ p + 1 \in Nat \ {0} /\ Len(t) \in 0..Len(t)
      BY <1>3, <1>4
    <3>2. /\ v \in Seq(C) /\ Len(v) = IF p + 1 <= Len(t) THEN Len(t) - (p + 1) + 1 ELSE 0
          /\ \A i \in 1..Len(v) : v[i] = t[p + 1 + i - 1]
      <4>. HIDE DEF t, p
      <4>1. PICK s \in Seq(C), m \in Nat \ {0}, n \in 0..Len(t) :
              s = t /\ m = p + 1 /\ n = Len(t)
        BY ONLY <1>3, <3>1
      <4>2. /\ SubSeq(s, m, n) \in Seq(C)
            /\ Len(SubSeq(s, m, n)) = IF m <= n THEN n - m + 1 ELSE 0
            /\ \A i \in 1..Len(SubSeq(s, m, n)) : SubSeq(s, m, n)[i] = s[m + i - 1]
        BY ONLY <4>1, Part
      <4>3. v = SubSeq(s, m, n)
        BY ONLY <4>1
      <4>. HIDE DEF v
      <4>. QED BY ONLY <4>1, <4>2, <4>3
    <3>3. Len(v) = Len(t) - p
      <4>1. p <= Len(t)
        BY <1>6
      <4>. HIDE DEF v, t, p
      <4>. QED BY ONLY <1>3, <3>1, <3>2, <4>1
    <3>4. \A i \in 1..Len(t) - p : v[i] = t[p + i]
      <4>1. \A i \in 1..Len(t) - p : p + 1 + i - 1 = p + i
        BY <1>3, <3>1
      <4>. HIDE DEF v, t, p
      <4>. QED BY <3>2, <3>3, <4>1
    <3>. QED BY <3>2, <3>3, <3>4
  <2>4. LeftTrimmed(v) = Trimmed(v)
    <3>1. CASE v = << >>
      BY <2>3, <3>1, TrimmedPart DEF Trimmed
    <3>2. CASE v # << >>
      <4>1. Len(t) - p \in 1..Len(t) - p /\ p + (Len(t) - p) = Len(t)
        <5>1. Len(v) # 0 /\ Len(v) \in Nat
          <6>. HIDE DEF v
          <6>. QED BY <2>3, <3>2, EmptySeq
        <5>2. Len(t) \in Nat /\ p \in Nat /\ Len(v) = Len(t) - p
          BY <1>3, <1>4, <2>3
        <5>. HIDE DEF t, p, v
        <5>. QED BY <5>1, <5>2
      <4>2. v[Len(v)] = t[Len(t)]
        <5>. HIDE DEF t, v
        <5>. QED BY <2>3, <4>1
      <4>3. RightTrimmed(v) = v
        BY <1>3, <2>1, <2>3, <3>2, <4>2, TrimmedPart
      <4>. QED BY <4>3 DEF Trimmed
    <3>. QED BY <3>1, <3>2
  <2>5. CASE p = 1
    <3>1. ~(p = 1 /\ FirstDark(l) - 1 # 0)
      <4>1. t[1] = "="
        BY <1>4, <1>6, <2>5
      <4>2. l # << >> => ~Blank(l[1])
        BY <2>1, <4>1 DEF Misread
      <4>. QED BY <4>2, FirstDarkPlace
    <3>2. k = << >>
      BY <2>2, <2>5, EmptySeq
    <3>3. RightTrimmed(k) = Trimmed(k)
      BY <2>2, <3>2, TrimmedPart DEF Trimmed
    <3>. QED BY <1>1, <1>6, <2>4, <3>1, <3>3 DEF ParseLine, Meaning
  <2>6. CASE p # 1
    <3>1. k # << >> /\ k[1] = t[1]
      BY <1>3, <1>4, <2>2, <2>6
    <3>2. ~Blank(k[1]) /\ Len(k) \in Nat /\ 1 \in 1..Len(k)
      <4>1. Len(k) # 0 /\ Len(k) \in Nat
        <5>. HIDE DEF k
        <5>. QED BY <2>2, <3>1, EmptySeq
      <4>. HIDE DEF k, t
      <4>. QED BY <1>3, <2>1, <3>1, <4>1
    <3>3. LastDark(k) # 0
      <4>1. /\ LastDark(k) \in 0..Len(k)
            /\ \A i \in 1..Len(k) : i > LastDark(k) => Blank(k[i])
        BY <2>2, LastDarkPlace
      <4>. HIDE DEF k
      <4>. QED BY <3>2, <4>1
    <3>4. FirstDark(k) = 1
      <4>1. /\ FirstDark(k) \in 1..Len(k) + 1
            /\ \A i \in 1..Len(k) : i < FirstDark(k) => Blank(k[i])
        BY <2>2, FirstDarkPlace
      <4>. HIDE DEF k
      <4>. QED BY <3>2, <4>1
    <3>5. Trimmed(k) = SubSeq(k, 1, LastDark(k))
      BY <2>2, <3>3, <3>4, TrimmedText
    <3>6. RightTrimmed(k) = Trimmed(k)
      BY <3>5 DEF RightTrimmed
    <3>. QED BY <1>1, <1>6, <2>4, <2>6, <3>6 DEF ParseLine, Meaning
  <2>. QED BY <2>5, <2>6
<1>. QED BY <1>4, <1>5, <1>6

-----------------------------------------------------------------------------
(* A file is taken for what its lines mean. *)

FileType == file \in Seq(Seq(STRING))

Text == Seq(STRING)

(* What is read of a line is made of its characters.                         *)
LEMMA ParsedType ==
  ASSUME NEW C, NEW l \in Seq(C)
  PROVE  /\ ParseLine(l).key \in Seq(C)
         /\ ParseLine(l).value \in Seq(C) \/ ParseLine(l).value = NULL
<1>. DEFINE a == FirstDark(l)
            t == LineText(l, a - 1)
            p == Place(t, "=")
<1>1. Len(l) \in Nat /\ a \in 1..Len(l) + 1 /\ Place(l, "#") - 1 \in 0..Len(l)
  BY FirstDarkPlace, PlaceFound
<1>2. LastDark(Uncommented(l)) \in 0..Len(l)
  <2>1. Uncommented(l) \in Seq(C) /\ Len(Uncommented(l)) = Place(l, "#") - 1
    BY <1>1, Part DEF Uncommented
  <2>2. LastDark(Uncommented(l)) \in 0..Len(Uncommented(l))
    BY <2>1, LastDarkPlace
  <2>. QED BY <1>1, <2>1, <2>2
<1>3. t \in Seq(C)
  <2>1. t = SubSeq(l, a, Len(l)) \/ t = SubSeq(l, a, LastDark(Uncommented(l)))
    <3>1. a - 1 + 1 = a
      BY <1>1
    <3>. QED BY <3>1 DEF LineText
  <2>2. /\ SubSeq(l, a, Len(l)) \in Seq(C)
        /\ SubSeq(l, a, LastDark(Uncommented(l))) \in Seq(C)
    BY <1>1, <1>2, Part
  <2>. QED BY <2>1, <2>2
<1>4. Len(t) \in Nat /\ p \in 1..Len(t) + 1
  BY <1>3, PlaceFound
<1>5. CASE IsSection(t)
  <2>1. ParseLine(l) = Line(TRUE, Trimmed(SubSeq(t, 2, Len(t) - 1)), NULL)
    BY <1>5 DEF ParseLine
  <2>2. Len(t) - 1 \in 0..Len(t)
    BY <1>3, <1>5, EmptySeq DEF IsSection
  <2>3. Trimmed(SubSeq(t, 2, Len(t) - 1)) \in Seq(C)
    <3>1. SubSeq(t, 2, Len(t) - 1) \in Seq(C)
      <4>. HIDE DEF t
      <4>. QED BY <1>3, <1>4, <2>2, Part
    <3>. QED BY <3>1, TrimmedText
  <2>. QED BY <2>1, <2>3 DEF Line
<1>6. CASE ~IsSection(t) /\ p > Len(t)
  <2>1. ParseLine(l) = Line(FALSE, t, NULL)
    BY <1>6 DEF ParseLine
  <2>. QED BY <1>3, <2>1 DEF Line
<1>7. CASE ~IsSection(t) /\ ~(p > Len(t))
  <2>. DEFINE k == IF p = 1 /\ a - 1 # 0 THEN t ELSE RightTrimmed(SubSeq(t, 1, p - 1))
              v == LeftTrimmed(SubSeq(t, p + 1, Len(t)))
  <2>1. ParseLine(l) = Line(FALSE, k, v)
    BY <1>7 DEF ParseLine
  <2>2. SubSeq(t, 1, p - 1) \in Seq(C) /\ SubSeq(t, p + 1, Len(t)) \in Seq(C)
    BY <1>3, <1>4, <1>7, Part
  <2>3. RightTrimmed(SubSeq(t, 1, p - 1)) \in Seq(C) /\ v \in Seq(C)
    BY <2>2, TrimmedPart
  <2>. HIDE DEF t, p
  <2>. QED BY <1>3, <2>1, <2>3 DEF Line
<1>. QED BY <1>5, <1>6, <1>7

(* The section which the lines so far have led to.                           *)
InSection == IF SectionOf(line - 1) \in Sections THEN SectionOf(line - 1) ELSE NULL

LineInv == FileType /\ line \in 1..Len(file) + 1

(* The section of a line is its own name, or that of the line before.        *)
LEMMA SectionGrows ==
  ASSUME LineInv, line <= Len(file)
  PROVE  SectionOf(line) = IF Meaning(file[line]).section THEN Meaning(file[line]).key
                           ELSE SectionOf(line - 1)
<1>. DEFINE H(i) == {j \in 1..i : Meaning(file[j]).section}
<1>1. line \in Nat \ {0}
  BY DEF LineInv, FileType
<1>2. CASE Meaning(file[line]).section
  <2>1. H(line) = H(line) \cup {line} /\ H(line) \subseteq Int /\ \A j \in H(line) : j <= line
    BY <1>1, <1>2
  <2>2. Max(H(line)) = line
    <3>. HIDE DEF H
    <3>. QED BY <1>1, <2>1, MaxOfLast
  <2>3. H(line) # {}
    BY <2>1
  <2>. QED BY <1>2, <2>2, <2>3 DEF SectionOf
<1>3. CASE ~Meaning(file[line]).section
  <2>1. H(line) = H(line - 1)
    <3>1. \A j : j \in 1..line <=> j \in 1..line - 1 \/ j = line
      BY <1>1
    <3>. QED BY <1>3, <3>1
  <2>. QED BY <1>3, <2>1 DEF SectionOf
<1>. QED BY <1>2, <1>3

(* Each line which is read is one more of the section it is in, if it has a  *)
(* key.                                                                      *)
LEMMA LinesGrow ==
  ASSUME LineInv, NextLine, section = InSection, Read = Meaning(file[line])
  PROVE  /\ section' = (IF Read.section THEN IF Read.key \in Sections THEN Read.key ELSE NULL
                        ELSE section) => section' = InSection'
         /\ \A s \in Sections :
              LinesOf(s)' = IF section = s /\ ~Read.section /\ Read.key # << >>
                            THEN LinesOf(s) \cup {line} ELSE LinesOf(s)
         /\ \A s : LinesOf(s) \subseteq 1..line - 1
<1>1. line \in Nat \ {0} /\ line <= Len(file) /\ line' = line + 1 /\ file' = file
  BY DEF LineInv, NextLine, FileType
<1>2. SectionOf(line) = IF Read.section THEN Read.key ELSE SectionOf(line - 1)
  BY <1>1, SectionGrows
<1>3. \A i : SectionOf(i)' = SectionOf(i) /\ Meaning(file[i])' = Meaning(file[i])
  BY <1>1 DEF SectionOf
<1>4. InSection' = IF SectionOf(line) \in Sections THEN SectionOf(line) ELSE NULL
  <2>1. line' - 1 = line
    BY <1>1
  <2>. QED BY <1>1, <1>3, <2>1 DEF InSection
<1>5. ASSUME NEW s \in Sections
      PROVE  LinesOf(s)' = IF section = s /\ ~Read.section /\ Read.key # << >>
                           THEN LinesOf(s) \cup {line} ELSE LinesOf(s)
  <2>1. LinesOf(s)' = {i \in 1..line : /\ SectionOf(i) = s /\ ~Meaning(file[i]).section
                                       /\ Meaning(file[i]).key # << >>}
    <3>1. line' - 1 = line
      BY <1>1
    <3>. QED BY <1>1, <3>1 DEF LinesOf, SectionOf
  <2>2. \A i : i \in 1..line <=> i \in 1..line - 1 \/ i = line
    BY <1>1
  <2>3. ~Read.section => (SectionOf(line) = s <=> section = s)
    BY <1>2, NullAssumption DEF InSection
  <2>. QED BY <2>1, <2>2, <2>3 DEF LinesOf
<1>6. \A s : LinesOf(s) \subseteq 1..line - 1
  BY DEF LinesOf
<1>. QED BY <1>2, <1>4, <1>5, <1>6 DEF InSection

(* The fields of a configuration.                                            *)
ConfNames ==
  {"path", "arguments", "environment", "workdir", "in", "out", "err", "sigfinish", "sigreload",
   "uid", "gid", "nosid", "umask", "priority", "start"}

IsConf(c) == c = [f \in ConfNames |-> c[f]]

(* r is c but for the field f. *)
Only(c, r, f) == IsConf(r) /\ \A g \in ConfNames \ {f} : r[g] = c[g]

(* A field is set by itself.                                                 *)
LEMMA FieldSet ==
  ASSUME NEW c, IsConf(c), NEW f \in ConfNames, NEW w
  PROVE  Only(c, [c EXCEPT ![f] = w], f) /\ [c EXCEPT ![f] = w][f] = w
BY Zenon DEF IsConf, Only

(* Or is left as it is.                                                      *)
LEMMA FieldKept ==
  ASSUME NEW c, IsConf(c), NEW f PROVE Only(c, c, f)
BY DEF Only

IdValid(ids, v) == v \in DOMAIN ids \/ (v \in DOMAIN Decimal /\ Decimal[v] \in 0..MaxId)
IdOf(ids, v) == IF v \in DOMAIN ids THEN ids[v] ELSE Decimal[v]
PriorityValid(v) == v \in DOMAIN Decimal /\ Decimal[v] \in -20..19

(* A value sets one field, if it is valid.                                   *)
LEMMA PathSets ==
  ASSUME NEW c, IsConf(c), NEW f \in ConfNames, NEW v
  PROVE  /\ Only(c, ConfPath(c, f, v), f)
         /\ ConfPath(c, f, v)[f] = IF Absolute(v) THEN v ELSE c[f]
BY FieldSet, FieldKept, Zenon DEF ConfPath

(* So does a signal.                                                        *)
LEMMA SignalSets ==
  ASSUME NEW c, IsConf(c), NEW f \in ConfNames, NEW v
  PROVE  /\ Only(c, ConfSignal(c, f, v), f)
         /\ ConfSignal(c, f, v)[f] = IF IsSignal(v) THEN SignalOf(v) ELSE c[f]
<1>1. Only(c, [c EXCEPT ![f] = SignalOf(v)], f) /\ [c EXCEPT ![f] = SignalOf(v)][f] = SignalOf(v)
  BY FieldSet
<1>. QED BY <1>1, FieldKept DEF ConfSignal

(* A user or a group, if the database can be read.                          *)
LEMMA IdSets ==
  ASSUME NEW c, IsConf(c), NEW f \in ConfNames, NEW ids, NEW v
  PROVE  /\ Only(c, ConfId(c, f, ids, v), f)
         /\ database =>
              ConfId(c, f, ids, v)[f] = IF IdValid(ids, v) THEN IdOf(ids, v) ELSE c[f]
<1>1. CASE ~database
  BY <1>1, FieldKept DEF ConfId
<1>2. CASE database /\ v \in DOMAIN ids
  <2>1. ConfId(c, f, ids, v) = [c EXCEPT ![f] = ids[v]]
    BY <1>2, Zenon DEF ConfId
  <2>2. Only(c, [c EXCEPT ![f] = ids[v]], f) /\ [c EXCEPT ![f] = ids[v]][f] = ids[v]
    BY FieldSet
  <2>3. IdValid(ids, v) /\ IdOf(ids, v) = ids[v]
    BY <1>2 DEF IdValid, IdOf
  <2>. QED BY <2>1, <2>2, <2>3, Zenon
<1>3. CASE database /\ v \notin DOMAIN ids /\ IdValid(ids, v)
  <2>1. ConfId(c, f, ids, v) = [c EXCEPT ![f] = Decimal[v]]
    BY <1>3, Zenon DEF ConfId, IdValid
  <2>2. Only(c, [c EXCEPT ![f] = Decimal[v]], f) /\ [c EXCEPT ![f] = Decimal[v]][f] = Decimal[v]
    BY FieldSet
  <2>3. IdOf(ids, v) = Decimal[v]
    BY <1>3 DEF IdOf
  <2>. QED BY <1>3, <2>1, <2>2, <2>3, Zenon
<1>4. CASE database /\ v \notin DOMAIN ids /\ ~IdValid(ids, v)
  <2>1. ConfId(c, f, ids, v) = c
    BY <1>4, Zenon DEF ConfId, IdValid
  <2>. QED BY <1>4, <2>1, FieldKept, Zenon
<1>. QED BY <1>1, <1>2, <1>3, <1>4

(* A flag.                                                                   *)
LEMMA NosidSets ==
  ASSUME NEW c, IsConf(c), NEW v
  PROVE  /\ Only(c, ConfNosid(c, v), "nosid")
         /\ ConfNosid(c, v)["nosid"] = IF v = NULL THEN TRUE ELSE c["nosid"]
<1>1. "nosid" \in ConfNames
  BY DEF ConfNames
<1>2. /\ Only(c, [c EXCEPT !["nosid"] = TRUE], "nosid")
      /\ [c EXCEPT !["nosid"] = TRUE]["nosid"] = TRUE
  BY <1>1, FieldSet
<1>. QED BY <1>2, FieldKept DEF ConfNosid

(* A priority.                                                               *)
LEMMA PrioritySets ==
  ASSUME NEW c, IsConf(c), NEW v
  PROVE  /\ Only(c, ConfPriority(c, v), "priority")
         /\ ConfPriority(c, v)["priority"] =
              IF PriorityValid(v) THEN Decimal[v] ELSE c["priority"]
<1>1. "priority" \in ConfNames
  BY DEF ConfNames
<1>2. /\ Only(c, [c EXCEPT !["priority"] = Decimal[v]], "priority")
      /\ [c EXCEPT !["priority"] = Decimal[v]]["priority"] = Decimal[v]
  BY <1>1, FieldSet
<1>. QED BY <1>2, FieldKept DEF ConfPriority, PriorityValid

(* And a umask.                                                              *)
LEMMA UmaskSets ==
  ASSUME NEW c, IsConf(c), NEW v
  PROVE  /\ Only(c, ConfUmask(c, v), "umask")
         /\ ConfUmask(c, v)["umask"] =
              IF v \in DOMAIN Octal THEN Octal[v] % 512 ELSE c["umask"]
<1>1. "umask" \in ConfNames
  BY DEF ConfNames
<1>2. /\ Only(c, [c EXCEPT !["umask"] = Octal[v] % 512], "umask")
      /\ [c EXCEPT !["umask"] = Octal[v] % 512]["umask"] = Octal[v] % 512
  BY <1>1, FieldSet
<1>. QED BY <1>2, FieldKept DEF ConfUmask

(* What the general section's part of the configuration becomes. *)
GeneralBecomes(c, key, v, r) ==
  /\ r.path = IF key = <<"path">> /\ Absolute(v) THEN v ELSE c.path
  /\ r.workdir = IF key = <<"workdir">> /\ Absolute(v) THEN v ELSE c.workdir
  /\ r.in = IF key = <<"stdin">> /\ Absolute(v) THEN v ELSE c.in
  /\ r.out = IF key = <<"stdout">> /\ Absolute(v) THEN v ELSE c.out
  /\ r.err = IF key = <<"stderr">> /\ Absolute(v) THEN v ELSE c.err
  /\ database =>
       /\ r.uid = IF key = <<"user">> /\ IdValid(Users, v) THEN IdOf(Users, v) ELSE c.uid
       /\ r.gid = IF key = <<"group">> /\ IdValid(Groups, v) THEN IdOf(Groups, v) ELSE c.gid
  /\ r.nosid = IF key = <<"nosid">> /\ v = NULL THEN TRUE ELSE c.nosid
  /\ r.priority = IF key = <<"priority">> /\ PriorityValid(v) THEN Decimal[v] ELSE c.priority
  /\ r.umask = IF key = <<"umask">> /\ v \in DOMAIN Octal THEN Octal[v] % 512 ELSE c.umask
  /\ r.sigfinish = IF key = <<"sigfinish">> /\ IsSignal(v) THEN SignalOf(v) ELSE c.sigfinish
  /\ r.sigreload = IF key = <<"sigreload">> /\ IsSignal(v) THEN SignalOf(v) ELSE c.sigreload

(* Words differ as their letters do.                                         *)
LEMMA WordNames ==
  ASSUME NEW a, NEW b, <<a>> = <<b>> PROVE a = b
<1>1. <<a>>[1] = <<b>>[1]
  OBVIOUS
<1>. QED BY <1>1

(* A key of the general section sets its own field, if its value is valid.   *)
LEMMA GeneralSets ==
  ASSUME NEW c, IsConf(c), NEW key, NEW v, NEW r, r = ParseGeneral(c, key, v)
  PROVE  /\ IsConf(r) /\ r.environment = c.environment /\ r.start = c.start
         /\ r.arguments = c.arguments
         /\ GeneralBecomes(c, key, v, r)
<1>1. DOMAIN PathField = {<<"path">>, <<"workdir">>, <<"stdin">>, <<"stdout">>, <<"stderr">>}
  BY DEF PathField
<1>2. CASE key = <<"path">>
  <2>1. \A w : key = <<w>> => w = "path"
    BY <1>2, WordNames
  <2>2. PathField[key] = "path" /\ key \in DOMAIN PathField
    BY <1>2, <2>1 DEF PathField
  <2>3. r = ConfPath(c, "path", v)
    BY <2>1, <2>2 DEF ParseGeneral
  <2>4. Only(c, r, "path") /\ r["path"] = IF Absolute(v) THEN v ELSE c["path"]
    BY <2>3, PathSets DEF ConfNames
  <2>. QED BY <1>2, <2>1, <2>4 DEF Only, ConfNames, GeneralBecomes
<1>3. CASE key = <<"workdir">>
  <2>1. \A w : key = <<w>> => w = "workdir"
    BY <1>3, WordNames
  <2>2. PathField[key] = "workdir" /\ key \in DOMAIN PathField
    BY <1>3, <2>1 DEF PathField
  <2>3. r = ConfPath(c, "workdir", v)
    BY <2>1, <2>2 DEF ParseGeneral
  <2>4. Only(c, r, "workdir") /\ r["workdir"] = IF Absolute(v) THEN v ELSE c["workdir"]
    BY <2>3, PathSets DEF ConfNames
  <2>. QED BY <1>3, <2>1, <2>4 DEF Only, ConfNames, GeneralBecomes
<1>4. CASE key = <<"stdin">>
  <2>1. \A w : key = <<w>> => w = "stdin"
    BY <1>4, WordNames
  <2>2. PathField[key] = "in" /\ key \in DOMAIN PathField
    BY <1>4, <2>1 DEF PathField
  <2>3. r = ConfPath(c, "in", v)
    BY <2>1, <2>2 DEF ParseGeneral
  <2>4. Only(c, r, "in") /\ r["in"] = IF Absolute(v) THEN v ELSE c["in"]
    BY <2>3, PathSets DEF ConfNames
  <2>. QED BY <1>4, <2>1, <2>4 DEF Only, ConfNames, GeneralBecomes
<1>5. CASE key = <<"stdout">>
  <2>1. \A w : key = <<w>> => w = "stdout"
    BY <1>5, WordNames
  <2>2. PathField[key] = "out" /\ key \in DOMAIN PathField
    BY <1>5, <2>1 DEF PathField
  <2>3. r = ConfPath(c, "out", v)
    BY <2>1, <2>2 DEF ParseGeneral
  <2>4. Only(c, r, "out") /\ r["out"] = IF Absolute(v) THEN v ELSE c["out"]
    BY <2>3, PathSets DEF ConfNames
  <2>. QED BY <1>5, <2>1, <2>4 DEF Only, ConfNames, GeneralBecomes
<1>6. CASE key = <<"stderr">>
  <2>1. \A w : key = <<w>> => w = "stderr"
    BY <1>6, WordNames
  <2>2. PathField[key] = "err" /\ key \in DOMAIN PathField
    BY <1>6, <2>1 DEF PathField
  <2>3. r = ConfPath(c, "err", v)
    BY <2>1, <2>2 DEF ParseGeneral
  <2>4. Only(c, r, "err") /\ r["err"] = IF Absolute(v) THEN v ELSE c["err"]
    BY <2>3, PathSets DEF ConfNames
  <2>. QED BY <1>6, <2>1, <2>4 DEF Only, ConfNames, GeneralBecomes
<1>7. CASE key = <<"user">>
  <2>1. \A w : key = <<w>> => w = "user"
    BY <1>7, WordNames
  <2>2. key \notin DOMAIN PathField
    BY <1>1, <2>1
  <2>3. r = ConfUser(c, v)
    BY <1>7, <2>1, <2>2 DEF ParseGeneral
  <2>4. /\ Only(c, r, "uid")
        /\ database => r["uid"] = IF IdValid(Users, v) THEN IdOf(Users, v) ELSE c["uid"]
    BY <2>3, IdSets DEF ConfUser, ConfNames
  <2>. QED BY <1>7, <2>1, <2>4 DEF Only, ConfNames, GeneralBecomes
<1>8. CASE key = <<"group">>
  <2>1. \A w : key = <<w>> => w = "group"
    BY <1>8, WordNames
  <2>2. key \notin DOMAIN PathField
    BY <1>1, <2>1
  <2>3. r = ConfGroup(c, v)
    BY <1>8, <2>1, <2>2 DEF ParseGeneral
  <2>4. /\ Only(c, r, "gid")
        /\ database => r["gid"] = IF IdValid(Groups, v) THEN IdOf(Groups, v) ELSE c["gid"]
    BY <2>3, IdSets DEF ConfGroup, ConfNames
  <2>. QED BY <1>8, <2>1, <2>4 DEF Only, ConfNames, GeneralBecomes
<1>9. CASE key = <<"nosid">>
  <2>1. \A w : key = <<w>> => w = "nosid"
    BY <1>9, WordNames
  <2>2. key \notin DOMAIN PathField
    BY <1>1, <2>1
  <2>3. r = ConfNosid(c, v)
    BY <1>9, <2>1, <2>2 DEF ParseGeneral
  <2>4. /\ Only(c, r, "nosid")
        /\ r["nosid"] = IF v = NULL THEN TRUE ELSE c["nosid"]
    BY <2>3, NosidSets DEF ConfNames
  <2>. QED BY <1>9, <2>1, <2>4 DEF Only, ConfNames, GeneralBecomes
<1>10. CASE key = <<"priority">>
  <2>1. \A w : key = <<w>> => w = "priority"
    BY <1>10, WordNames
  <2>2. key \notin DOMAIN PathField
    BY <1>1, <2>1
  <2>3. r = ConfPriority(c, v)
    BY <1>10, <2>1, <2>2 DEF ParseGeneral
  <2>4. /\ Only(c, r, "priority")
        /\ r["priority"] = IF PriorityValid(v) THEN Decimal[v] ELSE c["priority"]
    BY <2>3, PrioritySets DEF ConfNames
  <2>. QED BY <1>10, <2>1, <2>4 DEF Only, ConfNames, GeneralBecomes
<1>11. CASE key = <<"umask">>
  <2>1. \A w : key = <<w>> => w = "umask"
    BY <1>11, WordNames
  <2>2. key \notin DOMAIN PathField
    BY <1>1, <2>1
  <2>3. r = ConfUmask(c, v)
    BY <1>11, <2>1, <2>2 DEF ParseGeneral
  <2>4. /\ Only(c, r, "umask")
        /\ r["umask"] = IF v \in DOMAIN Octal THEN Octal[v] % 512 ELSE c["umask"]
    BY <2>3, UmaskSets DEF ConfNames
  <2>. QED BY <1>11, <2>1, <2>4 DEF Only, ConfNames, GeneralBecomes
<1>12. CASE key = <<"sigfinish">>
  <2>1. \A w : key = <<w>> => w = "sigfinish"
    BY <1>12, WordNames
  <2>2. key \notin DOMAIN PathField
    BY <1>1, <2>1
  <2>3. r = ConfSignal(c, "sigfinish", v)
    BY <1>12, <2>1, <2>2 DEF ParseGeneral
  <2>4. /\ Only(c, r, "sigfinish")
        /\ r["sigfinish"] = IF IsSignal(v) THEN SignalOf(v) ELSE c["sigfinish"]
    BY <2>3, SignalSets DEF ConfNames
  <2>. QED BY <1>12, <2>1, <2>4 DEF Only, ConfNames, GeneralBecomes
<1>13. CASE key = <<"sigreload">>
  <2>1. \A w : key = <<w>> => w = "sigreload"
    BY <1>13, WordNames
  <2>2. key \notin DOMAIN PathField
    BY <1>1, <2>1
  <2>3. r = ConfSignal(c, "sigreload", v)
    BY <1>13, <2>1, <2>2 DEF ParseGeneral
  <2>4. /\ Only(c, r, "sigreload")
        /\ r["sigreload"] = IF IsSignal(v) THEN SignalOf(v) ELSE c["sigreload"]
    BY <2>3, SignalSets DEF ConfNames
  <2>. QED BY <1>13, <2>1, <2>4 DEF Only, ConfNames, GeneralBecomes
<1>14. CASE key \notin {<<"path">>, <<"workdir">>, <<"stdin">>, <<"stdout">>, <<"stderr">>, <<"user">>,
                     <<"group">>, <<"nosid">>, <<"priority">>, <<"umask">>, <<"sigfinish">>, <<"sigreload">>}
  <2>1. r = c
    BY <1>1, <1>14 DEF ParseGeneral
  <2>. QED BY <1>14, <2>1 DEF GeneralBecomes
<1>. QED BY <1>2, <1>3, <1>4, <1>5, <1>6, <1>7, <1>8, <1>9, <1>10, <1>11, <1>12, <1>13, <1>14

(* What a line adds to the lines of the general section.                     *)
GeneralGrows ==
  /\ line \in Nat /\ file' = file
  /\ LinesOf(General) \subseteq 1..line - 1
  /\ LinesOf(General)' = LinesOf(General) \cup {line}

(* A line which counts is the last of those which do.                        *)
LEMMA NewestCounts ==
  ASSUME NEW n \in Nat, NEW S, S \subseteq 1..n - 1
  PROVE  Max(S \cup {n}) = n
<1>1. n \in Int /\ S \subseteq Int /\ \A y \in S : y <= n
  OBVIOUS
<1>. QED BY <1>1, MaxOfLast

(* What the last valid value of a key is, when a line is added.              *)
LEMMA LatestPathGrows ==
  ASSUME GeneralGrows, NEW k
  PROVE  LatestPath(k)' = IF Key(line) = <<k>> /\ Absolute(Value(line))
                          THEN Value(line) ELSE LatestPath(k)
<1>. DEFINE S == {i \in LinesOf(General) : Key(i) = <<k>> /\ Absolute(Value(i))}
            T == {i \in LinesOf(General)' : Key(i) = <<k>> /\ Absolute(Value(i))}
            b == Key(line) = <<k>> /\ Absolute(Value(line))
<1>1. b \in BOOLEAN /\ S \subseteq 1..line - 1 /\ line \in Nat /\ T = IF b THEN S \cup {line} ELSE S
  BY DEF GeneralGrows
<1>2. \A i : Key(i)' = Key(i) /\ Value(i)' = Value(i)
  BY DEF GeneralGrows, Key, Value
<1>3. LatestPath(k) = IF S = {} THEN NULL ELSE Value(Max(S))
  BY DEF LatestPath, Latest
<1>4. LatestPath(k)' = IF T = {} THEN NULL ELSE Value(Max(T))
  BY <1>2 DEF LatestPath, Latest, GeneralGrows
<1>5. IF b THEN T # {} /\ Max(T) = line ELSE T = S
  <2>1. S \subseteq 1..line - 1 /\ line \in Nat /\ (IF b THEN T = S \cup {line} ELSE T = S)
    BY <1>1
  <2>. HIDE DEF S, T, b
  <2>2. Max(S \cup {line}) = line
    BY <2>1, NewestCounts
  <2>. QED BY <2>1, <2>2
<1>. HIDE DEF S, T
<1>. QED BY <1>3, <1>4, <1>5

(* The same for a user or a group.                                           *)
LEMMA LatestIdGrows ==
  ASSUME GeneralGrows, NEW k, NEW ids
  PROVE  LatestId(k, ids)' = IF Key(line) = <<k>> /\ IdValid(ids, Value(line))
                             THEN IdOf(ids, Value(line)) ELSE LatestId(k, ids)
<1>. DEFINE S == {i \in LinesOf(General) : Key(i) = <<k>> /\ IdValid(ids, Value(i))}
            T == {i \in LinesOf(General)' : Key(i) = <<k>> /\ IdValid(ids, Value(i))}
            b == Key(line) = <<k>> /\ IdValid(ids, Value(line))
<1>1. b \in BOOLEAN /\ S \subseteq 1..line - 1 /\ line \in Nat /\ T = IF b THEN S \cup {line} ELSE S
  BY DEF GeneralGrows
<1>2. \A i : Key(i)' = Key(i) /\ Value(i)' = Value(i)
  BY DEF GeneralGrows, Key, Value
<1>3. LatestId(k, ids) = IF S = {} THEN 0 ELSE IdOf(ids, Value(Max(S)))
  BY DEF LatestId, Latest, IdValid, IdOf
<1>4. LatestId(k, ids)' = IF T = {} THEN 0 ELSE IdOf(ids, Value(Max(T)))
  BY <1>2 DEF LatestId, Latest, GeneralGrows, IdValid, IdOf
<1>5. IF b THEN T # {} /\ Max(T) = line ELSE T = S
  <2>1. S \subseteq 1..line - 1 /\ line \in Nat /\ (IF b THEN T = S \cup {line} ELSE T = S)
    BY <1>1
  <2>. HIDE DEF S, T, b
  <2>2. Max(S \cup {line}) = line
    BY <2>1, NewestCounts
  <2>. QED BY <2>1, <2>2
<1>. HIDE DEF S, T
<1>. QED BY <1>3, <1>4, <1>5

(* The same for a signal.                                                    *)
LEMMA LatestSignalGrows ==
  ASSUME GeneralGrows, NEW k, NEW d
  PROVE  LatestSignal(k, d)' = IF Key(line) = <<k>> /\ IsSignal(Value(line))
                               THEN SignalOf(Value(line)) ELSE LatestSignal(k, d)
<1>. DEFINE S == {i \in LinesOf(General) : Key(i) = <<k>> /\ IsSignal(Value(i))}
            T == {i \in LinesOf(General)' : Key(i) = <<k>> /\ IsSignal(Value(i))}
            b == Key(line) = <<k>> /\ IsSignal(Value(line))
<1>1. b \in BOOLEAN /\ S \subseteq 1..line - 1 /\ line \in Nat /\ T = IF b THEN S \cup {line} ELSE S
  BY DEF GeneralGrows
<1>2. \A i : Key(i)' = Key(i) /\ Value(i)' = Value(i)
  BY DEF GeneralGrows, Key, Value
<1>3. LatestSignal(k, d) = IF S = {} THEN d ELSE SignalOf(Value(Max(S)))
  BY DEF LatestSignal, Latest
<1>4. LatestSignal(k, d)' = IF T = {} THEN d ELSE SignalOf(Value(Max(T)))
  BY <1>2 DEF LatestSignal, Latest, GeneralGrows
<1>5. IF b THEN T # {} /\ Max(T) = line ELSE T = S
  <2>1. S \subseteq 1..line - 1 /\ line \in Nat /\ (IF b THEN T = S \cup {line} ELSE T = S)
    BY <1>1
  <2>. HIDE DEF S, T, b
  <2>2. Max(S \cup {line}) = line
    BY <2>1, NewestCounts
  <2>. QED BY <2>1, <2>2
<1>. HIDE DEF S, T
<1>. QED BY <1>3, <1>4, <1>5

LatestPriority ==
  Latest("priority",
         LAMBDA v : v \in DOMAIN Decimal /\ Decimal[v] \in -20..19, LAMBDA v : Decimal[v], 0)
LatestUmask == Latest("umask", LAMBDA v : v \in DOMAIN Octal, LAMBDA v : Octal[v] % 512, 18)

(* The same for the priority.                                                *)
LEMMA LatestPriorityGrows ==
  ASSUME GeneralGrows
  PROVE  LatestPriority' = IF Key(line) = <<"priority">> /\ PriorityValid(Value(line))
                           THEN Decimal[Value(line)] ELSE LatestPriority
<1>. DEFINE S == {i \in LinesOf(General) : Key(i) = <<"priority">> /\ PriorityValid(Value(i))}
            T == {i \in LinesOf(General)' : Key(i) = <<"priority">> /\ PriorityValid(Value(i))}
            b == Key(line) = <<"priority">> /\ PriorityValid(Value(line))
<1>1. b \in BOOLEAN /\ S \subseteq 1..line - 1 /\ line \in Nat /\ T = IF b THEN S \cup {line} ELSE S
  BY DEF GeneralGrows
<1>2. \A i : Key(i)' = Key(i) /\ Value(i)' = Value(i)
  BY DEF GeneralGrows, Key, Value
<1>3. LatestPriority = IF S = {} THEN 0 ELSE Decimal[Value(Max(S))]
  BY DEF LatestPriority, Latest, PriorityValid
<1>4. LatestPriority' = IF T = {} THEN 0 ELSE Decimal[Value(Max(T))]
  BY <1>2 DEF LatestPriority, Latest, GeneralGrows, PriorityValid
<1>5. IF b THEN T # {} /\ Max(T) = line ELSE T = S
  <2>1. S \subseteq 1..line - 1 /\ line \in Nat /\ (IF b THEN T = S \cup {line} ELSE T = S)
    BY <1>1
  <2>. HIDE DEF S, T, b
  <2>2. Max(S \cup {line}) = line
    BY <2>1, NewestCounts
  <2>. QED BY <2>1, <2>2
<1>. HIDE DEF S, T
<1>. QED BY <1>3, <1>4, <1>5

(* The same for the umask.                                                   *)
LEMMA LatestUmaskGrows ==
  ASSUME GeneralGrows
  PROVE  LatestUmask' = IF Key(line) = <<"umask">> /\ Value(line) \in DOMAIN Octal
                        THEN Octal[Value(line)] % 512 ELSE LatestUmask
<1>. DEFINE S == {i \in LinesOf(General) : Key(i) = <<"umask">> /\ Value(i) \in DOMAIN Octal}
            T == {i \in LinesOf(General)' : Key(i) = <<"umask">> /\ Value(i) \in DOMAIN Octal}
            b == Key(line) = <<"umask">> /\ Value(line) \in DOMAIN Octal
<1>1. b \in BOOLEAN /\ S \subseteq 1..line - 1 /\ line \in Nat /\ T = IF b THEN S \cup {line} ELSE S
  BY DEF GeneralGrows
<1>2. \A i : Key(i)' = Key(i) /\ Value(i)' = Value(i)
  BY DEF GeneralGrows, Key, Value
<1>3. LatestUmask = IF S = {} THEN 18 ELSE Octal[Value(Max(S))] % 512
  BY DEF LatestUmask, Latest
<1>4. LatestUmask' = IF T = {} THEN 18 ELSE Octal[Value(Max(T))] % 512
  BY <1>2 DEF LatestUmask, Latest, GeneralGrows
<1>5. IF b THEN T # {} /\ Max(T) = line ELSE T = S
  <2>1. S \subseteq 1..line - 1 /\ line \in Nat /\ (IF b THEN T = S \cup {line} ELSE T = S)
    BY <1>1
  <2>. HIDE DEF S, T, b
  <2>2. Max(S \cup {line}) = line
    BY <2>1, NewestCounts
  <2>. QED BY <2>1, <2>2
<1>. HIDE DEF S, T
<1>. QED BY <1>3, <1>4, <1>5

(* A line of the general section is taken into it as it is meant.            *)
LEMMA GeneralAdds ==
  ASSUME GeneralGrows, database' = database, GeneralAsMeant,
         GeneralBecomes(conf, Key(line), Value(line), conf')
  PROVE  GeneralAsMeant'
<1>1. \A k : LatestPath(k)' = IF Key(line) = <<k>> /\ Absolute(Value(line))
                              THEN Value(line) ELSE LatestPath(k)
  BY LatestPathGrows
<1>2. /\ conf'.path = LatestPath("path")' /\ conf'.workdir = LatestPath("workdir")'
      /\ conf'.in = LatestPath("stdin")' /\ conf'.out = LatestPath("stdout")'
      /\ conf'.err = LatestPath("stderr")'
  BY <1>1 DEF GeneralBecomes, GeneralAsMeant
<1>3. database' => /\ conf'.uid = LatestId("user", Users)'
                   /\ conf'.gid = LatestId("group", Groups)'
  BY LatestIdGrows DEF GeneralBecomes, GeneralAsMeant
<1>4. conf'.priority = LatestPriority' /\ conf'.umask = LatestUmask'
  <2>1. conf.priority = LatestPriority /\ conf.umask = LatestUmask
    BY DEF GeneralAsMeant, LatestPriority, LatestUmask
  <2>. QED BY <2>1, LatestPriorityGrows, LatestUmaskGrows DEF GeneralBecomes
<1>5. conf'.nosid = \E i \in LinesOf(General)' : Key(i)' = <<"nosid">> /\ Value(i)' = NULL
  <2>1. \A i : Key(i)' = Key(i) /\ Value(i)' = Value(i)
    BY DEF GeneralGrows, Key, Value
  <2>2. conf.nosid = \E i \in LinesOf(General) : Key(i) = <<"nosid">> /\ Value(i) = NULL
    BY DEF GeneralAsMeant
  <2>3. CASE Key(line) = <<"nosid">> /\ Value(line) = NULL
    <3>1. conf'.nosid = TRUE
      BY <2>3 DEF GeneralBecomes
    <3>2. \E i \in LinesOf(General)' : Key(i)' = <<"nosid">> /\ Value(i)' = NULL
      BY <2>1, <2>3 DEF GeneralGrows
    <3>. QED BY <3>1, <3>2
  <2>4. CASE ~(Key(line) = <<"nosid">> /\ Value(line) = NULL)
    <3>1. conf'.nosid = conf.nosid
      BY <2>4 DEF GeneralBecomes
    <3>2. (\E i \in LinesOf(General)' : Key(i)' = <<"nosid">> /\ Value(i)' = NULL)
            <=> \E i \in LinesOf(General) : Key(i) = <<"nosid">> /\ Value(i) = NULL
      BY <2>1, <2>4 DEF GeneralGrows
    <3>. QED BY <2>2, <3>1, <3>2
  <2>. QED BY <2>3, <2>4
<1>6. /\ conf'.sigfinish = LatestSignal("sigfinish", DefaultConf.sigfinish)'
      /\ conf'.sigreload = LatestSignal("sigreload", DefaultConf.sigreload)'
  <2>1. \A k, d : LatestSignal(k, d)' = IF Key(line) = <<k>> /\ IsSignal(Value(line))
                                        THEN SignalOf(Value(line)) ELSE LatestSignal(k, d)
    BY LatestSignalGrows
  <2>. QED BY <2>1 DEF GeneralBecomes, GeneralAsMeant
<1>. QED BY <1>2, <1>3, <1>4, <1>5, <1>6 DEF GeneralAsMeant, LatestPriority, LatestUmask

(* What does not belong to it leaves it as it is.                            *)
LEMMA GeneralKept ==
  ASSUME GeneralAsMeant, UNCHANGED <<file, database>>, LinesOf(General)' = LinesOf(General),
         \A f \in ConfNames \ {"arguments", "environment", "start"} : conf'[f] = conf[f]
  PROVE  GeneralAsMeant'
<1>1. \A i : Key(i)' = Key(i) /\ Value(i)' = Value(i)
  BY DEF Key, Value
<1>2. \A k : LatestPath(k)' = LatestPath(k)
  BY <1>1 DEF LatestPath, Latest
<1>3. \A k, ids : LatestId(k, ids)' = LatestId(k, ids)
  BY <1>1 DEF LatestId, Latest
<1>4. \A k, d : LatestSignal(k, d)' = LatestSignal(k, d)
  BY <1>1 DEF LatestSignal, Latest
<1>5. LatestPriority' = LatestPriority /\ LatestUmask' = LatestUmask
  <2>1. LatestPriority' = LatestPriority
    BY <1>1 DEF LatestPriority, Latest
  <2>2. LatestUmask' = LatestUmask
    BY <1>1 DEF LatestUmask, Latest
  <2>. QED BY <2>1, <2>2
<1>6. /\ conf'.path = conf.path /\ conf'.workdir = conf.workdir /\ conf'.in = conf.in
      /\ conf'.out = conf.out /\ conf'.err = conf.err /\ conf'.uid = conf.uid
      /\ conf'.gid = conf.gid /\ conf'.nosid = conf.nosid /\ conf'.priority = conf.priority
      /\ conf'.umask = conf.umask /\ conf'.sigfinish = conf.sigfinish
      /\ conf'.sigreload = conf.sigreload
  BY DEF ConfNames
<1>7. conf.priority = LatestPriority /\ conf.umask = LatestUmask
  BY DEF GeneralAsMeant, LatestPriority, LatestUmask
<1>8. conf'.priority = LatestPriority' /\ conf'.umask = LatestUmask'
  BY <1>5, <1>6, <1>7
<1>9. conf'.nosid = \E i \in LinesOf(General)' : Key(i)' = <<"nosid">> /\ Value(i)' = NULL
  BY <1>1, <1>6 DEF GeneralAsMeant
<1>. QED BY <1>2, <1>3, <1>6, <1>8, <1>9, <1>4 DEF GeneralAsMeant, LatestPriority, LatestUmask

(* The environment too.                                                      *)
LEMMA EnvironmentKept ==
  ASSUME EnvironmentAsMeant, UNCHANGED file, LinesOf(Environment)' = LinesOf(Environment),
         conf'.environment = conf.environment
  PROVE  EnvironmentAsMeant'
<1>1. \A i : Environ(i)' = Environ(i) /\ Rank(i)' = Rank(i)
  BY DEF Environ, Rank, Key, Value
<1>. QED BY <1>1 DEF EnvironmentAsMeant

(* And the start flags.                                                      *)
LEMMA StartKept ==
  ASSUME StartAsMeant, UNCHANGED file, LinesOf(Start)' = LinesOf(Start), conf'.start = conf.start
  PROVE  StartAsMeant'
<1>1. \A i : Key(i)' = Key(i) /\ Value(i)' = Value(i)
  BY DEF Key, Value
<1>. QED BY <1>1 DEF StartAsMeant

(* A line of the environment is its last variable.                           *)
LEMMA EnvironmentAdds ==
  ASSUME EnvironmentAsMeant, UNCHANGED file, line \in Nat,
         LinesOf(Environment) \subseteq 1..line - 1,
         LinesOf(Environment)' = LinesOf(Environment) \cup {line},
         NEW S, conf.environment \in Seq(S), Environ(line) \in S,
         conf'.environment = Append(conf.environment, Environ(line))
  PROVE  EnvironmentAsMeant'
<1>. DEFINE L == LinesOf(Environment)
            Upto(i) == {j \in L : j <= i}
            n == Cardinality(L)
<1>1. IsFiniteSet(L) /\ n \in Nat /\ line \notin L
  <2>1. IsFiniteSet(1..line - 1)
    BY FS_Interval
  <2>2. IsFiniteSet(L)
    BY <2>1, FS_Subset
  <2>. QED BY <2>2, FS_CardinalityType
<1>2. IsFiniteSet(L \cup {line}) /\ Cardinality(L \cup {line}) = n + 1
  BY <1>1, FS_AddElement
<1>3. Len(conf.environment) = n /\ \A i \in L : conf.environment[Rank(i)] = Environ(i)
  BY DEF EnvironmentAsMeant
<1>4. /\ Len(conf'.environment) = n + 1 /\ conf'.environment[n + 1] = Environ(line)
      /\ \A k \in 1..n : conf'.environment[k] = conf.environment[k]
  <2>1. PICK e : e = conf.environment
    OBVIOUS
  <2>2. PICK x : x = Environ(line)
    OBVIOUS
  <2>3. e \in Seq(S) /\ x \in S /\ Len(e) = n
    BY <1>3, <2>1, <2>2
  <2>4. /\ Len(Append(e, x)) = n + 1 /\ Append(e, x)[n + 1] = x
        /\ \A k \in 1..n : Append(e, x)[k] = e[k]
    BY <2>3, AppendProperties
  <2>5. conf'.environment = Append(e, x)
    BY <2>1, <2>2
  <2>. QED BY <2>1, <2>2, <2>4, <2>5
<1>5. \A i : Environ(i)' = Environ(i)
  BY DEF Environ, Key, Value
<1>6. ASSUME NEW i \in L
      PROVE  Rank(i)' = Rank(i) /\ Rank(i) \in 1..n
  <2>1. i \in 1..line - 1
    OBVIOUS
  <2>2. {j \in L \cup {line} : j <= i} = Upto(i)
    BY <2>1
  <2>3. Rank(i)' = Cardinality({j \in L \cup {line} : j <= i}) /\ Rank(i) = Cardinality(Upto(i))
    BY DEF Rank
  <2>4. IsFiniteSet(Upto(i)) /\ Cardinality(Upto(i)) <= n /\ Cardinality(Upto(i)) \in Nat
    <3>1. Upto(i) \in SUBSET L
      OBVIOUS
    <3>. HIDE DEF Upto, L
    <3>. QED BY <1>1, <3>1, FS_Subset, FS_CardinalityType DEF L
  <2>5. Cardinality(Upto(i)) # 0
    <3>1. i \in Upto(i)
      BY <2>1
    <3>. HIDE DEF Upto
    <3>. QED BY <2>4, <3>1, FS_EmptySet
  <2>6. Rank(i)' = Rank(i)
    BY <2>2, <2>3
  <2>7. Rank(i) \in 1..n
    <3>. HIDE DEF Upto, n
    <3>. QED BY <1>1, <2>3, <2>4, <2>5
  <2>. QED BY <2>6, <2>7
<1>7. ASSUME NEW i, i = line PROVE Rank(i)' = n + 1
  <2>1. {j \in L \cup {line} : j <= i} = L \cup {line}
    BY <1>7
  <2>. QED BY <1>2, <1>7, <2>1 DEF Rank
<1>8. ASSUME NEW i \in L \cup {line} PROVE conf'.environment[Rank(i)'] = Environ(i)'
  <2>1. CASE i \in L
    BY <1>3, <1>4, <1>5, <1>6, <2>1
  <2>2. CASE i = line
    BY <1>4, <1>5, <1>7, <2>2
  <2>. QED BY <2>1, <2>2
<1>. QED BY <1>2, <1>4, <1>8 DEF EnvironmentAsMeant

(* A line of the start section adds its flags.                               *)
LEMMA StartAdds ==
  ASSUME StartAsMeant, UNCHANGED file, LinesOf(Start)' = LinesOf(Start) \cup {line},
         conf'.start = IF Value(line) = NULL THEN conf.start \cup StartFlags(Key(line))
                       ELSE conf.start
  PROVE  StartAsMeant'
<1>1. \A i : Key(i)' = Key(i) /\ Value(i)' = Value(i)
  BY DEF Key, Value
<1>. DEFINE A == {StartFlags(Key(i)) : i \in {j \in LinesOf(Start) : Value(j) = NULL}}
            B == {StartFlags(Key(i)) : i \in {j \in LinesOf(Start) \cup {line} : Value(j) = NULL}}
<1>2. conf.start = UNION A
  BY DEF StartAsMeant
<1>3. IF Value(line) = NULL THEN B = A \cup {StartFlags(Key(line))} ELSE B = A
  OBVIOUS
<1>4. conf'.start = UNION B
  <2>. HIDE DEF A, B
  <2>1. UNION (A \cup {StartFlags(Key(line))}) = (UNION A) \cup StartFlags(Key(line))
    OBVIOUS
  <2>. QED BY <1>2, <1>3, <2>1
<1>. QED BY <1>1, <1>4 DEF StartAsMeant

(* What is configured of a daemon, and that it is as meant as long as no     *)
(* line was misread.                                                         *)
ConfInv == IsConf(conf) /\ conf.environment \in Seq(Text \X Text)

AsMeant == section = InSection /\ GeneralAsMeant /\ EnvironmentAsMeant /\ StartAsMeant

FileInv ==
  /\ LineInv /\ section \in Sections \cup {NULL} /\ ConfInv
  /\ NoneMisread => AsMeant

(* A line which is read is text, and is not misread if none is.              *)
LEMMA LineRead ==
  ASSUME LineInv, NextLine
  PROVE  /\ line \in Nat /\ line' = line + 1 /\ UNCHANGED <<file, database>> /\ LineInv'
         /\ Read.key \in Text /\ (Read.value \in Text \/ Read.value = NULL)
         /\ NoneMisread' => NoneMisread /\ Read = Meaning(file[line])
<1>1. /\ line \in 1..Len(file) /\ line' = line + 1 /\ file' = file /\ database' = database
      /\ file \in Seq(Seq(STRING)) /\ Len(file) \in Nat
  BY DEF LineInv, FileType, NextLine
<1>2. file[line] \in Text
  BY <1>1 DEF Text
<1>3. Read.key \in Text /\ (Read.value \in Text \/ Read.value = NULL)
  BY <1>2, ParsedType DEF Read, Text
<1>4. NoneMisread' => NoneMisread /\ ~Misread(file[line])
  <2>1. 1..line' - 1 = 1..line /\ 1..line - 1 \subseteq 1..line /\ line \in 1..line
    BY <1>1
  <2>. QED BY <1>1, <2>1 DEF NoneMisread
<1>5. ~Misread(file[line]) => Read = Meaning(file[line])
  BY <1>2, ParsedMeans DEF Read, Text
<1>6. LineInv'
  BY <1>1 DEF LineInv, FileType
<1>. QED BY <1>1, <1>3, <1>4, <1>5, <1>6

(* A key in its section changes the configuration as it is meant to.         *)
LEMMA ValueStep ==
  ASSUME FileInv, ReadValue
  PROVE  /\ ConfInv'
         /\ NoneMisread' => GeneralAsMeant' /\ EnvironmentAsMeant' /\ StartAsMeant'
<1>1. /\ NextLine /\ ~Read.section /\ section # NULL /\ Read.key # << >> /\ UNCHANGED section
      /\ section \in {General, Environment, Start}
  BY DEF ReadValue, Skips, FileInv, Sections
<1>2. /\ line \in Nat /\ line' = line + 1 /\ UNCHANGED <<file, database>>
      /\ Read.key \in Text /\ (Read.value \in Text \/ Read.value = NULL)
      /\ NoneMisread' => NoneMisread /\ Read = Meaning(file[line])
  BY <1>1, LineRead DEF FileInv
<1>3. General # Environment /\ General # Start /\ Environment # Start
  BY WordNames DEF General, Environment, Start
<1>4. NoneMisread' => /\ Key(line) = Read.key /\ Value(line) = Read.value
                      /\ section = InSection
                      /\ GeneralAsMeant /\ EnvironmentAsMeant /\ StartAsMeant
  BY <1>2 DEF Key, Value, FileInv, AsMeant
<1>5. NoneMisread' =>
        \A s \in Sections :
          /\ LinesOf(s)' = IF section = s THEN LinesOf(s) \cup {line} ELSE LinesOf(s)
          /\ LinesOf(s) \subseteq 1..line - 1
  BY <1>1, <1>2, <1>4, LinesGrow DEF FileInv
<1>6. IsConf(conf) /\ conf.environment \in Seq(Text \X Text)
  BY DEF FileInv, ConfInv
<1>7. CASE section = General
  <2>1. conf' = ParseGeneral(conf, Read.key, Read.value)
    BY <1>3, <1>7 DEF ReadValue
  <2>2. /\ IsConf(conf') /\ conf'.environment = conf.environment /\ conf'.start = conf.start
        /\ GeneralBecomes(conf, Read.key, Read.value, conf')
    BY <1>6, <2>1, GeneralSets
  <2>3. ASSUME NoneMisread' PROVE GeneralAsMeant' /\ EnvironmentAsMeant' /\ StartAsMeant'
    <3>1. /\ LinesOf(General)' = LinesOf(General) \cup {line}
          /\ LinesOf(General) \subseteq 1..line - 1
          /\ LinesOf(Environment)' = LinesOf(Environment) /\ LinesOf(Start)' = LinesOf(Start)
      BY <1>3, <1>5, <1>7, <2>3 DEF Sections
    <3>2. GeneralGrows
      BY <1>2, <3>1 DEF GeneralGrows
    <3>3. GeneralBecomes(conf, Key(line), Value(line), conf')
      BY <1>4, <2>2, <2>3
    <3>4. GeneralAsMeant'
      BY <1>2, <1>4, <2>3, <3>2, <3>3, GeneralAdds
    <3>5. EnvironmentAsMeant' /\ StartAsMeant'
      BY <1>2, <1>4, <2>2, <2>3, <3>1, EnvironmentKept, StartKept
    <3>. QED BY <3>4, <3>5
  <2>. QED BY <1>6, <2>2, <2>3 DEF ConfInv
<1>8. CASE section = Environment
  <2>. DEFINE x == <<Read.key, IF Read.value = NULL THEN Read.key ELSE Read.value>>
  <2>1. conf' = [conf EXCEPT !.environment = Append(conf.environment, x)]
    BY <1>3, <1>8 DEF ReadValue, ParseEnvironment
  <2>2. /\ Only(conf, conf', "environment")
        /\ conf'["environment"] = Append(conf.environment, x)
    <3>1. "environment" \in ConfNames
      BY DEF ConfNames
    <3>2. PICK w : w = Append(conf.environment, x)
      OBVIOUS
    <3>3. conf' = [conf EXCEPT !["environment"] = w]
      BY <2>1, <3>2
    <3>4. Only(conf, [conf EXCEPT !["environment"] = w], "environment")
            /\ [conf EXCEPT !["environment"] = w]["environment"] = w
      BY <1>6, <3>1, FieldSet
    <3>5. Only(conf, conf', "environment") /\ conf'["environment"] = w
      BY <3>3, <3>4
    <3>. QED BY <3>2, <3>5
  <2>3. x \in Text \X Text
    BY <1>2
  <2>4. Append(conf.environment, x) \in Seq(Text \X Text)
    <3>. HIDE DEF x
    <3>1. PICK e : e = conf.environment
      OBVIOUS
    <3>2. Append(e, x) \in Seq(Text \X Text)
      BY <1>6, <2>3, <3>1, AppendProperties
    <3>. QED BY <3>1, <3>2
  <2>5. ASSUME NoneMisread' PROVE GeneralAsMeant' /\ EnvironmentAsMeant' /\ StartAsMeant'
    <3>1. /\ LinesOf(Environment)' = LinesOf(Environment) \cup {line}
          /\ LinesOf(Environment) \subseteq 1..line - 1
          /\ LinesOf(General)' = LinesOf(General) /\ LinesOf(Start)' = LinesOf(Start)
      BY <1>3, <1>5, <1>8, <2>5 DEF Sections
    <3>2. Environ(line) = x
      BY <1>4, <2>5 DEF Environ
    <3>3. conf'.environment = Append(conf.environment, Environ(line))
      BY <2>2, <3>2
    <3>4. Environ(line) \in Text \X Text
      BY <2>3, <3>2
    <3>5. EnvironmentAsMeant'
      BY <1>2, <1>4, <1>6, <2>5, <3>1, <3>3, <3>4, EnvironmentAdds
    <3>6. conf'.start = conf.start /\ \A f \in ConfNames \ {"environment"} : conf'[f] = conf[f]
      BY <2>2 DEF Only, ConfNames
    <3>7. GeneralAsMeant' /\ StartAsMeant'
      BY <1>2, <1>4, <2>5, <3>1, <3>6, GeneralKept, StartKept
    <3>. QED BY <3>5, <3>7
  <2>. QED BY <2>2, <2>4, <2>5 DEF ConfInv, Only
<1>9. CASE section = Start
  <2>1. conf' = ParseStart(conf, Read.key, Read.value)
    BY <1>3, <1>9 DEF ReadValue
  <2>2. /\ Only(conf, conf', "start")
        /\ conf'["start"] = IF Read.value = NULL THEN conf.start \cup StartFlags(Read.key)
                            ELSE conf.start
    <3>1. "start" \in ConfNames
      BY DEF ConfNames
    <3>2. CASE Read.value = NULL
      <4>1. conf' = [conf EXCEPT !["start"] = conf.start \cup StartFlags(Read.key)]
        BY <2>1, <3>2 DEF ParseStart
      <4>2. PICK w : w = conf.start \cup StartFlags(Read.key)
        OBVIOUS
      <4>3. /\ Only(conf, [conf EXCEPT !["start"] = w], "start")
            /\ [conf EXCEPT !["start"] = w]["start"] = w
        BY <1>6, <3>1, FieldSet
      <4>4. conf' = [conf EXCEPT !["start"] = w]
        BY <4>1, <4>2
      <4>5. Only(conf, conf', "start") /\ conf'["start"] = w
        BY <4>3, <4>4
      <4>. QED BY <3>2, <4>2, <4>5
    <3>3. CASE Read.value # NULL
      <4>1. conf' = conf
        BY <2>1, <3>3 DEF ParseStart
      <4>. QED BY <1>6, <3>3, <4>1, FieldKept
    <3>. QED BY <3>2, <3>3
  <2>3. /\ conf'.environment = conf.environment
        /\ \A f \in ConfNames \ {"start"} : conf'[f] = conf[f]
    BY <2>2 DEF Only, ConfNames
  <2>4. ASSUME NoneMisread' PROVE GeneralAsMeant' /\ EnvironmentAsMeant' /\ StartAsMeant'
    <3>1. /\ LinesOf(Start)' = LinesOf(Start) \cup {line}
          /\ LinesOf(General)' = LinesOf(General)
          /\ LinesOf(Environment)' = LinesOf(Environment)
      BY <1>3, <1>5, <1>9, <2>4 DEF Sections
    <3>2. StartAsMeant'
      BY <1>2, <1>4, <2>2, <2>4, <3>1, StartAdds
    <3>3. GeneralAsMeant' /\ EnvironmentAsMeant'
      BY <1>2, <1>4, <2>3, <2>4, <3>1, GeneralKept, EnvironmentKept
    <3>. QED BY <3>2, <3>3
  <2>. QED BY <1>6, <2>2, <2>3, <2>4 DEF ConfInv, Only
<1>. QED BY <1>1, <1>7, <1>8, <1>9

(* The list of the arguments has no part in it.                              *)
LEMMA FileKept ==
  ASSUME FileInv, UNCHANGED <<file, database, line, section>>, Only(conf, conf', "arguments")
  PROVE  FileInv'
<1>1. /\ conf'.environment = conf.environment /\ conf'.start = conf.start
      /\ \A f \in ConfNames \ {"arguments"} : conf'[f] = conf[f]
  BY DEF Only, ConfNames
<1>2. LineInv' /\ ConfInv' /\ section' \in Sections \cup {NULL}
  BY <1>1 DEF FileInv, LineInv, FileType, ConfInv, Only
<1>3. \A s : LinesOf(s)' = LinesOf(s)
  BY DEF LinesOf, SectionOf
<1>4. InSection' = InSection /\ NoneMisread' = NoneMisread
  BY DEF InSection, SectionOf, NoneMisread
<1>5. ASSUME AsMeant PROVE AsMeant'
  BY <1>1, <1>3, <1>4, <1>5, GeneralKept, EnvironmentKept, StartKept DEF AsMeant
<1>. QED BY <1>2, <1>4, <1>5 DEF FileInv

(* Each turn of the parser keeps it.                                         *)
LEMMA FileStep == FileInv /\ ParserNext => FileInv'
<1>. SUFFICES ASSUME FileInv, ParserNext PROVE FileInv'
  OBVIOUS
<1>1. CASE ReadValue
  <2>1. NextLine /\ UNCHANGED section /\ ~Read.section
    BY <1>1 DEF ReadValue
  <2>2. LineInv' /\ (NoneMisread' => NoneMisread /\ Read = Meaning(file[line]))
    BY <2>1, LineRead DEF FileInv
  <2>3. NoneMisread' => section' = InSection'
    BY <2>1, <2>2, LinesGrow DEF FileInv, AsMeant
  <2>. QED BY <1>1, <2>1, <2>2, <2>3, ValueStep DEF FileInv, AsMeant
<1>2. CASE ReadSection \/ SkipLine \/ ReadArguments
  <2>1. /\ NextLine /\ UNCHANGED conf
        /\ section' = IF Read.section THEN IF Read.key \in Sections THEN Read.key ELSE NULL
                      ELSE section
    BY <1>2 DEF ReadSection, SkipLine, ReadArguments
  <2>2. /\ LineInv' /\ line \in Nat /\ UNCHANGED <<file, database>>
        /\ NoneMisread' => NoneMisread /\ Read = Meaning(file[line])
    BY <2>1, LineRead DEF FileInv
  <2>3. section' \in Sections \cup {NULL} /\ ConfInv'
    BY <2>1 DEF FileInv, ConfInv
  <2>4. ASSUME NoneMisread' PROVE AsMeant'
    <3>1. /\ section' = InSection' /\ section = InSection
          /\ \A s \in Sections :
               LinesOf(s)' = IF section = s /\ ~Read.section /\ Read.key # << >>
                             THEN LinesOf(s) \cup {line} ELSE LinesOf(s)
          /\ \A s : LinesOf(s) \subseteq 1..line - 1
      BY <2>1, <2>2, <2>4, LinesGrow DEF FileInv, AsMeant
    <3>2. GeneralAsMeant /\ EnvironmentAsMeant /\ StartAsMeant
      BY <2>2, <2>4 DEF FileInv, AsMeant
    <3>3. General # Environment /\ General # Start /\ Environment # Start
      BY WordNames DEF General, Environment, Start
    <3>4. CASE ReadSection \/ SkipLine
      <4>1. Read.section \/ section = NULL \/ Read.key = << >>
        BY <3>4 DEF ReadSection, SkipLine, Skips
      <4>2. \A s \in Sections : LinesOf(s)' = LinesOf(s)
        BY <3>1, <4>1, NullAssumption
      <4>. QED BY <2>1, <2>2, <3>1, <3>2, <4>2, GeneralKept, EnvironmentKept, StartKept
        DEF AsMeant, Sections
    <3>5. CASE ReadArguments
      <4>1. ~Read.section /\ section = General /\ Read.key = <<"arguments">> /\ Read.key # << >>
        BY <3>5 DEF ReadArguments, HasArguments, Skips
      <4>2. /\ LinesOf(General)' = LinesOf(General) \cup {line}
            /\ LinesOf(Environment)' = LinesOf(Environment) /\ LinesOf(Start)' = LinesOf(Start)
        BY <3>1, <3>3, <4>1 DEF Sections
      <4>3. GeneralGrows
        BY <2>2, <3>1, <4>2 DEF GeneralGrows
      <4>4. GeneralBecomes(conf, Key(line), Value(line), conf')
        <5>1. \A w : Key(line) = <<w>> => w = "arguments"
          BY <2>2, <2>4, <4>1, WordNames DEF Key
        <5>. QED BY <2>1, <5>1 DEF GeneralBecomes
      <4>5. GeneralAsMeant'
        BY <2>2, <3>2, <4>3, <4>4, GeneralAdds
      <4>6. EnvironmentAsMeant' /\ StartAsMeant'
        BY <2>1, <2>2, <3>2, <4>2, EnvironmentKept, StartKept
      <4>. QED BY <3>1, <4>5, <4>6 DEF AsMeant
    <3>. QED BY <1>2, <3>4, <3>5
  <2>. QED BY <2>2, <2>3, <2>4 DEF FileInv
<1>3. CASE ExpandTurn \/ ExpandEnd \/ EndOfFile
  <2>1. UNCHANGED <<file, database, line, section>>
    BY <1>3 DEF ExpandTurn, ExpandEnd, EndOfFile, parserVars
  <2>2. conf' = conf \/ \E w : conf' = [conf EXCEPT !["arguments"] = w]
    BY <1>3 DEF ExpandTurn, ExpandEnd, EndOfFile
  <2>3. Only(conf, conf', "arguments")
    <3>1. "arguments" \in ConfNames /\ IsConf(conf)
      BY DEF ConfNames, FileInv, ConfInv
    <3>2. CASE conf' = conf
      BY <3>1, <3>2, FieldKept
    <3>3. CASE \E w : conf' = [conf EXCEPT !["arguments"] = w]
      <4>1. PICK w : conf' = [conf EXCEPT !["arguments"] = w]
        BY <3>3
      <4>2. Only(conf, [conf EXCEPT !["arguments"] = w], "arguments")
        BY <3>1, FieldSet
      <4>. QED BY <4>1, <4>2
    <3>. QED BY <2>2, <3>2, <3>3
  <2>. QED BY <2>1, <2>3, FileKept
<1>. QED BY <1>1, <1>2, <1>3 DEF ParserNext

(* Before the first line there is the default, which is what no line means.  *)
LEMMA FileInit ==
  ASSUME NEW files, files \subseteq Seq(Seq(STRING)), ParserInit(files)
  PROVE  FileInv
<1>1. /\ file \in Seq(Seq(STRING)) /\ Len(file) \in Nat /\ line = 1 /\ section = General
      /\ conf = DefaultConf
  BY DEF ParserInit
<1>2. LineInv /\ section \in Sections \cup {NULL}
  BY <1>1 DEF LineInv, FileType, Sections
<1>3. ConfInv
  <2>1. IsConf(conf)
    BY <1>1 DEF DefaultConf, IsConf, ConfNames
  <2>2. conf.environment = << >>
    BY <1>1 DEF DefaultConf
  <2>. QED BY <2>1, <2>2 DEF ConfInv
<1>4. \A s : LinesOf(s) = {}
  BY <1>1 DEF LinesOf
<1>5. section = InSection
  <2>1. SectionOf(0) = General
    BY DEF SectionOf
  <2>. QED BY <1>1, <2>1 DEF InSection, Sections
<1>6. GeneralAsMeant
  BY <1>1, <1>4 DEF GeneralAsMeant, DefaultConf, LatestPath, LatestId, LatestSignal, Latest
<1>7. EnvironmentAsMeant /\ StartAsMeant
  BY <1>1, <1>4, FS_EmptySet DEF EnvironmentAsMeant, StartAsMeant, DefaultConf
<1>. QED BY <1>2, <1>3, <1>5, <1>6, <1>7 DEF FileInv, AsMeant

-----------------------------------------------------------------------------
(* The arguments: a list is read turn by turn, and replaces the one before   *)
(* it at the end.                                                            *)

(* The lists among the lines L, and the last of them.                        *)
ListsOf(L) == {i \in L : Key(i) = <<"arguments">> /\ IsList(Value(i))}
LastList(L) == IF ListsOf(L) = {} THEN << >> ELSE ListOf(Value(Max(ListsOf(L))))

(* While a list is read the line before the next one is what it is read of,  *)
(* and the configuration has the list of the lines before that.              *)
ListIsRead ==
  /\ line \in Nat /\ line - 1 \in LinesOf(General)
  /\ Key(line - 1) = <<"arguments">> /\ Value(line - 1) = value /\ value # NULL
  /\ conf.arguments = LastList(LinesOf(General) \ {line - 1})

(* What the parser keeps besides FileInv.                                    *)
ListInv ==
  /\ file \in Seq(Seq(Chars))
  /\ ExpandInv /\ ReadInv
  /\ NoneMisread => IF parse = "expanding" THEN ListIsRead ELSE ArgumentsAsMeant

LEMMA AsLastList == ArgumentsAsMeant <=> conf.arguments = LastList(LinesOf(General))
BY DEF ArgumentsAsMeant, Latest, LastList, ListsOf

(* A line which is no list adds none.                                        *)
LEMMA NoListAdded ==
  ASSUME NEW L, NEW n, ~(Key(n) = <<"arguments">> /\ IsList(Value(n)))
  PROVE  LastList(L \cup {n}) = LastList(L) /\ LastList(L \ {n}) = LastList(L)
<1>1. ListsOf(L \cup {n}) = ListsOf(L) /\ ListsOf(L \ {n}) = ListsOf(L)
  BY DEF ListsOf
<1>. QED BY <1>1 DEF LastList

(* The last line, if it is a list, is the last list.                         *)
LEMMA ListAdded ==
  ASSUME NEW n \in Nat, NEW L, L \subseteq 1..n, n \in L,
         Key(n) = <<"arguments">>, IsList(Value(n))
  PROVE  LastList(L) = ListOf(Value(n))
<1>. DEFINE S == ListsOf(L \ {n})
<1>1. S \subseteq 1..n - 1 /\ ListsOf(L) = S \cup {n}
  <2>1. S \subseteq L \ {n} /\ ListsOf(L) = S \cup {n}
    BY Zenon DEF ListsOf
  <2>2. L \ {n} \subseteq 1..n - 1
    OBVIOUS
  <2>. HIDE DEF S
  <2>. QED BY <2>1, <2>2, Zenon
<1>. HIDE DEF S
<1>2. Max(S \cup {n}) = n
  BY <1>1, NewestCounts
<1>3. ListsOf(L) # {} /\ Max(ListsOf(L)) = n
  BY <1>1, <1>2
<1>. QED BY <1>3 DEF LastList

(* What stays where neither the file nor the general lines change.           *)
LEMMA ArgumentsKept ==
  ASSUME ArgumentsAsMeant, UNCHANGED file, LinesOf(General)' = LinesOf(General),
         conf'.arguments = conf.arguments
  PROVE  ArgumentsAsMeant'
<1>1. \A i : Key(i)' = Key(i) /\ Value(i)' = Value(i)
  BY DEF Key, Value
<1>. QED BY <1>1 DEF ArgumentsAsMeant, Latest

(* And where a line is added to them which is no list.                       *)
LEMMA ArgumentsPassed ==
  ASSUME ArgumentsAsMeant, UNCHANGED file, LinesOf(General)' = LinesOf(General) \cup {line},
         ~(Key(line) = <<"arguments">> /\ IsList(Value(line))),
         conf'.arguments = conf.arguments
  PROVE  ArgumentsAsMeant'
<1>1. \A i : Key(i)' = Key(i) /\ Value(i)' = Value(i)
  BY DEF Key, Value
<1>2. PICK L : L = LinesOf(General)
  OBVIOUS
<1>3. conf.arguments = LastList(L) /\ LastList(L \cup {line}) = LastList(L)
  BY <1>2, AsLastList, NoListAdded
<1>4. conf'.arguments = LastList(L \cup {line})
  BY <1>3
<1>. QED BY <1>1, <1>2, <1>4 DEF LastList, ListsOf, ArgumentsAsMeant, Latest

(* No other key has a part in the arguments.                                 *)
LEMMA ArgumentsStay ==
  ASSUME FileInv, ReadValue PROVE conf'.arguments = conf.arguments
<1>1. section \in {General, Environment, Start} /\ IsConf(conf)
  BY DEF ReadValue, Skips, FileInv, Sections, ConfInv
<1>2. General # Environment /\ General # Start /\ Environment # Start
  BY WordNames DEF General, Environment, Start
<1>3. CASE section = General
  <2>1. conf' = ParseGeneral(conf, Read.key, Read.value)
    BY <1>2, <1>3 DEF ReadValue
  <2>. QED BY <1>1, <2>1, GeneralSets
<1>4. CASE section # General
  <2>1. \/ conf' = conf \/ \E w : conf' = [conf EXCEPT !["environment"] = w]
        \/ \E w : conf' = [conf EXCEPT !["start"] = w]
    BY <1>1, <1>2, <1>4 DEF ReadValue, ParseEnvironment, ParseStart
  <2>2. "environment" \in ConfNames /\ "start" \in ConfNames /\ "arguments" \in ConfNames
    BY DEF ConfNames
  <2>3. ASSUME NEW f \in {"environment", "start"}, NEW w
        PROVE  [conf EXCEPT ![f] = w].arguments = conf.arguments
    <3>1. Only(conf, [conf EXCEPT ![f] = w], f)
      BY <1>1, <2>2, FieldSet
    <3>. QED BY <2>2, <3>1 DEF Only
  <2>4. CASE \E w : conf' = [conf EXCEPT !["environment"] = w]
    <3>1. PICK w : conf' = [conf EXCEPT !["environment"] = w]
      BY <2>4
    <3>2. [conf EXCEPT !["environment"] = w].arguments = conf.arguments
      BY <2>3
    <3>. QED BY <3>1, <3>2
  <2>5. CASE \E w : conf' = [conf EXCEPT !["start"] = w]
    <3>1. PICK w : conf' = [conf EXCEPT !["start"] = w]
      BY <2>5
    <3>2. [conf EXCEPT !["start"] = w].arguments = conf.arguments
      BY <2>3
    <3>. QED BY <3>1, <3>2
  <2>. QED BY <2>1, <2>4, <2>5
<1>. QED BY <1>3, <1>4

(* A list replaces the one before it once it is read to its end, if it is    *)
(* one.                                                                      *)
LEMMA ListEnds ==
  ASSUME FileInv, ListInv, ExpandEnd, NoneMisread
  PROVE  ArgumentsAsMeant'
<1>1. /\ ListIsRead /\ ReadInv /\ mode \in Ended /\ UNCHANGED <<file, line>>
      /\ conf' = IF mode = "END" /\ arguments # << >>
                 THEN [conf EXCEPT !.arguments = arguments] ELSE conf
  BY DEF ListInv, ExpandEnd
<1>2. PICK n, L : n = line - 1 /\ L = LinesOf(General)
  OBVIOUS
<1>3. /\ n \in Nat /\ n \in L /\ L \subseteq 1..n /\ Key(n) = <<"arguments">>
      /\ Value(n) = value /\ value # NULL /\ conf.arguments = LastList(L \ {n})
  <2>1. L \subseteq 1..line - 1 /\ line \in Nat
    BY <1>1, <1>2 DEF LinesOf, ListIsRead
  <2>2. n \in L
    BY <1>1, <1>2 DEF ListIsRead
  <2>. QED BY <1>1, <1>2, <2>1, <2>2 DEF ListIsRead
<1>4. LinesOf(General)' = L /\ \A i : Key(i)' = Key(i) /\ Value(i)' = Value(i)
  BY <1>1, <1>2 DEF LinesOf, SectionOf, Key, Value
<1>5. IsList(value) <=> mode = "END" /\ arguments # << >>
  BY <1>1, <1>3, EndedReads DEF IsList
<1>6. conf'.arguments = LastList(L)
  <2>1. CASE IsList(value)
    <3>1. LastList(L) = ListOf(value)
      BY <1>3, <2>1, ListAdded
    <3>2. ListOf(value) = arguments
      BY <1>1, EndedReads DEF ListOf
    <3>3. "arguments" \in ConfNames /\ IsConf(conf)
      BY DEF ConfNames, FileInv, ConfInv
    <3>4. [conf EXCEPT !["arguments"] = arguments]["arguments"] = arguments
      BY <3>3, FieldSet
    <3>. QED BY <1>1, <1>5, <2>1, <3>1, <3>2, <3>4
  <2>2. CASE ~IsList(value)
    <3>1. LastList(L \ {n}) = LastList(L)
      BY <1>3, <2>2, NoListAdded
    <3>. QED BY <1>1, <1>3, <1>5, <2>2, <3>1
  <2>. QED BY <2>1, <2>2
<1>. QED BY <1>4, <1>6 DEF ArgumentsAsMeant, Latest, LastList, ListsOf

(* The line of a list is read.                                               *)
LEMMA ListBegins ==
  ASSUME FileInv, ListInv, ReadArguments, NoneMisread'
  PROVE  ListIsRead'
<1>1. /\ NextLine /\ ~Read.section /\ Read.key # << >> /\ section = General
      /\ Read.key = <<"arguments">> /\ Read.value # NULL /\ value' = Read.value
      /\ UNCHANGED <<section, conf>> /\ parse = "reading"
  BY DEF ReadArguments, Skips, HasArguments, ExpandBegin, NextLine
<1>2. /\ line \in Nat /\ line' = line + 1 /\ UNCHANGED file
      /\ NoneMisread /\ Read = Meaning(file[line])
  BY <1>1, LineRead DEF FileInv
<1>3. section = InSection /\ ArgumentsAsMeant
  BY <1>1, <1>2 DEF FileInv, AsMeant, ListInv
<1>4. /\ LinesOf(General)' = LinesOf(General) \cup {line}
      /\ LinesOf(General) \subseteq 1..line - 1
  BY <1>1, <1>2, <1>3, LinesGrow DEF FileInv, Sections
<1>5. Key(line) = <<"arguments">> /\ Value(line) = Read.value
  BY <1>1, <1>2 DEF Key, Value
<1>6. \A i : Key(i)' = Key(i) /\ Value(i)' = Value(i)
  BY <1>2 DEF Key, Value
<1>7. PICK L : L = LinesOf(General)
  OBVIOUS
<1>8. (L \cup {line}) \ {line} = L
  <2>1. L \subseteq 1..line - 1
    BY <1>4, <1>7
  <2>2. line \notin 1..line - 1
    BY <1>2
  <2>. QED BY <2>1, <2>2
<1>9. conf.arguments = LastList(L)
  BY <1>3, <1>7, AsLastList
<1>10. line' - 1 = line /\ line' \in Nat
  BY <1>2
<1>11. LastList(LinesOf(General) \ {line - 1})' = LastList(L)
  <2>1. LinesOf(General)' \ {line' - 1} = L
    BY <1>4, <1>7, <1>8, <1>10
  <2>. QED BY <1>6, <2>1 DEF LastList, ListsOf
<1>12. Key(line - 1)' = Key(line) /\ Value(line - 1)' = Value(line)
  BY <1>2, <1>10 DEF Key, Value
<1>13. (line - 1 \in LinesOf(General))'
  BY <1>4, <1>10
<1>. QED BY <1>1, <1>5, <1>9, <1>10, <1>11, <1>12, <1>13 DEF ListIsRead

LEMMA ListStep == FileInv /\ ListInv /\ ParserNext => ListInv'
<1>. SUFFICES ASSUME FileInv, ListInv, ParserNext PROVE ListInv'
  OBVIOUS
<1>1. file' = file
  BY DEF ParserNext, ReadSection, SkipLine, ReadValue, ReadArguments, NextLine, ExpandTurn,
         ExpandEnd, EndOfFile, parserVars
<1>2. CASE ReadSection \/ SkipLine \/ ReadValue
  <2>1. /\ NextLine /\ UNCHANGED argumentsVars /\ parse = "reading" /\ parse' = "reading"
        /\ section' = IF Read.section THEN IF Read.key \in Sections THEN Read.key ELSE NULL
                      ELSE section
    BY <1>2 DEF ReadSection, SkipLine, ReadValue, NextLine
  <2>2. /\ line \in Nat /\ UNCHANGED <<file, database>>
        /\ NoneMisread' => NoneMisread /\ Read = Meaning(file[line])
    BY <2>1, LineRead DEF FileInv
  <2>3. ExpandInv' /\ ReadInv'
    <3>1. ExpandInv'
      BY <2>1, ExpandInvNext DEF ListInv
    <3>. QED BY <2>1, <3>1, ReadInvStays DEF ListInv
  <2>4. conf'.arguments = conf.arguments
    BY <1>2, ArgumentsStay DEF ReadSection, SkipLine
  <2>5. ASSUME NoneMisread' PROVE ArgumentsAsMeant'
    <3>1. section = InSection /\ ArgumentsAsMeant
      BY <2>1, <2>2, <2>5 DEF FileInv, AsMeant, ListInv
    <3>2. LinesOf(General)' = IF section = General /\ ~Read.section /\ Read.key # << >>
                              THEN LinesOf(General) \cup {line} ELSE LinesOf(General)
      BY <2>1, <2>2, <2>5, <3>1, LinesGrow DEF FileInv, Sections
    <3>3. CASE section = General /\ ~Read.section /\ Read.key # << >>
      <4>1. ReadValue
        BY <1>2, <3>3, NullAssumption DEF ReadSection, SkipLine, Skips, Sections
      <4>2. ~(Key(line) = <<"arguments">> /\ IsList(Value(line)))
        BY <2>2, <2>5, <3>3, <4>1 DEF ReadValue, HasArguments, Key, Value, IsList
      <4>. QED BY <1>1, <2>4, <3>1, <3>2, <3>3, <4>2, ArgumentsPassed
    <3>4. CASE ~(section = General /\ ~Read.section /\ Read.key # << >>)
      BY <1>1, <2>4, <3>1, <3>2, <3>4, ArgumentsKept
    <3>. QED BY <3>3, <3>4
  <2>. QED BY <1>1, <2>1, <2>3, <2>5 DEF ListInv
<1>3. CASE ReadArguments
  <2>1. NextLine /\ ExpandBegin(Read.value) /\ Read.value # NULL /\ parse' = "expanding"
    BY <1>3 DEF ReadArguments, HasArguments
  <2>2. Read.value \in Seq(Chars)
    <3>1. line \in 1..Len(file)
      BY <2>1 DEF FileInv, LineInv, FileType, NextLine
    <3>2. file[line] \in Seq(Chars)
      BY <3>1 DEF ListInv
    <3>. QED BY <2>1, <3>2, ParsedType DEF Read
  <2>3. PICK v \in Seq(Chars) : v = Read.value
    BY <2>2
  <2>4. ExpandInv' /\ ReadInv'
    <3>1. ExpandBegin(v)
      BY <2>1, <2>3
    <3>. QED BY <3>1, ExpandInvBegin, ReadInvBegin DEF ListInv
  <2>. QED BY <1>1, <1>3, <2>1, <2>4, ListBegins DEF ListInv
<1>4. CASE ExpandTurn
  <2>1. Expand /\ UNCHANGED <<file, line, conf, parse>> /\ parse = "expanding"
    BY <1>4 DEF ExpandTurn, parserVars
  <2>2. ExpandInv' /\ ReadInv' /\ value' = value
    <3>1. value' = value
      BY <2>1 DEF Expand, ExpandSpaces, ExpandLiteral, ExpandSingle, ExpandDouble,
                  ExpandEscape, Unclosed, Turn
    <3>. QED BY <2>1, <3>1, ExpandInvStep, ReadInvTurn DEF ListInv
  <2>3. NoneMisread' = NoneMisread
    BY <2>1 DEF NoneMisread
  <2>4. ListIsRead => ListIsRead'
    <3>1. /\ \A i : Key(i)' = Key(i) /\ Value(i)' = Value(i)
          /\ LinesOf(General)' = LinesOf(General)
      BY <2>1 DEF Key, Value, LinesOf, SectionOf
    <3>2. \A L : ListsOf(L)' = ListsOf(L)
      BY <3>1 DEF ListsOf
    <3>3. \A L : LastList(L)' = LastList(L)
      BY <3>1, <3>2 DEF LastList
    <3>4. LastList(LinesOf(General) \ {line - 1})' = LastList(LinesOf(General) \ {line - 1})
      BY <2>1, <3>1 DEF LastList, ListsOf
    <3>5. Key(line - 1)' = Key(line - 1) /\ Value(line - 1)' = Value(line - 1)
      BY <2>1 DEF Key, Value
    <3>. QED BY <2>1, <2>2, <3>1, <3>4, <3>5 DEF ListIsRead
  <2>. QED BY <1>1, <2>1, <2>2, <2>3, <2>4 DEF ListInv
<1>5. CASE ExpandEnd \/ EndOfFile
  <2>1. UNCHANGED <<file, line, argumentsVars>> /\ parse' # "expanding"
    BY <1>5 DEF ExpandEnd, EndOfFile
  <2>2. ExpandInv' /\ ReadInv'
    <3>1. ExpandInv'
      BY <2>1, ExpandInvNext DEF ListInv
    <3>. QED BY <2>1, <3>1, ReadInvStays DEF ListInv
  <2>3. NoneMisread' = NoneMisread
    BY <2>1 DEF NoneMisread
  <2>4. ASSUME NoneMisread PROVE ArgumentsAsMeant'
    <3>1. CASE ExpandEnd
      BY <2>4, <3>1, ListEnds
    <3>2. CASE EndOfFile
      <4>1. ArgumentsAsMeant /\ UNCHANGED conf
        BY <2>4, <3>2 DEF ListInv, EndOfFile
      <4>2. LinesOf(General)' = LinesOf(General)
        BY <2>1 DEF LinesOf, SectionOf
      <4>. QED BY <1>1, <4>1, <4>2, ArgumentsKept
    <3>. QED BY <1>5, <3>1, <3>2
  <2>. QED BY <1>1, <2>1, <2>2, <2>3, <2>4 DEF ListInv
<1>. QED BY <1>2, <1>3, <1>4, <1>5 DEF ParserNext

(* No one but the parser has a part in it.                                   *)
LEMMA ListStays ==
  ASSUME ListInv, UNCHANGED <<parserVars, conf, argumentsVars>> PROVE ListInv'
<1>1. UNCHANGED <<file, line, conf, parse, value, argumentsVars>>
  BY DEF parserVars, argumentsVars
<1>2. ExpandInv' /\ ReadInv'
  <2>1. ExpandInv'
    BY <1>1, ExpandInvNext DEF ListInv
  <2>. QED BY <1>1, <2>1, ReadInvStays DEF ListInv
<1>3. NoneMisread' = NoneMisread
  BY <1>1 DEF NoneMisread
<1>4. \A i : Key(i)' = Key(i) /\ Value(i)' = Value(i)
  BY <1>1 DEF Key, Value
<1>5. LinesOf(General)' = LinesOf(General)
  BY <1>1 DEF LinesOf, SectionOf
<1>6. ArgumentsAsMeant => ArgumentsAsMeant'
  BY <1>1, <1>5, ArgumentsKept
<1>7. ListIsRead => ListIsRead'
  <2>1. LastList(LinesOf(General) \ {line - 1})' = LastList(LinesOf(General) \ {line - 1})
    BY <1>1, <1>4, <1>5 DEF LastList, ListsOf
  <2>2. Key(line - 1)' = Key(line - 1) /\ Value(line - 1)' = Value(line - 1)
    BY <1>1 DEF Key, Value
  <2>. QED BY <1>1, <1>5, <2>1, <2>2 DEF ListIsRead
<1>. QED BY <1>1, <1>2, <1>3, <1>6, <1>7 DEF ListInv

LEMMA ListInit ==
  ASSUME NEW files, files \subseteq Seq(Seq(Chars)), ParserInit(files)
  PROVE  ListInv
<1>1. /\ file \in Seq(Seq(Chars)) /\ line = 1 /\ conf = DefaultConf /\ parse = "reading"
      /\ ArgumentsInit
  BY DEF ParserInit
<1>2. LinesOf(General) = {}
  BY <1>1 DEF LinesOf
<1>3. ArgumentsAsMeant
  BY <1>1, <1>2 DEF ArgumentsAsMeant, Latest, DefaultConf
<1>. QED BY <1>1, <1>3, ExpandInvInit, ReadInvInit DEF ListInv

(* Of a list which was quoted, each word is kept.                            *)
LEMMA QuotedKept ==
  ASSUME ArgumentsAsMeant, FileInv, ListInv, parse = "reading", NoneMisread
  PROVE  QuotedIsKept
<1>. DEFINE V == {i \in LinesOf(General) : Key(i) = <<"arguments">> /\ Value(i) # NULL}
            text == IF V = {} THEN << >> ELSE Value(Max(V))
<1>1. SUFFICES ASSUME text # << >>, NEW ws \in Lists, text = QuotedList(ws)
               PROVE  conf.arguments = ws
  BY DEF QuotedIsKept, Latest
<1>2. V # {} /\ text = Value(Max(V))
  BY <1>1
<1>3. PICK n : n = Max(V)
  OBVIOUS
<1>4. /\ n \in V /\ n \in Nat /\ V \subseteq 1..n
  <2>1. V \subseteq 1..line - 1 /\ line - 1 \in Nat
    BY DEF LinesOf, FileInv, LineInv, FileType
  <2>2. V \subseteq Nat /\ \A y \in V : y <= line - 1
    BY <2>1
  <2>3. Max(V) \in V /\ \A y \in V : y <= Max(V)
    <3>. HIDE DEF V
    <3>. QED BY <1>2, <2>1, <2>2, MaxIsGreatest
  <2>4. n \in V /\ \A y \in V : y <= n
    <3>. HIDE DEF V
    <3>. QED BY ONLY <1>3, <2>3
  <2>5. n \in Nat /\ \A y \in V : y \in 1..n
    <3>1. \A y \in V : y \in Nat /\ y >= 1
      BY <2>1
    <3>. HIDE DEF V
    <3>. QED BY ONLY <2>4, <3>1
  <2>. QED BY <2>4, <2>5
<1>5. IsList(Value(n)) /\ ListOf(Value(n)) = ws
  <2>1. ws \in Seq(Seq(Chars)) /\ ws # << >>
    BY ListsAssumption
  <2>2. Expanded!Whole(QuotedList(ws)) = Expanded!Known("END", << >>, ws)
    BY <2>1, QuotedReads
  <2>3. Value(n) = QuotedList(ws) /\ Value(n) # NULL
    BY <1>1, <1>2, <1>3, <1>4
  <2>4. Expanded!Whole(Value(n)).mode = "END" /\ Expanded!Whole(Value(n)).words = ws
    BY <2>2, <2>3 DEF Expanded!Known
  <2>. QED BY <2>1, <2>3, <2>4 DEF IsList, ListOf
<1>6. LastList(V) = ws
  <2>1. Key(n) = <<"arguments">>
    BY <1>4
  <2>. HIDE DEF V
  <2>. QED BY <1>4, <1>5, <2>1, ListAdded
<1>7. ListsOf(LinesOf(General)) = ListsOf(V)
  BY DEF ListsOf, IsList
<1>8. LastList(LinesOf(General)) = LastList(V)
  BY <1>7 DEF LastList
<1>. QED BY <1>6, <1>8, AsLastList

=============================================================================
