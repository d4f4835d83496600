---------------------------- MODULE FoldTheorems ----------------------------
(***************************************************************************)
(* Induction, and what a fold computes.  The theorems of the library that  *)
(* do it take an operator for an argument; here the induction is over a    *)
(* set, and the step of the fold is a constant of the module, which a      *)
(* proof gives its value with INSTANCE FoldTheorems WITH Step <- ...       *)
(***************************************************************************)
EXTENDS Integers, Sequences, SequencesExt, NaturalsInduction, WellFoundedInduction, TLAPS

CONSTANT Step(_, _)

----------------------------------------------------------------------------
(* Induction.                                                               *)

\* A set that has zero, and the next of each number it has, has them all.
LEMMA NatInduct ==
    ASSUME NEW T, 0 \in T, \A n \in Nat : n \in T => n + 1 \in T
    PROVE  \A n \in Nat : n \in T
<1> DEFINE less == {ss \in Nat \X Nat : ss[1] < ss[2]}
           Out == {n \in Nat : n \notin T}
<1>1. IsWellFoundedOn(less, Nat)
  BY NatLessThanWellFounded, Zenon DEF OpToRel
<1>2. SUFFICES ASSUME Out # {} PROVE FALSE
  OBVIOUS
<1>3. PICK x \in Out : \A y \in Out : ~ (<<y, x>> \in less)
  <2>1. Out \in SUBSET Nat
    OBVIOUS
  <2> HIDE DEF less, Out
  <2> QED
    BY <1>1, <1>2, <2>1, WFMin, Zenon
<1>4. x \in Nat /\ x \notin T /\ x # 0
  BY Zenon
<1>5. x - 1 \in Nat /\ x = (x - 1) + 1 /\ <<x - 1, x>> \in less
  BY <1>4
<1>6. x - 1 \notin Out
  <2> HIDE DEF less, Out
  <2> QED
    BY <1>3, <1>5, Zenon
<1> QED
  BY <1>4, <1>5, <1>6, Zenon

\* Of numbers up to a bound one is the largest.
LEMMA LargestExists ==
    ASSUME NEW n \in Nat, NEW S \in SUBSET (0..n), S # {}
    PROVE  \E m \in S : \A y \in S : m >= y
<1> DEFINE T == {k \in Nat : \A Q \in SUBSET (0..k) : Q # {} => \E m \in Q : \A y \in Q : m >= y}
<1>1. 0 \in T
  <2>1. \A Q \in SUBSET (0..0) : Q # {} => \E m \in Q : \A y \in Q : m >= y
    <3> SUFFICES ASSUME NEW Q \in SUBSET (0..0), Q # {} PROVE \E m \in Q : \A y \in Q : m >= y
      OBVIOUS
    <3>1. PICK x : x \in Q
      OBVIOUS
    <3>2. x = 0 /\ \A y \in Q : y = 0
      BY <3>1
    <3> QED
      BY <3>1, <3>2
  <2> QED
    BY <2>1
<1>2. ASSUME NEW k \in Nat, k \in T PROVE k + 1 \in T
  <2> SUFFICES ASSUME NEW Q \in SUBSET (0..(k + 1)), Q # {} PROVE \E m \in Q : \A y \in Q : m >= y
    OBVIOUS
  <2>1. CASE k + 1 \in Q
    BY <2>1
  <2>2. CASE k + 1 \notin Q
    <3>1. \A y \in Q : y \in 0..k
      BY <2>2
    <3> QED
      BY <1>2, <3>1
  <2> QED
    BY <2>1, <2>2
<1>3. \A k \in Nat : k \in T
  <2> HIDE DEF T
  <2> QED
    BY <1>1, <1>2, NatInduct
<1> QED
  BY <1>3

\* What is appended is the last element, behind the others.
LEMMA AppendIs ==
    ASSUME NEW A, NEW s \in Seq(A), NEW x \in A
    PROVE  /\ Append(s, x) \in Seq(A) /\ Len(Append(s, x)) = Len(s) + 1
           /\ Append(s, x) # <<>> /\ Append(s, x)[Len(s) + 1] = x
           /\ \A i \in 1..Len(s) : Append(s, x)[i] = s[i]
OBVIOUS

LEMMA ConcatIs ==
    ASSUME NEW A, NEW s \in Seq(A), NEW r \in Seq(A)
    PROVE  /\ s \o r \in Seq(A) /\ Len(s \o r) = Len(s) + Len(r)
           /\ \A i \in 1..(Len(s) + Len(r)) : (s \o r)[i] = IF i <= Len(s) THEN s[i] ELSE r[i - Len(s)]
OBVIOUS

LEMMA ElementsAre ==
    ASSUME NEW A, NEW s \in Seq(A)
    PROVE  (\A i \in 1..Len(s) : s[i] \in A) /\ (Len(s) = 0 <=> s = <<>>) /\ <<>> \in Seq(A)
OBVIOUS

LEMMA PairIs ==
    ASSUME NEW A, NEW x \in A, NEW y \in A
    PROVE  <<x>> \in Seq(A) /\ <<y>> \in Seq(A) /\ <<x, y>> \in Seq(A) /\ <<x, y>> = <<x>> \o <<y>>
<1>1. <<x>> \in Seq(A) /\ <<y>> \in Seq(A) /\ <<x, y>> \in Seq(A)
  OBVIOUS
<1>2. PICK p, q, u : p = <<x>> /\ q = <<y>> /\ u = <<x, y>>
  OBVIOUS
<1>3. p \in Seq(A) /\ q \in Seq(A) /\ Len(p) = 1 /\ Len(q) = 1 /\ p[1] = x /\ q[1] = y
  BY <1>1, <1>2
<1>4. u \in Seq(A) /\ Len(u) = 2 /\ u[1] = x /\ u[2] = y
  BY <1>1, <1>2
<1>5. PICK c : c = p \o q
  OBVIOUS
<1>6. c \in Seq(A) /\ Len(c) = 2 /\ c[1] = x /\ c[2] = y
  BY <1>3, <1>5, ConcatIs
<1>7. u = c
  BY <1>4, <1>6
<1> QED
  BY <1>1, <1>2, <1>5, <1>7, Zenon

LEMMA MaybeOne ==
    ASSUME NEW A, NEW x \in A
    PROVE  \A c : (IF c THEN <<>> ELSE <<x>>) \in Seq(A)
<1>1. <<>> \in Seq(A) /\ <<x>> \in Seq(A)
  OBVIOUS
<1> QED
  BY <1>1, Zenon

LEMMA SameIs ==
    ASSUME NEW A, NEW s \in Seq(A), NEW r \in Seq(A), Len(s) = Len(r),
           \A i \in 1..Len(s) : s[i] = r[i]
    PROVE  s = r
OBVIOUS

LEMMA HeadMoves ==
    ASSUME NEW A, NEW s \in Seq(A), NEW r \in Seq(A), r # <<>>
    PROVE  /\ Append(s, Head(r)) \in Seq(A) /\ Tail(r) \in Seq(A)
           /\ Append(s, Head(r)) \o Tail(r) = s \o r
<1>1. PICK n \in Nat, m \in Nat : n = Len(s) /\ m = Len(r) /\ m # 0
  OBVIOUS
<1>2. PICK a, b : a = Append(s, Head(r)) /\ b = Tail(r)
  OBVIOUS
<1>3. /\ a \in Seq(A) /\ Len(a) = n + 1 /\ a[n + 1] = r[1] /\ \A i \in 1..n : a[i] = s[i]
      /\ b \in Seq(A) /\ Len(b) = m - 1 /\ \A i \in 1..(m - 1) : b[i] = r[i + 1]
  BY <1>1, <1>2
<1>4. PICK c \in Seq(A), d \in Seq(A) : c = a \o b /\ d = s \o r
  BY <1>3, ConcatIs
<1>5. /\ Len(c) = n + m /\ \A i \in 1..(n + m) : c[i] = IF i <= n + 1 THEN a[i] ELSE b[i - (n + 1)]
      /\ Len(d) = n + m /\ \A i \in 1..(n + m) : d[i] = IF i <= n THEN s[i] ELSE r[i - n]
  <2>1. Len(a) = n + 1 /\ Len(b) = m - 1 /\ a \in Seq(A) /\ b \in Seq(A) /\ (n + 1) + (m - 1) = n + m
    BY <1>3
  <2>2. Len(c) = n + m /\ \A i \in 1..(n + m) : c[i] = IF i <= n + 1 THEN a[i] ELSE b[i - (n + 1)]
    <3>1. /\ Len(a \o b) = Len(a) + Len(b)
          /\ \A i \in 1..(Len(a) + Len(b)) :
                (a \o b)[i] = IF i <= Len(a) THEN a[i] ELSE b[i - Len(a)]
      BY <2>1, ConcatIs
    <3> QED
      BY <1>4, <2>1, <3>1
  <2>3. Len(d) = n + m /\ \A i \in 1..(n + m) : d[i] = IF i <= n THEN s[i] ELSE r[i - n]
    BY <1>1, <1>4, ConcatIs
  <2> QED
    BY <2>2, <2>3
<1>6. ASSUME NEW i \in 1..(n + m) PROVE c[i] = d[i]
  <2>1. CASE i <= n
    <3>1. c[i] = a[i] /\ d[i] = s[i] /\ i \in 1..n
      BY <1>5, <2>1
    <3> QED
      BY <1>3, <3>1
  <2>2. CASE i = n + 1
    <3>1. c[i] = a[n + 1] /\ d[i] = r[1]
      BY <1>5, <2>2
    <3> QED
      BY <1>3, <3>1
  <2>3. CASE i > n + 1
    <3>1. c[i] = b[i - (n + 1)] /\ d[i] = r[i - n] /\ i - (n + 1) \in 1..(m - 1) /\ (i - (n + 1)) + 1 = i - n
      BY <1>5, <2>3
    <3> QED
      BY <1>3, <3>1
  <2> QED
    BY <2>1, <2>2, <2>3
<1>7. c = d
  BY <1>5, <1>6
<1> QED
  BY <1>2, <1>3, <1>4, <1>7

LEMMA SubIs ==
    ASSUME NEW A, NEW s \in Seq(A), NEW i \in Nat, NEW j \in Nat, 1 <= i, j <= Len(s)
    PROVE  /\ SubSeq(s, i, j) \in Seq(A)
           /\ Len(SubSeq(s, i, j)) = IF i <= j THEN j - i + 1 ELSE 0
           /\ \A k \in 1..(j - i + 1) : SubSeq(s, i, j)[k] = s[i + k - 1]
OBVIOUS

LEMMA PrefixIs ==
    ASSUME NEW A, NEW s \in Seq(A), NEW j \in 0..Len(s)
    PROVE  SubSeq(s, 1, j) \in Seq(A) /\ Len(SubSeq(s, 1, j)) = j
  BY SubIs

LEMMA AllIs ==
    ASSUME NEW A, NEW s \in Seq(A)
    PROVE  SubSeq(s, 1, Len(s)) = s /\ SubSeq(s, 1, 0) = <<>> /\ s \o <<>> = s /\ <<>> \o s = s
OBVIOUS

LEMMA ConcatAssoc ==
    ASSUME NEW A, NEW s \in Seq(A), NEW r \in Seq(A), NEW q \in Seq(A)
    PROVE  (s \o r) \o q = s \o (r \o q)
<1>1. PICK n \in Nat, m \in Nat, k \in Nat : n = Len(s) /\ m = Len(r) /\ k = Len(q)
  OBVIOUS
<1>2. PICK a, b : a = s \o r /\ b = r \o q
  OBVIOUS
<1>3. /\ a \in Seq(A) /\ Len(a) = n + m /\ \A i \in 1..(n + m) : a[i] = IF i <= n THEN s[i] ELSE r[i - n]
      /\ b \in Seq(A) /\ Len(b) = m + k /\ \A i \in 1..(m + k) : b[i] = IF i <= m THEN r[i] ELSE q[i - m]
  BY <1>1, <1>2, ConcatIs
<1>4. PICK c, d : c = a \o q /\ d = s \o b
  OBVIOUS
<1>5. /\ c \in Seq(A) /\ Len(c) = (n + m) + k
      /\ \A i \in 1..((n + m) + k) : c[i] = IF i <= n + m THEN a[i] ELSE q[i - (n + m)]
  <2>1. PICK l \in Nat : l = Len(a) /\ l = n + m
    BY <1>3
  <2>2. Len(c) = l + k /\ c \in Seq(A) /\ \A i \in 1..(l + k) : c[i] = IF i <= l THEN a[i] ELSE q[i - l]
    BY <1>1, <1>3, <1>4, <2>1, ConcatIs
  <2> QED
    BY <2>1, <2>2
<1>6. /\ d \in Seq(A) /\ Len(d) = n + (m + k)
      /\ \A i \in 1..(n + (m + k)) : d[i] = IF i <= n THEN s[i] ELSE b[i - n]
  <2>1. PICK l \in Nat : l = Len(b) /\ l = m + k
    BY <1>3
  <2>0. b \in Seq(A)
    BY <1>3
  <2>2. /\ Len(s \o b) = Len(s) + Len(b) /\ s \o b \in Seq(A)
        /\ \A i \in 1..(Len(s) + Len(b)) : (s \o b)[i] = IF i <= Len(s) THEN s[i] ELSE b[i - Len(s)]
    BY <2>0, ConcatIs
  <2>3. Len(d) = n + l /\ d \in Seq(A) /\ \A i \in 1..(n + l) : d[i] = IF i <= n THEN s[i] ELSE b[i - n]
    BY <1>1, <1>4, <2>1, <2>2, Zenon
  <2> QED
    BY <2>1, <2>3
<1>7. PICK h \in Nat : h = (n + m) + k /\ h = n + (m + k)
  OBVIOUS
<1>8. ASSUME NEW i \in 1..h PROVE c[i] = d[i]
  <2>1. CASE i <= n
    <3>1. c[i] = a[i] /\ a[i] = s[i] /\ d[i] = s[i]
      BY <1>3, <1>5, <1>6, <1>7, <2>1
    <3> QED
      BY <3>1
  <2>2. CASE n < i /\ i <= n + m
    <3>1. i - n \in 1..(m + k) /\ i - n <= m /\ i \in 1..(n + m) /\ ~(i <= n)
      BY <2>2
    <3>2. c[i] = a[i] /\ a[i] = r[i - n]
      BY <1>3, <1>5, <1>7, <2>2, <3>1
    <3>3. d[i] = b[i - n] /\ b[i - n] = r[i - n]
      BY <1>3, <1>6, <1>7, <3>1
    <3> QED
      BY <3>2, <3>3
  <2>3. CASE n + m < i
    <3>1. i - n \in 1..(m + k) /\ ~(i - n <= m) /\ ~(i <= n) /\ ~(i <= n + m) /\ (i - n) - m = i - (n + m)
      BY <1>7, <2>3
    <3>2. c[i] = q[i - (n + m)]
      BY <1>5, <1>7, <3>1
    <3>3. d[i] = b[i - n] /\ b[i - n] = q[(i - n) - m]
      BY <1>3, <1>6, <1>7, <3>1
    <3> QED
      BY <3>1, <3>2, <3>3
  <2> QED
    BY <2>1, <2>2, <2>3
<1>9. c = d
  <2>1. Len(c) = h /\ Len(d) = h /\ c \in Seq(A) /\ d \in Seq(A)
    BY <1>5, <1>6, <1>7
  <2> QED
    BY <1>8, <2>1
<1> QED
  BY <1>2, <1>4, <1>9

\* A sequence that is not empty is one that has something appended.
LEMMA LastAppended ==
    ASSUME NEW A, NEW s \in Seq(A), s # <<>>
    PROVE  \E r \in Seq(A), x \in A : s = Append(r, x) /\ Len(r) = Len(s) - 1
<1>1. PICK n \in Nat : n = Len(s) /\ n # 0
  OBVIOUS
<1>2. PICK r : r = [i \in 1..(n - 1) |-> s[i]]
  OBVIOUS
<1>3. r \in Seq(A) /\ Len(r) = n - 1 /\ \A i \in 1..(n - 1) : r[i] = s[i]
  BY <1>1, <1>2
<1>4. s[n] \in A
  BY <1>1
<1>5. s = Append(r, s[n])
  BY <1>1, <1>3, <1>4
<1> QED
  BY <1>1, <1>3, <1>4, <1>5

\* A set that has the empty sequence, and each it has with one more element,
\* has all sequences.
LEMMA SeqInduct ==
    ASSUME NEW A, NEW T, <<>> \in T,
           \A s \in Seq(A), x \in A : s \in T => Append(s, x) \in T
    PROVE  \A s \in Seq(A) : s \in T
<1> DEFINE All == {n \in Nat : \A s \in Seq(A) : Len(s) = n => s \in T}
<1>1. 0 \in All
  OBVIOUS
<1>2. ASSUME NEW n \in Nat, n \in All PROVE n + 1 \in All
  <2> SUFFICES ASSUME NEW s \in Seq(A), Len(s) = n + 1 PROVE s \in T
    OBVIOUS
  <2>1. s # <<>>
    BY <1>2
  <2>2. PICK r \in Seq(A), x \in A : s = Append(r, x) /\ Len(r) = Len(s) - 1
    BY <2>1, LastAppended
  <2>3. r \in T
    BY <1>2, <2>2
  <2> QED
    BY <2>2, <2>3, Zenon
<1>3. \A n \in Nat : n \in All
  <2> HIDE DEF All
  <2> QED
    BY <1>1, <1>2, NatInduct
<1> QED
  BY <1>3

----------------------------------------------------------------------------
(* Folds.                                                                   *)

Folded(t, s) == FoldLeft(Step, t, s)

\* The function in the definition of FoldLeft.
Iterating(g, t, s, D) ==
    g = [d \in SUBSET D |-> IF d = {} THEN t ELSE Step(g[d \ {Max(d)}], s[Max(d)])]

LEMMA FoldIs ==
    ASSUME NEW t, NEW s, NEW D, D = DOMAIN s
    PROVE  Folded(t, s) = (CHOOSE g : Iterating(g, t, s, D))[D]
  BY Zenon DEF Folded, FoldLeft, MapThenFoldSet, Iterating

LEMMA MaxOfUpto ==
    ASSUME NEW n \in Nat, NEW d \in SUBSET (1..n), n \in d
    PROVE  Max(d) = n
<1>1. \A y \in d : n >= y
  OBVIOUS
<1>2. PICK m : m = Max(d)
  OBVIOUS
<1>3. m \in d /\ \A y \in d : m >= y
  BY <1>1, <1>2, Zenon DEF Max
<1> QED
  BY <1>1, <1>2, <1>3

LEMMA IterateMore ==
    ASSUME NEW t, NEW s, NEW n \in Nat, n # 0, NEW f, Iterating(f, t, s, 1..(n - 1))
    PROVE  \E g : Iterating(g, t, s, 1..n)
<1>1. PICK D : D = 1..n
  OBVIOUS
<1>2. PICK E : E = 1..(n - 1)
  OBVIOUS
<1>3. D = E \cup {n} /\ n \notin E /\ n \in D
  BY <1>1, <1>2
<1>4. PICK g : g = [d \in SUBSET D |-> IF n \in d THEN Step(f[d \ {n}], s[n]) ELSE f[d]]
  OBVIOUS
<1>5. \A d \in SUBSET E : f[d] = IF d = {} THEN t ELSE Step(f[d \ {Max(d)}], s[Max(d)])
  <2>1. Iterating(f, t, s, E)
    BY <1>2
  <2> QED
    BY <2>1, Zenon DEF Iterating
<1>6. \A d \in SUBSET D : g[d] = IF d = {} THEN t ELSE Step(g[d \ {Max(d)}], s[Max(d)])
  <2> SUFFICES ASSUME NEW d \in SUBSET D
               PROVE  g[d] = IF d = {} THEN t ELSE Step(g[d \ {Max(d)}], s[Max(d)])
    OBVIOUS
  <2>1. CASE n \in d
    <3>1. Max(d) = n
      BY <1>1, <2>1, MaxOfUpto
    <3>2. d \ {n} \in SUBSET D /\ n \notin d \ {n}
      OBVIOUS
    <3>3. g[d \ {n}] = f[d \ {n}]
      BY <1>4, <3>2
    <3>4. g[d] = Step(f[d \ {n}], s[n])
      BY <1>4, <2>1
    <3> QED
      BY <2>1, <3>1, <3>3, <3>4
  <2>2. CASE n \notin d
    <3>1. d \in SUBSET E /\ g[d] = f[d]
      BY <1>3, <1>4, <2>2
    <3>2. d \ {Max(d)} \in SUBSET D /\ n \notin d \ {Max(d)}
      BY <2>2
    <3>3. g[d \ {Max(d)}] = f[d \ {Max(d)}]
      BY <1>4, <3>2
    <3> QED
      BY <1>5, <3>1, <3>3, Zenon
  <2> QED
    BY <2>1, <2>2
<1>7. g = [d \in SUBSET D |-> g[d]]
  BY <1>4
<1>8. g = [d \in SUBSET D |-> IF d = {} THEN t ELSE Step(g[d \ {Max(d)}], s[Max(d)])]
  BY <1>6, <1>7, Zenon
<1> QED
  BY <1>1, <1>8, Zenon DEF Iterating

LEMMA IterateExists ==
    ASSUME NEW t, NEW s
    PROVE  \A n \in Nat : \E g : Iterating(g, t, s, 1..n)
<1> DEFINE T == {n \in Nat : \E g : Iterating(g, t, s, 1..n)}
<1>1. 0 \in T
  <2>1. PICK g : g = [d \in SUBSET (1..0) |-> t]
    OBVIOUS
  <2>2. \A d \in SUBSET (1..0) : d = {}
    OBVIOUS
  <2>3. g = [d \in SUBSET (1..0) |-> IF d = {} THEN t ELSE Step(g[d \ {Max(d)}], s[Max(d)])]
    BY <2>1, <2>2, Zenon
  <2>4. \E h : Iterating(h, t, s, 1..0)
    BY <2>3, Zenon DEF Iterating
  <2> QED
    BY <2>4, Zenon
<1>2. ASSUME NEW n \in Nat, n \in T PROVE n + 1 \in T
  <2>1. PICK f : Iterating(f, t, s, 1..n)
    BY <1>2, Zenon
  <2>2. n + 1 \in Nat /\ n + 1 # 0 /\ (n + 1) - 1 = n
    OBVIOUS
  <2>3. Iterating(f, t, s, 1..((n + 1) - 1))
    BY <2>1, <2>2
  <2>4. \E g : Iterating(g, t, s, 1..(n + 1))
    BY <2>2, <2>3, IterateMore
  <2> QED
    BY <2>2, <2>4, Zenon
<1>3. \A n \in Nat : n \in T
  <2> HIDE DEF T
  <2> QED
    BY <1>1, <1>2, NatInduct
<1> QED
  BY <1>3

\* What is folded after each element.
Folding(h, t, s, n) == h[0] = t /\ \A i \in 1..n : h[i] = Step(h[i - 1], s[i])

LEMMA FoldExists ==
    ASSUME NEW t, NEW A, NEW s \in Seq(A)
    PROVE  \E h : Folding(h, t, s, Len(s)) /\ Folded(t, s) = h[Len(s)]
<1>1. PICK n \in Nat : n = Len(s) /\ 1..n = DOMAIN s
  OBVIOUS
<1>2. PICK g : g = CHOOSE f : Iterating(f, t, s, 1..n)
  OBVIOUS
<1>3. Iterating(g, t, s, 1..n)
  BY <1>2, IterateExists, Zenon
<1>4. Folded(t, s) = g[1..n]
  BY <1>1, <1>2, FoldIs
<1>5. PICK h : h = [i \in 0..n |-> g[1..i]]
  OBVIOUS
<1>6. \A d \in SUBSET (1..n) : g[d] = IF d = {} THEN t ELSE Step(g[d \ {Max(d)}], s[Max(d)])
  BY <1>3, Zenon DEF Iterating
<1>7. h[0] = t
  <2>1. 1..0 = {} /\ 1..0 \in SUBSET (1..n)
    OBVIOUS
  <2>2. h[0] = g[1..0]
    BY <1>5
  <2> QED
    BY <1>6, <2>1, <2>2, Zenon
<1>8. ASSUME NEW i \in 1..n PROVE h[i] = Step(h[i - 1], s[i])
  <2>1. PICK d : d = 1..i
    OBVIOUS
  <2>2. i \in Nat /\ d \in SUBSET (1..i) /\ d \in SUBSET (1..n) /\ i \in d /\ d # {} /\ d \ {i} = 1..(i - 1)
    BY <2>1
  <2>3. Max(d) = i
    BY <2>2, MaxOfUpto
  <2>4. g[d] = Step(g[1..(i - 1)], s[i])
    BY <1>6, <2>2, <2>3
  <2>5. h[i] = g[d] /\ h[i - 1] = g[1..(i - 1)]
    BY <1>5, <2>1
  <2> QED
    BY <2>4, <2>5
<1>9. h[n] = g[1..n]
  BY <1>5
<1> QED
  BY <1>1, <1>4, <1>7, <1>8, <1>9, Zenon DEF Folding

\* There is one way to fold.
LEMMA FoldingAgrees ==
    ASSUME NEW t, NEW s, NEW n \in Nat, NEW h, NEW k, Folding(h, t, s, n), Folding(k, t, s, n)
    PROVE  h[n] = k[n]
<1> DEFINE T == {i \in Nat : i <= n => h[i] = k[i]}
<1>1. 0 \in T
  BY DEF Folding
<1>2. ASSUME NEW i \in Nat, i \in T PROVE i + 1 \in T
  <2> SUFFICES ASSUME i + 1 <= n PROVE h[i + 1] = k[i + 1]
    OBVIOUS
  <2>1. i + 1 \in 1..n /\ (i + 1) - 1 = i /\ h[i] = k[i]
    BY <1>2
  <2>2. h[i + 1] = Step(h[(i + 1) - 1], s[i + 1]) /\ k[i + 1] = Step(k[(i + 1) - 1], s[i + 1])
    BY <2>1, Zenon DEF Folding
  <2> QED
    BY <2>1, <2>2
<1>3. \A i \in Nat : i \in T
  <2> HIDE DEF T
  <2> QED
    BY <1>1, <1>2, NatInduct
<1> QED
  BY <1>3

\* What has the results of the steps has the fold's.
LEMMA FoldIsLast ==
    ASSUME NEW t, NEW A, NEW s \in Seq(A), NEW h, Folding(h, t, s, Len(s))
    PROVE  Folded(t, s) = h[Len(s)]
<1>1. PICK k : Folding(k, t, s, Len(s)) /\ Folded(t, s) = k[Len(s)]
  BY FoldExists
<1>2. Len(s) \in Nat
  OBVIOUS
<1> QED
  BY <1>1, <1>2, FoldingAgrees

LEMMA FoldEmpty ==
    ASSUME NEW t
    PROVE  Folded(t, <<>>) = t
<1>1. PICK s : s = <<>>
  OBVIOUS
<1>2. s \in Seq({}) /\ Len(s) = 0
  BY <1>1
<1>3. PICK h : Folding(h, t, s, Len(s)) /\ Folded(t, s) = h[Len(s)]
  BY <1>2, FoldExists
<1> QED
  BY <1>1, <1>2, <1>3 DEF Folding

\* The last element is folded in last.
LEMMA FoldAppend ==
    ASSUME NEW t, NEW A, NEW s \in Seq(A), NEW x \in A
    PROVE  Folded(t, Append(s, x)) = Step(Folded(t, s), x)
<1>1. PICK r \in Seq(A) : r = Append(s, x)
  BY AppendIs
<1>2. PICK n \in Nat : n = Len(s)
  OBVIOUS
<1>3. Len(r) = n + 1 /\ r[n + 1] = x /\ \A i \in 1..n : r[i] = s[i]
  BY <1>1, <1>2, AppendIs
<1>4. PICK h : Folding(h, t, r, n + 1) /\ Folded(t, r) = h[n + 1]
  BY <1>3, FoldExists
<1>5. h[0] = t /\ \A i \in 1..(n + 1) : h[i] = Step(h[i - 1], r[i])
  BY <1>4, Zenon DEF Folding
<1>6. \A i \in 1..n : h[i] = Step(h[i - 1], s[i])
  <2> SUFFICES ASSUME NEW i \in 1..n PROVE h[i] = Step(h[i - 1], s[i])
    OBVIOUS
  <2>1. i \in 1..(n + 1) /\ r[i] = s[i]
    BY <1>3
  <2> QED
    BY <1>5, <2>1
<1>7. Folded(t, s) = h[n]
  <2>1. Folding(h, t, s, Len(s))
    BY <1>2, <1>5, <1>6, Zenon DEF Folding
  <2> QED
    BY <1>2, <2>1, FoldIsLast
<1>8. n + 1 \in 1..(n + 1) /\ (n + 1) - 1 = n
  OBVIOUS
<1>9. h[n + 1] = Step(h[(n + 1) - 1], r[n + 1])
  BY <1>5, <1>8, Zenon
<1> QED
  BY <1>1, <1>3, <1>4, <1>7, <1>8, <1>9

LEMMA FoldOne ==
    ASSUME NEW t, NEW x
    PROVE  Folded(t, <<x>>) = Step(t, x)
<1>1. <<>> \in Seq({x}) /\ x \in {x} /\ Append(<<>>, x) = <<x>>
  OBVIOUS
<1>2. Folded(t, Append(<<>>, x)) = Step(Folded(t, <<>>), x)
  BY <1>1, FoldAppend
<1> QED
  BY <1>1, <1>2, FoldEmpty

\* Folding over two sequences in a row is folding over the second from where the
\* first ended: a screen written in parts is the screen written at once
\* (editor.go, refresh and tail).
LEMMA FoldConcat ==
    ASSUME NEW t, NEW A, NEW s \in Seq(A), NEW r \in Seq(A)
    PROVE  Folded(t, s \o r) = Folded(Folded(t, s), r)
<1>1. PICK u : u = Folded(t, s)
  OBVIOUS
<1> DEFINE T == {q \in Seq(A) : Folded(t, s \o q) = Folded(u, q)}
<1>2. <<>> \in T
  <2>1. s \o <<>> = s /\ <<>> \in Seq(A)
    OBVIOUS
  <2>2. Folded(t, s \o <<>>) = Folded(u, <<>>)
    BY <1>1, <2>1, FoldEmpty
  <2> QED
    BY <2>1, <2>2
<1>3. ASSUME NEW q \in Seq(A), NEW x \in A, q \in T PROVE Append(q, x) \in T
  <2>1. s \o q \in Seq(A) /\ s \o Append(q, x) = Append(s \o q, x) /\ Append(q, x) \in Seq(A)
    OBVIOUS
  <2>2. Folded(t, s \o q) = Folded(u, q)
    BY <1>3
  <2>3. Folded(t, Append(s \o q, x)) = Step(Folded(t, s \o q), x)
    BY <2>1, FoldAppend
  <2>4. Folded(u, Append(q, x)) = Step(Folded(u, q), x)
    BY FoldAppend
  <2>5. Folded(t, s \o Append(q, x)) = Folded(u, Append(q, x))
    BY <2>1, <2>2, <2>3, <2>4
  <2> QED
    BY <2>1, <2>5
<1>4. \A q \in Seq(A) : q \in T
  <2> HIDE DEF T
  <2> QED
    BY <1>2, <1>3, SeqInduct
<1>5. Folded(t, s \o r) = Folded(u, r)
  BY <1>4
<1> QED
  BY <1>1, <1>5

Keeps(S, A) == \A a \in S, x \in A : Step(a, x) \in S

\* What every step keeps in a set stays in it.
LEMMA FoldKeeps ==
    ASSUME NEW A, NEW S, NEW t, t \in S, NEW s \in Seq(A), Keeps(S, A)
    PROVE  Folded(t, s) \in S
<1>0. ASSUME NEW q \in Seq(A), NEW x \in A
      PROVE  Folded(t, Append(q, x)) = Step(Folded(t, q), x)
  BY FoldAppend
<1> DEFINE T == {q \in Seq(A) : Folded(t, q) \in S}
<1>1. <<>> \in T
  <2>1. <<>> \in Seq(A) /\ Folded(t, <<>>) = t
    BY FoldEmpty
  <2> QED
    BY <2>1
<1>2. ASSUME NEW q \in Seq(A), NEW x \in A, q \in T PROVE Append(q, x) \in T
  <2>1. Folded(t, q) \in S
    BY <1>2
  <2>2. Folded(t, Append(q, x)) = Step(Folded(t, q), x)
    BY <1>0
  <2>3. Append(q, x) \in Seq(A)
    BY AppendIs
  <2> QED
    BY <2>1, <2>2, <2>3 DEF Keeps
<1>3. \A q \in Seq(A) : q \in T
  <2> HIDE DEF T
  <2> QED
    BY <1>1, <1>2, SeqInduct
<1> QED
  BY <1>3


----------------------------------------------------------------------------
(* Sequences of sequences.                                                  *)

\* The function in the definition of FlattenSeq, up to n.
Flattening(g, z, n) == g = [i \in 1..n |-> IF i = 1 THEN z[i] ELSE g[i - 1] \o z[i]]

LEMMA FlattenIs ==
    ASSUME NEW z
    PROVE  FlattenSeq(z) = IF Len(z) = 0 THEN z ELSE (CHOOSE g : Flattening(g, z, Len(z)))[Len(z)]
  BY Zenon DEF FlattenSeq, Flattening

LEMMA FlattenMore ==
    ASSUME NEW z
    PROVE  \A n \in Nat : \E g : Flattening(g, z, n)
<1> DEFINE T == {k \in Nat : \E g : Flattening(g, z, k)}
<1>3. 0 \in T
  <2>1. PICK g : g = [i \in 1..0 |-> z[i]]
    OBVIOUS
  <2>2. g = [i \in 1..0 |-> IF i = 1 THEN z[i] ELSE g[i - 1] \o z[i]]
    BY <2>1
  <2> QED
    BY <2>2 DEF Flattening
<1>4. ASSUME NEW k \in Nat, k \in T PROVE k + 1 \in T
  <2>1. PICK g : g = [i \in 1..k |-> IF i = 1 THEN z[i] ELSE g[i - 1] \o z[i]]
    BY <1>4 DEF Flattening
  <2>2. PICK h : h = [i \in 1..(k + 1) |-> IF i = k + 1 THEN (IF i = 1 THEN z[i] ELSE g[i - 1] \o z[i]) ELSE g[i]]
    OBVIOUS
  <2>3. ASSUME NEW i \in 1..(k + 1) PROVE h[i] = IF i = 1 THEN z[i] ELSE h[i - 1] \o z[i]
    <3>1. i # 1 => i - 1 \in 1..(k + 1) /\ i - 1 # k + 1
      OBVIOUS
    <3>2. i # 1 => h[i - 1] = g[i - 1]
      BY <2>2, <3>1
    <3>3. CASE i = k + 1
      BY <2>2, <3>2, <3>3
    <3>4. CASE i # k + 1
      <4>1. i \in 1..k
        BY <3>4
      <4>2. h[i] = g[i]
        BY <2>2, <3>4
      <4>3. g[i] = IF i = 1 THEN z[i] ELSE g[i - 1] \o z[i]
        BY <2>1, <4>1
      <4> QED
        BY <3>2, <4>2, <4>3
    <3> QED
      BY <3>3, <3>4
  <2>4. h = [i \in 1..(k + 1) |-> IF i = 1 THEN z[i] ELSE h[i - 1] \o z[i]]
    BY <2>2, <2>3
  <2>5. \E f : Flattening(f, z, k + 1)
    BY <2>4, Zenon DEF Flattening
  <2> QED
    BY <2>5
<1>5. \A k \in Nat : k \in T
  <2> HIDE DEF T
  <2> QED
    BY <1>3, <1>4, NatInduct
<1> QED
  BY <1>5

\* What is joined after each sequence.
Joining(h, z, n) == h[0] = <<>> /\ \A i \in 1..n : h[i] = h[i - 1] \o z[i]

LEMMA JoinExists ==
    ASSUME NEW S, NEW z \in Seq(Seq(S))
    PROVE  \E h : Joining(h, z, Len(z)) /\ FlattenSeq(z) = h[Len(z)]
<1>1. PICK n \in Nat : n = Len(z)
  OBVIOUS
<1>2. PICK g : g = CHOOSE f : Flattening(f, z, n)
  OBVIOUS
<1>3. Flattening(g, z, n)
  <2>1. \E f : Flattening(f, z, n)
    BY FlattenMore
  <2> QED
    BY <1>2, <2>1, Zenon
<1>4. PICK h : h = [i \in 0..n |-> IF i = 0 THEN <<>> ELSE g[i]]
  OBVIOUS
<1>5. ASSUME NEW i \in 1..n PROVE h[i] = h[i - 1] \o z[i]
  <2>1. z[i] \in Seq(S) /\ h[i] = g[i]
    BY <1>1, <1>4
  <2>2. g[i] = IF i = 1 THEN z[i] ELSE g[i - 1] \o z[i]
    BY <1>3 DEF Flattening
  <2>3. CASE i = 1
    <3>1. h[i - 1] = <<>> /\ <<>> \o z[i] = z[i]
      BY <1>4, <2>1, <2>3
    <3> QED
      BY <2>1, <2>2, <2>3, <3>1
  <2>4. CASE i # 1
    <3>1. h[i - 1] = g[i - 1]
      BY <1>4, <2>4
    <3> QED
      BY <2>1, <2>2, <2>4, <3>1
  <2> QED
    BY <2>3, <2>4
<1>6. h[0] = <<>>
  BY <1>4
<1>7. FlattenSeq(z) = h[n]
  <2>1. CASE n = 0
    <3>1. z = <<>> /\ Len(z) = 0
      <4>1. Len(z) = 0
        BY <1>1, <2>1
      <4> QED
        BY <4>1, ElementsAre, Zenon
    <3>2. FlattenSeq(z) = z
      BY <3>1, FlattenIs, Zenon
    <3> QED
      BY <1>6, <2>1, <3>1, <3>2
  <2>2. CASE n # 0
    <3>1. FlattenSeq(z) = g[n]
      BY <1>1, <1>2, <2>2, FlattenIs, Zenon
    <3>2. h[n] = g[n]
      BY <1>4, <2>2
    <3> QED
      BY <3>1, <3>2
  <2> QED
    BY <2>1, <2>2
<1> QED
  BY <1>1, <1>5, <1>6, <1>7 DEF Joining

LEMMA JoiningAgrees ==
    ASSUME NEW S, NEW z, NEW n \in Nat, NEW h, NEW k, Joining(h, z, n), Joining(k, z, n),
           \A i \in 1..n : z[i] \in Seq(S)
    PROVE  h[n] = k[n] /\ h[n] \in Seq(S)
<1> DEFINE T == {i \in Nat : i <= n => h[i] = k[i] /\ h[i] \in Seq(S)}
<1>1. 0 \in T
  <2>1. <<>> \in Seq(S)
    OBVIOUS
  <2> QED
    BY <2>1 DEF Joining
<1>2. ASSUME NEW i \in Nat, i \in T PROVE i + 1 \in T
  <2> SUFFICES ASSUME i + 1 <= n PROVE h[i + 1] = k[i + 1] /\ h[i + 1] \in Seq(S)
    OBVIOUS
  <2>1. i + 1 \in 1..n /\ (i + 1) - 1 = i /\ h[i] = k[i] /\ h[i] \in Seq(S)
    BY <1>2
  <2>2. h[i + 1] = h[(i + 1) - 1] \o z[i + 1] /\ k[i + 1] = k[(i + 1) - 1] \o z[i + 1]
    BY <2>1, Zenon DEF Joining
  <2>3. PICK a \in Seq(S), b \in Seq(S) : a = h[i] /\ b = z[i + 1]
    BY <2>1
  <2>4. a \o b \in Seq(S)
    BY ConcatIs
  <2> QED
    BY <2>1, <2>2, <2>3, <2>4
<1>3. \A i \in Nat : i \in T
  <2> HIDE DEF T
  <2> QED
    BY <1>1, <1>2, NatInduct
<1> QED
  BY <1>3

LEMMA FlattenTyped ==
    ASSUME NEW S, NEW z \in Seq(Seq(S))
    PROVE  FlattenSeq(z) \in Seq(S) /\ (z = <<>> => FlattenSeq(z) = <<>>)
<1>1. PICK h : Joining(h, z, Len(z)) /\ FlattenSeq(z) = h[Len(z)]
  BY JoinExists
<1>2. Len(z) \in Nat /\ \A i \in 1..Len(z) : z[i] \in Seq(S)
  OBVIOUS
<1>3. h[Len(z)] \in Seq(S)
  BY <1>1, <1>2, JoiningAgrees
<1>4. ASSUME z = <<>> PROVE h[Len(z)] = <<>>
  BY <1>1, <1>4 DEF Joining
<1> QED
  BY <1>1, <1>3, <1>4

LEMMA FlattenAppend ==
    ASSUME NEW S, NEW z \in Seq(Seq(S)), NEW x \in Seq(S)
    PROVE  FlattenSeq(Append(z, x)) = FlattenSeq(z) \o x
<1>1. PICK r \in Seq(Seq(S)) : r = Append(z, x)
  BY AppendIs
<1>2. PICK n \in Nat : n = Len(z)
  OBVIOUS
<1>3. Len(r) = n + 1 /\ r[n + 1] = x /\ \A i \in 1..n : r[i] = z[i]
  BY <1>1, <1>2, AppendIs
<1>4. PICK h : Joining(h, r, n + 1) /\ FlattenSeq(r) = h[n + 1]
  BY <1>3, JoinExists
<1>5. h[0] = <<>> /\ \A i \in 1..(n + 1) : h[i] = h[i - 1] \o r[i]
  BY <1>4, Zenon DEF Joining
<1>6. \A i \in 1..n : h[i] = h[i - 1] \o z[i]
  <2> SUFFICES ASSUME NEW i \in 1..n PROVE h[i] = h[i - 1] \o z[i]
    OBVIOUS
  <2>1. i \in 1..(n + 1) /\ r[i] = z[i]
    BY <1>3
  <2> QED
    BY <1>5, <2>1
<1>7. FlattenSeq(z) = h[n]
  <2>1. Joining(h, z, n)
    BY <1>5, <1>6, Zenon DEF Joining
  <2>2. PICK k : Joining(k, z, n) /\ FlattenSeq(z) = k[n]
    BY <1>2, JoinExists
  <2>3. \A i \in 1..n : z[i] \in Seq(S)
    BY <1>2
  <2> QED
    BY <2>1, <2>2, <2>3, JoiningAgrees
<1>8. n + 1 \in 1..(n + 1) /\ (n + 1) - 1 = n
  OBVIOUS
<1>9. h[n + 1] = h[(n + 1) - 1] \o r[n + 1]
  BY <1>5, <1>8, Zenon
<1> QED
  BY <1>1, <1>3, <1>4, <1>7, <1>8, <1>9

LEMMA FlattenEmpty == FlattenSeq(<<>>) = <<>>
<1>1. <<>> \in Seq(Seq({}))
  OBVIOUS
<1> QED
  BY <1>1, FlattenTyped

LEMMA FlattenConcat ==
    ASSUME NEW S, NEW z \in Seq(Seq(S)), NEW y \in Seq(Seq(S))
    PROVE  FlattenSeq(z \o y) = FlattenSeq(z) \o FlattenSeq(y)
<1>1. PICK u \in Seq(S) : u = FlattenSeq(z)
  BY FlattenTyped
<1> DEFINE T == {q \in Seq(Seq(S)) : FlattenSeq(z \o q) = u \o FlattenSeq(q)}
<1>2. <<>> \in T
  <2>1. z \o <<>> = z /\ <<>> \in Seq(Seq(S)) /\ u \o <<>> = u
    BY AllIs
  <2> QED
    BY <1>1, <2>1, FlattenEmpty
<1>3. ASSUME NEW q \in Seq(Seq(S)), NEW x \in Seq(S), q \in T PROVE Append(q, x) \in T
  <2>1. z \o q \in Seq(Seq(S)) /\ z \o Append(q, x) = Append(z \o q, x) /\ Append(q, x) \in Seq(Seq(S))
    <3>1. PICK B : B = Seq(S)
      OBVIOUS
    <3>2. z \in Seq(B) /\ q \in Seq(B) /\ x \in B
      BY <3>1
    <3>3. z \o q \in Seq(B) /\ z \o Append(q, x) = Append(z \o q, x) /\ Append(q, x) \in Seq(B)
      BY <3>2
    <3> QED
      BY <3>1, <3>3
  <2>2. PICK v \in Seq(S) : v = FlattenSeq(q)
    BY FlattenTyped
  <2>3. FlattenSeq(Append(z \o q, x)) = FlattenSeq(z \o q) \o x
    BY <2>1, FlattenAppend
  <2>4. FlattenSeq(Append(q, x)) = v \o x
    BY <2>2, FlattenAppend
  <2>5. FlattenSeq(z \o q) = u \o v
    BY <1>3, <2>2
  <2>6. (u \o v) \o x = u \o (v \o x)
    BY ConcatAssoc
  <2> QED
    BY <2>1, <2>3, <2>4, <2>5, <2>6
<1>4. \A q \in Seq(Seq(S)) : q \in T
  <2> HIDE DEF T
  <2> QED
    BY <1>2, <1>3, SeqInduct
<1>5. FlattenSeq(z \o y) = u \o FlattenSeq(y)
  BY <1>4
<1> QED
  BY <1>1, <1>5
=============================================================================
