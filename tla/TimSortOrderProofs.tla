------------------------- MODULE TimSortOrderProofs -------------------------
(***************************************************************************)
(* For arrays of every length and every way their keys compare: the sort   *)
(* is a stable sort, and a permutation.  The invariant, OrderInv, says     *)
(* that runs are in order and that no element has crossed the start of a   *)
(* run, or an end of the part being looked at: what lies on one side of    *)
(* such a place still comes before all on the other in the input.  Without *)
(* it, nothing could be said of equal keys in two runs that are merged.    *)
(*                                                                         *)
(* The search and the merges are recursive functions, so that each is      *)
(* first shown to exist (Recursion), from the least element of a set of    *)
(* natural numbers; what they return is shown the same way.                *)
(***************************************************************************)
EXTENDS TimSortProofs, FiniteSetTheorems

-----------------------------------------------------------------------------
(* Recursive functions *)

\* Every non-empty set of natural numbers has a least element.
LEMMA LeastElement ==
  ASSUME NEW N \in SUBSET Nat, N # {}
  PROVE  \E m \in N : \A k \in N : m <= k
<1>1. PICK m \in N : \A k \in N : <<k, m>> \notin OpToRel(<, Nat)
  BY WFMin, NatLessThanWellFounded, Zenon
<1>2. \A k \in N : ~(k < m)
  BY <1>1, Zenon DEF OpToRel
<1>3. m \in Nat /\ \A k \in N : k \in Nat
  OBVIOUS
<1> QED
  BY <1>2, <1>3

\* A set in which no element is the first by some rank is empty.
LEMMA NoneIsFirst ==
  ASSUME NEW D, NEW rank \in [D -> Nat], NEW W \in SUBSET D,
         \A w \in W : \E v \in W : rank[v] < rank[w]
  PROVE  W = {}
<1> SUFFICES ASSUME W # {} PROVE FALSE
  OBVIOUS
<1> DEFINE R == {rank[w] : w \in W}
<1>1. R \in SUBSET Nat /\ R # {}
  OBVIOUS
<1>2. PICK m \in R : \A k \in R : m <= k
  BY <1>1, LeastElement, Zenon
<1>3. PICK w \in W : m = rank[w]
  BY <1>2
<1>4. PICK v \in W : rank[v] < rank[w]
  OBVIOUS
<1>5. rank[v] \in R /\ rank[v] \in Nat /\ rank[w] \in Nat
  OBVIOUS
<1>6. m <= rank[v]
  BY <1>2, <1>5
<1> QED
  BY <1>3, <1>4, <1>5, <1>6

\* f[x] is given, or made from f[next[x]].
Follows(x, stop, base, next, made, f) ==
  f[x] = IF x \in stop THEN base[x] ELSE made[x][f[next[x]]]

\* There is a function of that kind if next[x] comes before x.
LEMMA Recursion ==
  ASSUME NEW D, NEW S, NEW stop \in SUBSET D, NEW base \in [D -> S], NEW next \in [D -> D],
         NEW made \in [D -> [S -> S]], NEW rank \in [D -> Nat], NEW n \in Nat,
         \A x \in D : rank[x] <= n,
         \A x \in D \ stop : rank[next[x]] < rank[x]
  PROVE  \E f \in [D -> S] : \A x \in D : Follows(x, stop, base, next, made, f)
<1> DEFINE Below(m) == {x \in D : rank[x] < m}
           Good(m, f) == \A x \in Below(m) : Follows(x, stop, base, next, made, f)
           Bad == {m \in Nat : ~\E f \in [D -> S] : Good(m, f)}
<1>1. 0 \notin Bad
  <2>1. Below(0) = {}
    OBVIOUS
  <2> HIDE DEF Below
  <2>2. Good(0, base)
    BY <2>1
  <2> QED
    BY <2>2
<1>2. ASSUME NEW m \in Nat, NEW f \in [D -> S], Good(m, f)
      PROVE  \E g \in [D -> S] : Good(m + 1, g)
  <2> DEFINE g == [x \in D |-> IF x \in stop THEN base[x] ELSE made[x][f[next[x]]]]
  <2>1. g \in [D -> S]
    OBVIOUS
  <2>2. ASSUME NEW x \in Below(m + 1)
        PROVE  Follows(x, stop, base, next, made, g)
    <3>1. x \in D /\ rank[x] \in Nat /\ rank[x] <= m /\ next[x] \in D /\ rank[next[x]] \in Nat
      OBVIOUS
    <3>2. CASE x \in stop
      BY <3>1, <3>2 DEF Follows
    <3>3. CASE x \notin stop
      <4>1. next[x] \in Below(m)
        BY <3>1, <3>3
      <4>2. f[next[x]] = g[next[x]]
        BY <1>2, <3>1, <4>1 DEF Follows
      <4> QED
        BY <3>1, <3>3, <4>2 DEF Follows
    <3> QED
      BY <3>2, <3>3
  <2> HIDE DEF g
  <2> QED
    BY <2>1, <2>2
<1> HIDE DEF Good
<1>3. Bad = {}
  <2> SUFFICES ASSUME Bad # {} PROVE FALSE
    OBVIOUS
  <2>1. Bad \in SUBSET Nat
    OBVIOUS
  <2>2. PICK m \in Bad : \A k \in Bad : m <= k
    BY <2>1, LeastElement, Zenon
  <2>3. m \in Nat /\ m # 0
    BY <1>1
  <2>4. m - 1 \in Nat /\ m - 1 \notin Bad
    BY <2>2, <2>3
  <2>5. PICK f \in [D -> S] : Good(m - 1, f)
    BY <2>4
  <2>6. \E g \in [D -> S] : Good((m - 1) + 1, g)
    BY <2>4, <2>5, <1>2, Zenon
  <2>7. (m - 1) + 1 = m
    BY <2>3
  <2> QED
    BY <2>6, <2>7
<1>a. n + 1 \in Nat /\ n + 1 \notin Bad
  <2>1. n + 1 \in Nat
    OBVIOUS
  <2> HIDE DEF Bad
  <2>2. n + 1 \notin Bad
    BY <1>3, Zenon
  <2> QED
    BY <2>1, <2>2
<1>4. PICK f \in [D -> S] : Good(n + 1, f)
  BY <1>a
<1>5. \A x \in D : x \in Below(n + 1)
  OBVIOUS
<1> QED
  BY <1>4, <1>5 DEF Good
-----------------------------------------------------------------------------
(* Sequences in order *)

Element == Int \X Int

\* by keys, and by values where those are equal
Less(x, y) == x[1] < y[1] \/ (x[1] = y[1] /\ x[2] < y[2])
Ascends(s) == \A j, k \in 1..Len(s) : j < k => Less(s[j], s[k])

LEMMA Prepended ==
  ASSUME NEW x \in Element, NEW m \in Seq(Element), Ascends(m),
         \A k \in 1..Len(m) : Less(x, m[k])
  PROVE  /\ <<x>> \o m \in Seq(Element) /\ Len(<<x>> \o m) = Len(m) + 1
         /\ (<<x>> \o m)[1] = x /\ \A k \in 1..Len(m) : (<<x>> \o m)[k + 1] = m[k]
         /\ Ascends(<<x>> \o m)
<1> DEFINE w == <<x>> \o m
<1>1. w \in Seq(Element) /\ Len(w) = Len(m) + 1 /\ Len(m) \in Nat
  OBVIOUS
<1>2. w[1] = x /\ \A k \in 1..Len(m) : w[k + 1] = m[k]
  OBVIOUS
<1> HIDE DEF w
<1>3. ASSUME NEW j \in 1..Len(w), NEW k \in 1..Len(w), j < k PROVE Less(w[j], w[k])
  <2>1. k - 1 \in 1..Len(m) /\ (k - 1) + 1 = k
    BY <1>1, <1>3
  <2>2. w[k] = m[k - 1]
    BY <1>2, <2>1
  <2>3. CASE j = 1
    BY <2>1, <2>2, <2>3, <1>2
  <2>4. CASE j # 1
    <3>1. j - 1 \in 1..Len(m) /\ (j - 1) + 1 = j /\ j - 1 < k - 1
      BY <1>1, <1>3, <2>4
    <3>2. w[j] = m[j - 1]
      BY <1>2, <3>1
    <3> QED
      BY <2>1, <2>2, <3>1, <3>2 DEF Ascends
  <2> QED
    BY <2>3, <2>4
<1>4. Ascends(w)
  BY <1>3 DEF Ascends
<1> QED
  BY <1>1, <1>2, <1>4 DEF w

LEMMA Appended ==
  ASSUME NEW x \in Element, NEW m \in Seq(Element), Ascends(m),
         \A k \in 1..Len(m) : Less(m[k], x)
  PROVE  /\ Append(m, x) \in Seq(Element) /\ Len(Append(m, x)) = Len(m) + 1
         /\ Append(m, x)[Len(m) + 1] = x /\ \A k \in 1..Len(m) : Append(m, x)[k] = m[k]
         /\ Ascends(Append(m, x))
<1> DEFINE w == Append(m, x)
<1>1. w \in Seq(Element) /\ Len(w) = Len(m) + 1 /\ Len(m) \in Nat
  OBVIOUS
<1>2. w[Len(m) + 1] = x /\ \A k \in 1..Len(m) : w[k] = m[k]
  OBVIOUS
<1> HIDE DEF w
<1>3. ASSUME NEW j \in 1..Len(w), NEW k \in 1..Len(w), j < k PROVE Less(w[j], w[k])
  <2>1. j \in 1..Len(m) /\ w[j] = m[j]
    BY <1>1, <1>2, <1>3
  <2>2. CASE k = Len(m) + 1
    BY <2>1, <2>2, <1>2
  <2>3. CASE k # Len(m) + 1
    <3>1. k \in 1..Len(m) /\ w[k] = m[k]
      BY <1>1, <1>2, <2>3
    <3> QED
      BY <1>3, <2>1, <3>1 DEF Ascends
  <2> QED
    BY <2>2, <2>3
<1>4. Ascends(w)
  BY <1>3 DEF Ascends
<1> QED
  BY <1>1, <1>2, <1>4 DEF w

\* A part of an ascending sequence.
LEMMA PartAscends ==
  ASSUME NEW s \in Seq(Element), Ascends(s), NEW a \in 0..Len(s), NEW b \in 0..Len(s), a <= b
  PROVE  /\ SubSeq(s, a + 1, b) \in Seq(Element) /\ Len(SubSeq(s, a + 1, b)) = b - a
         /\ \A k \in 1..(b - a) : a + k \in 1..Len(s) /\ SubSeq(s, a + 1, b)[k] = s[a + k]
         /\ Ascends(SubSeq(s, a + 1, b))
<1> DEFINE w == SubSeq(s, a + 1, b)
<1>0. Len(s) \in Nat
  OBVIOUS
<1>2. Len(w) = b - a
  BY <1>0
<1>3. \A k \in 1..(b - a) : a + k \in 1..Len(s) /\ w[k] = s[a + k]
  BY <1>0
<1>1. w \in Seq(Element)
  BY <1>0
<1> HIDE DEF w
<1>4. Ascends(w)
  BY <1>0, <1>2, <1>3 DEF Ascends
<1> QED
  BY <1>1, <1>2, <1>3, <1>4 DEF w
-----------------------------------------------------------------------------
(* Merging *)

\* m holds the elements of s after the first i and those of t after the first j.
Rest(m, s, i, t, j) ==
  /\ m \in Seq(Element) /\ Len(m) = (Len(s) - i) + (Len(t) - j)
  /\ Ascends(m)
  /\ \A k \in 1..Len(m) : \/ \E a \in (i + 1)..Len(s) : m[k] = s[a]
                          \/ \E a \in (j + 1)..Len(t) : m[k] = t[a]

\* What is merged: two ascending sequences, with the values of s before those of t.
Mergeable(s, t) ==
  /\ s \in Seq(Element) /\ Ascends(s) /\ t \in Seq(Element) /\ Ascends(t)
  /\ \A j \in 1..Len(s), k \in 1..Len(t) : s[j][2] < t[k][2]

LEMMA ElementsOf ==
  ASSUME NEW s \in Seq(Element), NEW k \in 1..Len(s)
  PROVE  s[k] \in Element /\ s[k][1] \in Int /\ s[k][2] \in Int
<1>1. s[k] \in Element
  OBVIOUS
<1> QED
  BY <1>1 DEF Element

\* A comparison of x and y, and the side of y on which z lies, place x and z.
LEMMA LessBeyond ==
  ASSUME NEW x \in Element, NEW y \in Element, NEW z \in Element
  PROVE  /\ LE(x, y) /\ (z = y \/ Less(y, z)) /\ x[2] < z[2] => Less(x, z)
         /\ LE(y, x) /\ (z = y \/ Less(z, y)) /\ z[2] < x[2] => Less(z, x)
         /\ ~LE(y, x) /\ (z = y \/ Less(y, z)) => Less(x, z)
         /\ ~LE(x, y) /\ (z = y \/ Less(z, y)) => Less(z, x)
<1>1. /\ x[1] \in Int /\ y[1] \in Int /\ z[1] \in Int
  BY DEF Element
<1>2. PICK a \in Int : a = x[1]
  BY <1>1
<1>3. PICK b \in Int : b = y[1]
  BY <1>1
<1>4. PICK c \in Int : c = z[1]
  BY <1>1
<1>5. /\ a <= b /\ (c = b \/ b < c) => a < c \/ a = c
      /\ b <= a /\ (c = b \/ c < b) => c < a \/ c = a
      /\ ~(b <= a) /\ (c = b \/ b < c) => a < c
      /\ ~(a <= b) /\ (c = b \/ c < b) => c < a
  OBVIOUS
<1> QED
  BY <1>2, <1>3, <1>4, <1>5, Zenon DEF LE, Less

LEMMA RestFromLeft ==
  ASSUME NEW s, NEW t, Mergeable(s, t), NEW i \in 0..Len(s), NEW j \in 0..Len(t), NEW m,
         i < Len(s), j < Len(t), LE(s[i + 1], t[j + 1]), Rest(m, s, i + 1, t, j)
  PROVE  Rest(<<s[i + 1]>> \o m, s, i, t, j)
<1>0. Len(s) \in Nat /\ Len(t) \in Nat /\ s \in Seq(Element) /\ t \in Seq(Element)
  BY DEF Mergeable
<1>1. /\ m \in Seq(Element) /\ Ascends(m) /\ Len(m) \in Nat
      /\ Len(m) = (Len(s) - (i + 1)) + (Len(t) - j)
  BY DEF Rest
<1> DEFINE x == s[i + 1]
<1>2. i + 1 \in 1..Len(s) /\ j + 1 \in 1..Len(t) /\ x \in Element
  BY <1>0
<1>3. ASSUME NEW k \in 1..Len(m) PROVE Less(x, m[k])
  <2>1. CASE \E a \in ((i + 1) + 1)..Len(s) : m[k] = s[a]
    <3>1. PICK a \in ((i + 1) + 1)..Len(s) : m[k] = s[a]
      BY <2>1
    <3>2. a \in 1..Len(s) /\ i + 1 < a
      BY <1>0
    <3> QED
      BY <1>2, <3>1, <3>2 DEF Mergeable, Ascends
  <2>2. CASE \E a \in (j + 1)..Len(t) : m[k] = t[a]
    <3>1. PICK a \in (j + 1)..Len(t) : m[k] = t[a]
      BY <2>2
    <3>2. a \in 1..Len(t) /\ (a = j + 1 \/ j + 1 < a)
      BY <1>0
    <3>3. a = j + 1 \/ Less(t[j + 1], t[a])
      BY <1>2, <3>2 DEF Mergeable, Ascends
    <3>4. x[2] < t[a][2]
      BY <1>2, <3>2 DEF Mergeable
    <3>5. t[j + 1] \in Element /\ t[a] \in Element
      BY <1>0, <1>2, <3>2, ElementsOf
    <3>6. t[a] = t[j + 1] \/ Less(t[j + 1], t[a])
      BY <3>3
    <3> QED
      BY <1>2, <3>1, <3>4, <3>5, <3>6, LessBeyond
  <2> QED
    BY <2>1, <2>2 DEF Rest
<1> DEFINE w == <<x>> \o m
<1>4. /\ w \in Seq(Element) /\ Len(w) = Len(m) + 1 /\ w[1] = x
      /\ \A k \in 1..Len(m) : w[k + 1] = m[k]
      /\ Ascends(w)
  BY <1>1, <1>2, <1>3, Prepended
<1> HIDE DEF w, x
<1>5. ASSUME NEW k \in 1..Len(w)
      PROVE  \/ \E a \in (i + 1)..Len(s) : w[k] = s[a]
             \/ \E a \in (j + 1)..Len(t) : w[k] = t[a]
  <2>1. CASE k = 1
    BY <2>1, <1>0, <1>2, <1>4 DEF x
  <2>2. CASE k # 1
    <3>1. k - 1 \in 1..Len(m) /\ w[k] = m[k - 1]
      BY <1>1, <1>4, <2>2
    <3>2. /\ \A a \in ((i + 1) + 1)..Len(s) : a \in (i + 1)..Len(s)
      BY <1>0
    <3> QED
      BY <3>1, <3>2 DEF Rest
  <2> QED
    BY <2>1, <2>2
<1>6. Len(w) = (Len(s) - i) + (Len(t) - j)
  BY <1>0, <1>1, <1>4
<1> QED
  BY <1>4, <1>5, <1>6 DEF Rest, w, x

LEMMA RestFromRight ==
  ASSUME NEW s, NEW t, Mergeable(s, t), NEW i \in 0..Len(s), NEW j \in 0..Len(t), NEW m,
         i < Len(s), j < Len(t), ~LE(s[i + 1], t[j + 1]), Rest(m, s, i, t, j + 1)
  PROVE  Rest(<<t[j + 1]>> \o m, s, i, t, j)
<1>0. Len(s) \in Nat /\ Len(t) \in Nat /\ s \in Seq(Element) /\ t \in Seq(Element)
  BY DEF Mergeable
<1>1. /\ m \in Seq(Element) /\ Ascends(m) /\ Len(m) \in Nat
      /\ Len(m) = (Len(s) - i) + (Len(t) - (j + 1))
  BY DEF Rest
<1> DEFINE x == t[j + 1]
<1>2. i + 1 \in 1..Len(s) /\ j + 1 \in 1..Len(t) /\ x \in Element
  BY <1>0
<1>3. ASSUME NEW k \in 1..Len(m) PROVE Less(x, m[k])
  <2>1. CASE \E a \in ((j + 1) + 1)..Len(t) : m[k] = t[a]
    <3>1. PICK a \in ((j + 1) + 1)..Len(t) : m[k] = t[a]
      BY <2>1
    <3>2. a \in 1..Len(t) /\ j + 1 < a
      BY <1>0
    <3> QED
      BY <1>2, <3>1, <3>2 DEF Mergeable, Ascends
  <2>2. CASE \E a \in (i + 1)..Len(s) : m[k] = s[a]
    <3>1. PICK a \in (i + 1)..Len(s) : m[k] = s[a]
      BY <2>2
    <3>2. a \in 1..Len(s) /\ (a = i + 1 \/ i + 1 < a)
      BY <1>0
    <3>3. a = i + 1 \/ Less(s[i + 1], s[a])
      BY <1>2, <3>2 DEF Mergeable, Ascends
    <3>4. s[i + 1] \in Element /\ s[a] \in Element
      BY <1>0, <1>2, <3>2, ElementsOf
    <3>5. s[a] = s[i + 1] \/ Less(s[i + 1], s[a])
      BY <3>3
    <3> QED
      BY <1>2, <3>1, <3>4, <3>5, LessBeyond
  <2> QED
    BY <2>1, <2>2 DEF Rest
<1> DEFINE w == <<x>> \o m
<1>4. /\ w \in Seq(Element) /\ Len(w) = Len(m) + 1 /\ w[1] = x
      /\ \A k \in 1..Len(m) : w[k + 1] = m[k]
      /\ Ascends(w)
  BY <1>1, <1>2, <1>3, Prepended
<1> HIDE DEF w, x
<1>5. ASSUME NEW k \in 1..Len(w)
      PROVE  \/ \E a \in (i + 1)..Len(s) : w[k] = s[a]
             \/ \E a \in (j + 1)..Len(t) : w[k] = t[a]
  <2>1. CASE k = 1
    BY <2>1, <1>0, <1>2, <1>4 DEF x
  <2>2. CASE k # 1
    <3>1. k - 1 \in 1..Len(m) /\ w[k] = m[k - 1]
      BY <1>1, <1>4, <2>2
    <3>2. \A a \in ((j + 1) + 1)..Len(t) : a \in (j + 1)..Len(t)
      BY <1>0
    <3> QED
      BY <3>1, <3>2 DEF Rest
  <2> QED
    BY <2>1, <2>2
<1>6. Len(w) = (Len(s) - i) + (Len(t) - j)
  BY <1>0, <1>1, <1>4
<1> QED
  BY <1>4, <1>5, <1>6 DEF Rest, w, x

\* When one side is used up, what is left is a part of the other.
LEMMA RestEnds ==
  ASSUME NEW s, NEW t, Mergeable(s, t), NEW i \in 0..Len(s), NEW j \in 0..Len(t)
  PROVE  /\ i = Len(s) => Rest(SubSeq(t, j + 1, Len(t)), s, i, t, j)
         /\ j = Len(t) => Rest(SubSeq(s, i + 1, Len(s)), s, i, t, j)
<1>0. Len(s) \in Nat /\ Len(t) \in Nat /\ s \in Seq(Element) /\ t \in Seq(Element) /\ Ascends(s) /\ Ascends(t)
  BY DEF Mergeable
<1>1. ASSUME i = Len(s) PROVE Rest(SubSeq(t, j + 1, Len(t)), s, i, t, j)
  <2> DEFINE m == SubSeq(t, j + 1, Len(t))
  <2>1. /\ m \in Seq(Element) /\ Len(m) = Len(t) - j
        /\ \A k \in 1..(Len(t) - j) : j + k \in 1..Len(t) /\ m[k] = t[j + k]
        /\ Ascends(m)
    BY <1>0, PartAscends
  <2> HIDE DEF m
  <2>2. \A k \in 1..Len(m) : j + k \in (j + 1)..Len(t) /\ m[k] = t[j + k]
    BY <1>0, <2>1
  <2>3. Len(m) = (Len(s) - i) + (Len(t) - j)
    BY <1>0, <1>1, <2>1
  <2> QED
    BY <2>1, <2>2, <2>3 DEF Rest, m
<1>2. ASSUME j = Len(t) PROVE Rest(SubSeq(s, i + 1, Len(s)), s, i, t, j)
  <2> DEFINE m == SubSeq(s, i + 1, Len(s))
  <2>1. /\ m \in Seq(Element) /\ Len(m) = Len(s) - i
        /\ \A k \in 1..(Len(s) - i) : i + k \in 1..Len(s) /\ m[k] = s[i + k]
        /\ Ascends(m)
    BY <1>0, PartAscends
  <2> HIDE DEF m
  <2>2. \A k \in 1..Len(m) : i + k \in (i + 1)..Len(s) /\ m[k] = s[i + k]
    BY <1>0, <2>1
  <2>3. Len(m) = (Len(s) - i) + (Len(t) - j)
    BY <1>0, <1>2, <2>1
  <2> QED
    BY <2>1, <2>2, <2>3 DEF Rest, m
<1> QED
  BY <1>1, <1>2

\* The left merge, one turn of its loop.
LeftTurn(s, t, f, p) ==
  LET i == p[1]  j == p[2]
  IN IF i = Len(s) THEN SubSeq(t, j + 1, Len(t))
     ELSE IF j = Len(t) THEN SubSeq(s, i + 1, Len(s))
     ELSE IF LE(s[i + 1], t[j + 1]) THEN <<s[i + 1]>> \o f[<<i + 1, j>>]
     ELSE <<t[j + 1]>> \o f[<<i, j + 1>>]
LeftMade(s, t, f) == [p \in (0..Len(s)) \X (0..Len(t)) |-> LeftTurn(s, t, f, p)]

LEMMA LeftIs ==
  ASSUME NEW s, NEW t, NEW f, f = LeftMade(s, t, f)
  PROVE  \E g : g = LeftMade(s, t, g) /\ MergedLeft(s, t) = g[<<0, 0>>]
<1> DEFINE go[p \in (0..Len(s)) \X (0..Len(t))] ==
        LET i == p[1]  j == p[2]
        IN IF i = Len(s) THEN SubSeq(t, j + 1, Len(t))
           ELSE IF j = Len(t) THEN SubSeq(s, i + 1, Len(s))
           ELSE IF LE(s[i + 1], t[j + 1]) THEN <<s[i + 1]>> \o go[<<i + 1, j>>]
           ELSE <<t[j + 1]>> \o go[<<i, j + 1>>]
<1>1. go = CHOOSE g : g = LeftMade(s, t, g)
  BY DEF LeftMade, LeftTurn
<1>2. MergedLeft(s, t) = go[<<0, 0>>]
  BY DEF MergedLeft
<1> HIDE DEF go
<1>3. go = LeftMade(s, t, go)
  BY <1>1
<1> QED
  BY <1>3, <1>2

LEMMA LeftExists ==
  ASSUME NEW s, NEW t, Mergeable(s, t)
  PROVE  \E f : f = LeftMade(s, t, f)
<1>0. Len(s) \in Nat /\ Len(t) \in Nat /\ s \in Seq(Element) /\ t \in Seq(Element) /\ Ascends(s) /\ Ascends(t)
  BY DEF Mergeable
<1> DEFINE D == (0..Len(s)) \X (0..Len(t))
           S == Seq(Element)
           stop == {p \in D : p[1] = Len(s) \/ p[2] = Len(t)}
           base == [p \in D |-> IF p[1] = Len(s) THEN SubSeq(t, p[2] + 1, Len(t)) 
                                ELSE SubSeq(s, p[1] + 1, Len(s))]
           low(p) == LE(s[p[1] + 1], t[p[2] + 1])
           next == [p \in D |-> IF p \in stop THEN p ELSE IF low(p) THEN <<p[1] + 1, p[2]>> ELSE <<p[1], p[2] + 1>>]
           made == [p \in D |-> [m \in S |-> IF p \in stop THEN m ELSE IF low(p) THEN <<s[p[1] + 1]>> \o m ELSE <<t[p[2] + 1]>> \o m]]
           rank == [p \in D |-> (Len(s) - p[1]) + (Len(t) - p[2])]
<1>1. stop \in SUBSET D
  OBVIOUS
<1>2. base \in [D -> S]
  BY <1>0, PartAscends
<1>3. ASSUME NEW p \in D PROVE p[1] \in 0..Len(s) /\ p[2] \in 0..Len(t) /\ p = <<p[1], p[2]>>
  OBVIOUS
<1>4. ASSUME NEW p \in D \ stop
      PROVE  /\ <<p[1] + 1, p[2]>> \in D /\ <<p[1], p[2] + 1>> \in D
             /\ s[p[1] + 1] \in Element /\ t[p[2] + 1] \in Element
  BY <1>0, <1>3
<1>5. next \in [D -> D]
  BY <1>4
<1>6. made \in [D -> [S -> S]]
  <2>1. ASSUME NEW p \in D, NEW m \in S
        PROVE  (IF p \in stop THEN m ELSE IF low(p) THEN <<s[p[1] + 1]>> \o m ELSE <<t[p[2] + 1]>> \o m) \in S
    <3>1. CASE p \in stop
      BY <3>1
    <3>2. CASE p \notin stop
      <4>1. s[p[1] + 1] \in Element /\ t[p[2] + 1] \in Element
        BY <1>4, <3>2
      <4> HIDE DEF stop, D, low
      <4>2. <<s[p[1] + 1]>> \o m \in S /\ <<t[p[2] + 1]>> \o m \in S
        BY <4>1
      <4> QED
        BY <3>2, <4>2
    <3> QED
      BY <3>1, <3>2
  <2> HIDE DEF stop, D, low, S
  <2> QED
    BY <2>1
<1>7. rank \in [D -> Nat] /\ \A p \in D : rank[p] <= Len(s) + Len(t)
  <2>1. \A a \in 0..Len(s), b \in 0..Len(t) : LET n == (Len(s) - a) + (Len(t) - b)
                                              IN n \in Nat /\ n <= Len(s) + Len(t)
    BY <1>0
  <2>2. ASSUME NEW p \in D
        PROVE  (Len(s) - p[1]) + (Len(t) - p[2]) \in Nat /\ (Len(s) - p[1]) + (Len(t) - p[2]) <= Len(s) + Len(t)
    BY <1>3, <2>1
  <2> HIDE DEF D
  <2> QED
    BY <2>2
<1>8. \A p \in D \ stop : rank[next[p]] < rank[p]
  <2> SUFFICES ASSUME NEW p \in D \ stop PROVE rank[next[p]] < rank[p]
    OBVIOUS
  <2>1. next[p] = <<p[1] + 1, p[2]>> \/ next[p] = <<p[1], p[2] + 1>>
    OBVIOUS
  <2>2. p[1] \in 0..Len(s) /\ p[2] \in 0..Len(t)
    BY <1>3
  <2>3. rank[p] = (Len(s) - p[1]) + (Len(t) - p[2])
    OBVIOUS
  <2>4. CASE next[p] = <<p[1] + 1, p[2]>>
    <3>1. rank[<<p[1] + 1, p[2]>>] = (Len(s) - (p[1] + 1)) + (Len(t) - p[2])
      BY <1>4
    <3> QED
      BY <1>0, <2>2, <2>3, <2>4, <3>1
  <2>5. CASE next[p] = <<p[1], p[2] + 1>>
    <3>1. rank[<<p[1], p[2] + 1>>] = (Len(s) - p[1]) + (Len(t) - (p[2] + 1))
      BY <1>4
    <3> QED
      BY <1>0, <2>2, <2>3, <2>5, <3>1
  <2> QED
    BY <2>1, <2>4, <2>5
<1>9. Len(s) + Len(t) \in Nat
  BY <1>0
<1>10. \E f \in [D -> S] : \A p \in D : Follows(p, stop, base, next, made, f)
  <2> HIDE DEF D, S, stop, base, next, made, rank
  <2> QED
    BY <1>1, <1>2, <1>5, <1>6, <1>7, <1>8, <1>9, Recursion
<1>11. PICK f \in [D -> S] : \A p \in D : Follows(p, stop, base, next, made, f)
  BY <1>10
<1>12. ASSUME NEW p \in D PROVE f[p] = LeftTurn(s, t, f, p)
  <2>1. CASE p \in stop
    BY <1>11, <2>1 DEF Follows, LeftTurn
  <2>2. CASE p \notin stop
    <3>1. f[next[p]] \in S /\ f[p] = made[p][f[next[p]]]
      BY <1>5, <1>11, <2>2 DEF Follows
    <3>2. f[p] = IF low(p) THEN <<s[p[1] + 1]>> \o f[<<p[1] + 1, p[2]>>] ELSE <<t[p[2] + 1]>> \o f[<<p[1], p[2] + 1>>]
      BY <2>2, <3>1
    <3> QED
      BY <2>2, <3>2 DEF LeftTurn
  <2> QED
    BY <2>1, <2>2
<1>13. f = LeftMade(s, t, f)
  BY <1>11, <1>12 DEF LeftMade
<1> QED
  BY <1>13

\* The left merge is an ascending sequence of all there is.
LEMMA LeftMerges ==
  ASSUME NEW s, NEW t, Mergeable(s, t)
  PROVE  Rest(MergedLeft(s, t), s, 0, t, 0)
<1>0. Len(s) \in Nat /\ Len(t) \in Nat
  BY DEF Mergeable
<1>1. PICK g : g = LeftMade(s, t, g) /\ MergedLeft(s, t) = g[<<0, 0>>]
  BY LeftExists, LeftIs
<1> DEFINE D == (0..Len(s)) \X (0..Len(t))
           Bad == {p \in D : ~Rest(g[p], s, p[1], t, p[2])}
           rank == [p \in D |-> (Len(s) - p[1]) + (Len(t) - p[2])]
<1>2. \A i \in 0..Len(s), j \in 0..Len(t) : g[<<i, j>>] = LeftTurn(s, t, g, <<i, j>>) /\ <<i, j>> \in D
  BY <1>1 DEF LeftMade
<1>3. ASSUME NEW p \in Bad PROVE \E q \in Bad : rank[q] < rank[p]
  <2> DEFINE i == p[1]
             j == p[2]
  <2>1. i \in 0..Len(s) /\ j \in 0..Len(t) /\ p = <<i, j>> /\ i \in Nat /\ j \in Nat
    BY <1>0
  <2>2. ~Rest(g[p], s, i, t, j) /\ p \in D
    OBVIOUS
  <2> HIDE DEF i, j
  <2>3. g[p] = IF i = Len(s) THEN SubSeq(t, j + 1, Len(t))
               ELSE IF j = Len(t) THEN SubSeq(s, i + 1, Len(s))
               ELSE IF LE(s[i + 1], t[j + 1]) THEN <<s[i + 1]>> \o g[<<i + 1, j>>]
               ELSE <<t[j + 1]>> \o g[<<i, j + 1>>]
    BY <1>2, <2>1 DEF LeftTurn
  <2>4. i # Len(s) /\ j # Len(t)
    BY <2>1, <2>2, <2>3, RestEnds
  <2>5. i < Len(s) /\ j < Len(t) /\ i + 1 \in 0..Len(s) /\ j + 1 \in 0..Len(t)
    BY <1>0, <2>1, <2>4
  <2>6. rank[p] = (Len(s) - i) + (Len(t) - j)
    BY <2>1, <2>2
  <2>7. CASE LE(s[i + 1], t[j + 1])
    <3>1. g[p] = <<s[i + 1]>> \o g[<<i + 1, j>>]
      BY <2>3, <2>4, <2>7
    <3>2. ~Rest(g[<<i + 1, j>>], s, i + 1, t, j)
      BY <2>1, <2>2, <2>5, <2>7, <3>1, RestFromLeft
    <3>3. <<i + 1, j>> \in Bad /\ rank[<<i + 1, j>>] = (Len(s) - (i + 1)) + (Len(t) - j)
      BY <1>2, <2>1, <2>5, <3>2
    <3>4. rank[<<i + 1, j>>] < rank[p]
      BY <1>0, <2>1, <2>6, <3>3
    <3> HIDE DEF rank, Bad
    <3> QED
      BY <3>3, <3>4
  <2>8. CASE ~LE(s[i + 1], t[j + 1])
    <3>1. g[p] = <<t[j + 1]>> \o g[<<i, j + 1>>]
      BY <2>3, <2>4, <2>8
    <3>2. ~Rest(g[<<i, j + 1>>], s, i, t, j + 1)
      BY <2>1, <2>2, <2>5, <2>8, <3>1, RestFromRight
    <3>3. <<i, j + 1>> \in Bad /\ rank[<<i, j + 1>>] = (Len(s) - i) + (Len(t) - (j + 1))
      BY <1>2, <2>1, <2>5, <3>2
    <3>4. rank[<<i, j + 1>>] < rank[p]
      BY <1>0, <2>1, <2>6, <3>3
    <3> HIDE DEF rank, Bad
    <3> QED
      BY <3>3, <3>4
  <2> QED
    BY <2>7, <2>8
<1>4. rank \in [D -> Nat] /\ Bad \in SUBSET D
  <2>1. ASSUME NEW p \in D PROVE p[1] \in 0..Len(s) /\ p[2] \in 0..Len(t)
    OBVIOUS
  <2> QED
    BY <1>0, <2>1
<1>5. Bad = {}
  <2> HIDE DEF D, Bad, rank
  <2> QED
    BY <1>3, <1>4, NoneIsFirst
<1>6. <<0, 0>> \in D
  BY <1>0
<1> QED
  BY <1>1, <1>5, <1>6

\* m holds the first j elements of s and the first i of t.
First(m, s, j, t, i) ==
  /\ m \in Seq(Element) /\ Len(m) = j + i
  /\ Ascends(m)
  /\ \A k \in 1..Len(m) : \/ \E a \in 1..j : m[k] = s[a]
                          \/ \E a \in 1..i : m[k] = t[a]

LEMMA FirstFromLeft ==
  ASSUME NEW s, NEW t, Mergeable(s, t), NEW j \in 1..Len(s), NEW i \in 1..Len(t), NEW m,
         ~LE(s[j], t[i]), First(m, s, j - 1, t, i)
  PROVE  First(Append(m, s[j]), s, j, t, i)
<1>0. Len(s) \in Nat /\ Len(t) \in Nat /\ s \in Seq(Element) /\ t \in Seq(Element)
  BY DEF Mergeable
<1>1. m \in Seq(Element) /\ Ascends(m) /\ Len(m) \in Nat /\ Len(m) = (j - 1) + i
  BY DEF First
<1> DEFINE x == s[j]
<1>2. x \in Element /\ j - 1 \in Nat
  BY <1>0
<1>3. ASSUME NEW k \in 1..Len(m) PROVE Less(m[k], x)
  <2>1. CASE \E a \in 1..(j - 1) : m[k] = s[a]
    <3>1. PICK a \in 1..(j - 1) : m[k] = s[a]
      BY <2>1
    <3>2. a \in 1..Len(s) /\ a < j
      BY <1>0
    <3> QED
      BY <3>1, <3>2 DEF Mergeable, Ascends
  <2>2. CASE \E a \in 1..i : m[k] = t[a]
    <3>1. PICK a \in 1..i : m[k] = t[a]
      BY <2>2
    <3>2. a \in 1..Len(t) /\ (a = i \/ a < i)
      BY <1>0
    <3>3. a = i \/ Less(t[a], t[i])
      BY <3>2 DEF Mergeable, Ascends
    <3>4. t[i] \in Element /\ t[a] \in Element
      BY <1>0, <3>2, ElementsOf
    <3>5. t[a] = t[i] \/ Less(t[a], t[i])
      BY <3>3
    <3> QED
      BY <1>2, <3>1, <3>4, <3>5, LessBeyond
  <2> QED
    BY <2>1, <2>2 DEF First
<1> DEFINE w == Append(m, x)
<1>4. /\ w \in Seq(Element) /\ Len(w) = Len(m) + 1 /\ w[Len(m) + 1] = x
      /\ \A k \in 1..Len(m) : w[k] = m[k]
      /\ Ascends(w)
  BY <1>1, <1>2, <1>3, Appended
<1> HIDE DEF w, x
<1>5. ASSUME NEW k \in 1..Len(w)
      PROVE  \/ \E a \in 1..j : w[k] = s[a]
             \/ \E a \in 1..i : w[k] = t[a]
  <2>1. CASE k = Len(m) + 1
    BY <2>1, <1>4 DEF x
  <2>2. CASE k # Len(m) + 1
    <3>1. k \in 1..Len(m) /\ w[k] = m[k]
      BY <1>1, <1>4, <2>2
    <3>2. \A a \in 1..(j - 1) : a \in 1..j
      BY <1>0
    <3> QED
      BY <3>1, <3>2 DEF First
  <2> QED
    BY <2>1, <2>2
<1>6. Len(w) = j + i
  BY <1>0, <1>1, <1>4
<1> QED
  BY <1>4, <1>5, <1>6 DEF First, w, x

LEMMA FirstFromRight ==
  ASSUME NEW s, NEW t, Mergeable(s, t), NEW j \in 1..Len(s), NEW i \in 1..Len(t), NEW m,
         LE(s[j], t[i]), First(m, s, j, t, i - 1)
  PROVE  First(Append(m, t[i]), s, j, t, i)
<1>0. Len(s) \in Nat /\ Len(t) \in Nat /\ s \in Seq(Element) /\ t \in Seq(Element)
  BY DEF Mergeable
<1>1. m \in Seq(Element) /\ Ascends(m) /\ Len(m) \in Nat /\ Len(m) = j + (i - 1)
  BY DEF First
<1> DEFINE x == t[i]
<1>2. x \in Element /\ i - 1 \in Nat
  BY <1>0
<1>3. ASSUME NEW k \in 1..Len(m) PROVE Less(m[k], x)
  <2>1. CASE \E a \in 1..(i - 1) : m[k] = t[a]
    <3>1. PICK a \in 1..(i - 1) : m[k] = t[a]
      BY <2>1
    <3>2. a \in 1..Len(t) /\ a < i
      BY <1>0
    <3> QED
      BY <3>1, <3>2 DEF Mergeable, Ascends
  <2>2. CASE \E a \in 1..j : m[k] = s[a]
    <3>1. PICK a \in 1..j : m[k] = s[a]
      BY <2>2
    <3>2. a \in 1..Len(s) /\ (a = j \/ a < j)
      BY <1>0
    <3>3. a = j \/ Less(s[a], s[j])
      BY <3>2 DEF Mergeable, Ascends
    <3>4. s[a][2] < x[2]
      BY <3>2 DEF Mergeable
    <3>5. s[j] \in Element /\ s[a] \in Element
      BY <1>0, <3>2, ElementsOf
    <3>6. s[a] = s[j] \/ Less(s[a], s[j])
      BY <3>3
    <3> QED
      BY <1>2, <3>1, <3>4, <3>5, <3>6, LessBeyond
  <2> QED
    BY <2>1, <2>2 DEF First
<1> DEFINE w == Append(m, x)
<1>4. /\ w \in Seq(Element) /\ Len(w) = Len(m) + 1 /\ w[Len(m) + 1] = x
      /\ \A k \in 1..Len(m) : w[k] = m[k]
      /\ Ascends(w)
  BY <1>1, <1>2, <1>3, Appended
<1> HIDE DEF w, x
<1>5. ASSUME NEW k \in 1..Len(w)
      PROVE  \/ \E a \in 1..j : w[k] = s[a]
             \/ \E a \in 1..i : w[k] = t[a]
  <2>1. CASE k = Len(m) + 1
    BY <2>1, <1>4 DEF x
  <2>2. CASE k # Len(m) + 1
    <3>1. k \in 1..Len(m) /\ w[k] = m[k]
      BY <1>1, <1>4, <2>2
    <3>2. \A a \in 1..(i - 1) : a \in 1..i
      BY <1>0
    <3> QED
      BY <3>1, <3>2 DEF First
  <2> QED
    BY <2>1, <2>2
<1>6. Len(w) = j + i
  BY <1>0, <1>1, <1>4
<1> QED
  BY <1>4, <1>5, <1>6 DEF First, w, x

LEMMA FirstEnds ==
  ASSUME NEW s, NEW t, Mergeable(s, t), NEW j \in 0..Len(s), NEW i \in 0..Len(t)
  PROVE  /\ i = 0 => First(SubSeq(s, 1, j), s, j, t, i)
         /\ j = 0 => First(SubSeq(t, 1, i), s, j, t, i)
<1>0. Len(s) \in Nat /\ Len(t) \in Nat /\ s \in Seq(Element) /\ t \in Seq(Element) /\ Ascends(s) /\ Ascends(t)
  BY DEF Mergeable
<1>1. ASSUME i = 0 PROVE First(SubSeq(s, 1, j), s, j, t, i)
  <2> DEFINE m == SubSeq(s, 0 + 1, j)
  <2>1. /\ m \in Seq(Element) /\ Len(m) = j - 0
        /\ \A k \in 1..(j - 0) : 0 + k \in 1..Len(s) /\ m[k] = s[0 + k]
        /\ Ascends(m)
    BY <1>0, PartAscends
  <2>a. m = SubSeq(s, 1, j)
    OBVIOUS
  <2> HIDE DEF m
  <2>2. Len(m) = j /\ \A k \in 1..Len(m) : k \in 1..j /\ m[k] = s[k]
    BY <1>0, <2>1
  <2> QED
    BY <1>0, <1>1, <2>a, <2>1, <2>2 DEF First
<1>2. ASSUME j = 0 PROVE First(SubSeq(t, 1, i), s, j, t, i)
  <2> DEFINE m == SubSeq(t, 0 + 1, i)
  <2>1. /\ m \in Seq(Element) /\ Len(m) = i - 0
        /\ \A k \in 1..(i - 0) : 0 + k \in 1..Len(t) /\ m[k] = t[0 + k]
        /\ Ascends(m)
    BY <1>0, PartAscends
  <2>a. m = SubSeq(t, 1, i)
    OBVIOUS
  <2> HIDE DEF m
  <2>2. Len(m) = i /\ \A k \in 1..Len(m) : k \in 1..i /\ m[k] = t[k]
    BY <1>0, <2>1
  <2> QED
    BY <1>0, <1>2, <2>a, <2>1, <2>2 DEF First
<1> QED
  BY <1>1, <1>2

\* The right merge, one turn of its loop.
RightTurn(s, t, f, p) ==
  LET j == p[1]  i == p[2]
  IN IF i = 0 THEN SubSeq(s, 1, j)
     ELSE IF j = 0 THEN SubSeq(t, 1, i)
     ELSE IF ~LE(s[j], t[i]) THEN Append(f[<<j - 1, i>>], s[j])
     ELSE Append(f[<<j, i - 1>>], t[i])
RightMade(s, t, f) == [p \in (0..Len(s)) \X (0..Len(t)) |-> RightTurn(s, t, f, p)]

LEMMA RightIs ==
  ASSUME NEW s, NEW t, NEW f, f = RightMade(s, t, f)
  PROVE  \E g : g = RightMade(s, t, g) /\ MergedRight(s, t) = g[<<Len(s), Len(t)>>]
<1> DEFINE go[p \in (0..Len(s)) \X (0..Len(t))] ==
        LET j == p[1]  i == p[2]
        IN IF i = 0 THEN SubSeq(s, 1, j)
           ELSE IF j = 0 THEN SubSeq(t, 1, i)
           ELSE IF ~LE(s[j], t[i]) THEN Append(go[<<j - 1, i>>], s[j])
           ELSE Append(go[<<j, i - 1>>], t[i])
<1>1. go = CHOOSE g : g = RightMade(s, t, g)
  BY DEF RightMade, RightTurn
<1>2. MergedRight(s, t) = go[<<Len(s), Len(t)>>]
  BY DEF MergedRight
<1> HIDE DEF go
<1>3. go = RightMade(s, t, go)
  BY <1>1
<1> QED
  BY <1>3, <1>2

LEMMA RightExists ==
  ASSUME NEW s, NEW t, Mergeable(s, t)
  PROVE  \E f : f = RightMade(s, t, f)
<1>0. Len(s) \in Nat /\ Len(t) \in Nat /\ s \in Seq(Element) /\ t \in Seq(Element) /\ Ascends(s) /\ Ascends(t)
  BY DEF Mergeable
<1> DEFINE D == (0..Len(s)) \X (0..Len(t))
           S == Seq(Element)
           stop == {p \in D : p[1] = 0 \/ p[2] = 0}
           base == [p \in D |-> IF p[2] = 0 THEN SubSeq(s, 0 + 1, p[1])
                                ELSE SubSeq(t, 0 + 1, p[2])]
           high(p) == ~LE(s[p[1]], t[p[2]])
           next == [p \in D |-> IF p \in stop THEN p ELSE IF high(p) THEN <<p[1] - 1, p[2]>> ELSE <<p[1], p[2] - 1>>]
           made == [p \in D |-> [m \in S |-> IF p \in stop THEN m ELSE IF high(p) THEN Append(m, s[p[1]]) ELSE Append(m, t[p[2]])]]
           rank == [p \in D |-> p[1] + p[2]]
<1>1. stop \in SUBSET D
  OBVIOUS
<1>2. base \in [D -> S]
  BY <1>0, PartAscends
<1>3. ASSUME NEW p \in D PROVE p[1] \in 0..Len(s) /\ p[2] \in 0..Len(t) /\ p = <<p[1], p[2]>>
  OBVIOUS
<1>4. ASSUME NEW p \in D \ stop
      PROVE  /\ <<p[1] - 1, p[2]>> \in D /\ <<p[1], p[2] - 1>> \in D
             /\ s[p[1]] \in Element /\ t[p[2]] \in Element
  BY <1>0, <1>3
<1>5. next \in [D -> D]
  BY <1>4
<1>6. made \in [D -> [S -> S]]
  <2>1. ASSUME NEW p \in D, NEW m \in S
        PROVE  (IF p \in stop THEN m ELSE IF high(p) THEN Append(m, s[p[1]]) ELSE Append(m, t[p[2]])) \in S
    <3>1. CASE p \in stop
      BY <3>1
    <3>2. CASE p \notin stop
      <4>1. s[p[1]] \in Element /\ t[p[2]] \in Element
        BY <1>4, <3>2
      <4> HIDE DEF stop, D, high
      <4>2. Append(m, s[p[1]]) \in S /\ Append(m, t[p[2]]) \in S
        BY <4>1
      <4> QED
        BY <3>2, <4>2
    <3> QED
      BY <3>1, <3>2
  <2> HIDE DEF stop, D, high, S
  <2> QED
    BY <2>1
<1>7. rank \in [D -> Nat] /\ \A p \in D : rank[p] <= Len(s) + Len(t)
  <2>1. \A a \in 0..Len(s), b \in 0..Len(t) : LET n == a + b
                                              IN n \in Nat /\ n <= Len(s) + Len(t)
    BY <1>0
  <2>2. ASSUME NEW p \in D
        PROVE  p[1] + p[2] \in Nat /\ p[1] + p[2] <= Len(s) + Len(t)
    BY <1>3, <2>1
  <2> HIDE DEF D
  <2> QED
    BY <2>2
<1>8. \A p \in D \ stop : rank[next[p]] < rank[p]
  <2> SUFFICES ASSUME NEW p \in D \ stop PROVE rank[next[p]] < rank[p]
    OBVIOUS
  <2>1. next[p] = <<p[1] - 1, p[2]>> \/ next[p] = <<p[1], p[2] - 1>>
    OBVIOUS
  <2>2. p[1] \in 0..Len(s) /\ p[2] \in 0..Len(t)
    BY <1>3
  <2>3. rank[p] = p[1] + p[2]
    OBVIOUS
  <2>4. CASE next[p] = <<p[1] - 1, p[2]>>
    <3>1. rank[<<p[1] - 1, p[2]>>] = (p[1] - 1) + p[2]
      BY <1>4
    <3> QED
      BY <1>0, <2>2, <2>3, <2>4, <3>1
  <2>5. CASE next[p] = <<p[1], p[2] - 1>>
    <3>1. rank[<<p[1], p[2] - 1>>] = p[1] + (p[2] - 1)
      BY <1>4
    <3> QED
      BY <1>0, <2>2, <2>3, <2>5, <3>1
  <2> QED
    BY <2>1, <2>4, <2>5
<1>9. Len(s) + Len(t) \in Nat
  BY <1>0
<1>10. \E f \in [D -> S] : \A p \in D : Follows(p, stop, base, next, made, f)
  <2> HIDE DEF D, S, stop, base, next, made, rank
  <2> QED
    BY <1>1, <1>2, <1>5, <1>6, <1>7, <1>8, <1>9, Recursion
<1>11. PICK f \in [D -> S] : \A p \in D : Follows(p, stop, base, next, made, f)
  BY <1>10
<1>12. ASSUME NEW p \in D PROVE f[p] = RightTurn(s, t, f, p)
  <2>1. CASE p \in stop
    <3>1. 0 + 1 = 1
      OBVIOUS
    <3> QED
      BY <1>11, <2>1, <3>1 DEF Follows, RightTurn
  <2>2. CASE p \notin stop
    <3>1. f[next[p]] \in S /\ f[p] = made[p][f[next[p]]]
      BY <1>5, <1>11, <2>2 DEF Follows
    <3>2. f[p] = IF high(p) THEN Append(f[<<p[1] - 1, p[2]>>], s[p[1]]) ELSE Append(f[<<p[1], p[2] - 1>>], t[p[2]])
      BY <2>2, <3>1
    <3> QED
      BY <2>2, <3>2 DEF RightTurn
  <2> QED
    BY <2>1, <2>2
<1>13. f = RightMade(s, t, f)
  BY <1>11, <1>12 DEF RightMade
<1> QED
  BY <1>13

\* The right merge is an ascending sequence of all there is.
LEMMA RightMerges ==
  ASSUME NEW s, NEW t, Mergeable(s, t)
  PROVE  First(MergedRight(s, t), s, Len(s), t, Len(t))
<1>0. Len(s) \in Nat /\ Len(t) \in Nat
  BY DEF Mergeable
<1>1. PICK g : g = RightMade(s, t, g) /\ MergedRight(s, t) = g[<<Len(s), Len(t)>>]
  BY RightExists, RightIs
<1> DEFINE D == (0..Len(s)) \X (0..Len(t))
           Bad == {p \in D : ~First(g[p], s, p[1], t, p[2])}
           rank == [p \in D |-> p[1] + p[2]]
<1>2. \A j \in 0..Len(s), i \in 0..Len(t) : g[<<j, i>>] = RightTurn(s, t, g, <<j, i>>) /\ <<j, i>> \in D
  BY <1>1 DEF RightMade
<1>3. ASSUME NEW p \in Bad PROVE \E q \in Bad : rank[q] < rank[p]
  <2> DEFINE j == p[1]
             i == p[2]
  <2>1. j \in 0..Len(s) /\ i \in 0..Len(t) /\ p = <<j, i>> /\ i \in Nat /\ j \in Nat
    BY <1>0
  <2>2. ~First(g[p], s, j, t, i) /\ p \in D
    OBVIOUS
  <2> HIDE DEF i, j
  <2>3. g[p] = IF i = 0 THEN SubSeq(s, 1, j)
               ELSE IF j = 0 THEN SubSeq(t, 1, i)
               ELSE IF ~LE(s[j], t[i]) THEN Append(g[<<j - 1, i>>], s[j])
               ELSE Append(g[<<j, i - 1>>], t[i])
    BY <1>2, <2>1 DEF RightTurn
  <2>4. i # 0 /\ j # 0
    BY <2>1, <2>2, <2>3, FirstEnds
  <2>5. j \in 1..Len(s) /\ i \in 1..Len(t) /\ j - 1 \in 0..Len(s) /\ i - 1 \in 0..Len(t)
    BY <1>0, <2>1, <2>4
  <2>6. rank[p] = j + i
    BY <2>1, <2>2
  <2>7. CASE ~LE(s[j], t[i])
    <3>1. g[p] = Append(g[<<j - 1, i>>], s[j])
      BY <2>3, <2>4, <2>7
    <3>2. ~First(g[<<j - 1, i>>], s, j - 1, t, i)
      BY <2>1, <2>2, <2>5, <2>7, <3>1, FirstFromLeft
    <3>3. <<j - 1, i>> \in Bad /\ rank[<<j - 1, i>>] = (j - 1) + i
      BY <1>2, <2>1, <2>5, <3>2
    <3>4. rank[<<j - 1, i>>] < rank[p]
      BY <1>0, <2>1, <2>6, <3>3
    <3> HIDE DEF rank, Bad
    <3> QED
      BY <3>3, <3>4
  <2>8. CASE LE(s[j], t[i])
    <3>1. g[p] = Append(g[<<j, i - 1>>], t[i])
      BY <2>3, <2>4, <2>8
    <3>2. ~First(g[<<j, i - 1>>], s, j, t, i - 1)
      BY <2>1, <2>2, <2>5, <2>8, <3>1, FirstFromRight
    <3>3. <<j, i - 1>> \in Bad /\ rank[<<j, i - 1>>] = j + (i - 1)
      BY <1>2, <2>1, <2>5, <3>2
    <3>4. rank[<<j, i - 1>>] < rank[p]
      BY <1>0, <2>1, <2>6, <3>3
    <3> HIDE DEF rank, Bad
    <3> QED
      BY <3>3, <3>4
  <2> QED
    BY <2>7, <2>8
<1>4. rank \in [D -> Nat] /\ Bad \in SUBSET D
  <2>1. ASSUME NEW p \in D PROVE p[1] \in 0..Len(s) /\ p[2] \in 0..Len(t)
    OBVIOUS
  <2> QED
    BY <1>0, <2>1
<1>5. Bad = {}
  <2> HIDE DEF D, Bad, rank
  <2> QED
    BY <1>3, <1>4, NoneIsFirst
<1>6. <<Len(s), Len(t)>> \in D
  BY <1>0
<1> QED
  BY <1>1, <1>5, <1>6

-----------------------------------------------------------------------------
(* The binary search *)

Middle(l, r) == l + ((r - l) \div 2)

\* One turn of its loop.
FindTurn(s, x, f, p) ==
  LET l == p[1]  r == p[2]  c == Middle(l, r)
  IN IF ~LE(s[c + 1], x) THEN (IF c - l <= 1 THEN c ELSE f[<<l, c>>])
     ELSE IF r - c <= 1 THEN c + 1 ELSE f[<<c, r>>]
FindMade(s, x, f) == [p \in (0..(Len(s) - 1)) \X (0..(Len(s) - 1)) |-> FindTurn(s, x, f, p)]

LEMMA FindIs ==
  ASSUME NEW s, NEW x, NEW f, f = FindMade(s, x, f), LE(s[1], x)
  PROVE  \E g : g = FindMade(s, x, g) /\ BinaryInsertionFind(s, x) = g[<<0, Len(s) - 1>>]
<1> DEFINE n == Len(s)
           go[p \in (0..(n - 1)) \X (0..(n - 1))] ==
             LET l == p[1]  r == p[2]  c == l + ((r - l) \div 2)
             IN IF ~LE(s[c + 1], x) THEN (IF c - l <= 1 THEN c ELSE go[<<l, c>>])
                ELSE IF r - c <= 1 THEN c + 1 ELSE go[<<c, r>>]
<1>1. go = CHOOSE g : g = FindMade(s, x, g)
  BY DEF FindMade, FindTurn, Middle
<1>2. BinaryInsertionFind(s, x) = go[<<0, Len(s) - 1>>]
  BY DEF BinaryInsertionFind
<1> HIDE DEF go
<1>3. go = FindMade(s, x, go)
  BY <1>1
<1> QED
  BY <1>3, <1>2

\* The middle of an interval.
LEMMA MiddleIn ==
  ASSUME NEW l \in Nat, NEW r \in Nat
  PROVE  /\ Middle(l, r) \in Int
         /\ l <= r => l <= Middle(l, r) /\ Middle(l, r) <= r
         /\ l < r => Middle(l, r) < r
         /\ l <= r /\ r - Middle(l, r) > 1 => l < Middle(l, r)
         /\ l > r => Middle(l, r) <= l /\ r <= Middle(l, r)
BY DEF Middle

LEMMA FindExists ==
  ASSUME NEW s \in Seq(Element), NEW x
  PROVE  \E f : f = FindMade(s, x, f)
<1> DEFINE P == 0..(Len(s) - 1)
           D == P \X P
           mid(p) == Middle(p[1], p[2])
           high(p) == ~LE(s[mid(p) + 1], x)
           stop == {p \in D : IF high(p) THEN mid(p) - p[1] <= 1 ELSE p[2] - mid(p) <= 1}
           base == [p \in D |-> IF high(p) THEN mid(p) ELSE mid(p) + 1]
           next == [p \in D |-> IF p \in stop THEN p
                                ELSE IF high(p) THEN <<p[1], mid(p)>> ELSE <<mid(p), p[2]>>]
           made == [p \in D |-> [m \in Int |-> m]]
           rank == [p \in D |-> IF p[1] <= p[2] THEN p[2] - p[1] ELSE 0]
<1>0. Len(s) \in Nat
  OBVIOUS
<1>1. ASSUME NEW p \in D
      PROVE  /\ p[1] \in P /\ p[2] \in P /\ p[1] \in Nat /\ p[2] \in Nat /\ p = <<p[1], p[2]>>
             /\ mid(p) \in P
  <2>1. p[1] \in P /\ p[2] \in P /\ p[1] \in Nat /\ p[2] \in Nat /\ p = <<p[1], p[2]>>
    BY <1>0
  <2>2. PICK c : c = mid(p)
    OBVIOUS
  <2>3. /\ c \in Int
        /\ p[1] <= p[2] => p[1] <= c /\ c <= p[2]
        /\ p[1] > p[2] => c <= p[1] /\ p[2] <= c
    BY <2>1, <2>2, MiddleIn
  <2>4. c \in P
    BY <1>0, <2>1, <2>3
  <2> QED
    BY <2>1, <2>2, <2>4
<1>2. ASSUME NEW p \in D \ stop
      PROVE  /\ p[1] < p[2]
             /\ high(p) => mid(p) - p[1] > 1
             /\ ~high(p) => p[2] - mid(p) > 1
             /\ p[1] < mid(p) \/ high(p)
             /\ mid(p) < p[2]
  <2>1. p[1] \in Nat /\ p[2] \in Nat /\ mid(p) \in Int
    BY <1>0, <1>1
  <2>2. PICK c : c = mid(p)
    OBVIOUS
  <2>3. IF high(p) THEN c - p[1] > 1 ELSE p[2] - c > 1
    <3>1. ~(IF high(p) THEN mid(p) - p[1] <= 1 ELSE p[2] - mid(p) <= 1)
      OBVIOUS
    <3> HIDE DEF high, mid
    <3> QED
      BY <2>1, <2>2, <3>1
  <2>4. /\ p[1] <= p[2] => p[1] <= c /\ c <= p[2] /\ (p[2] - c > 1 => p[1] < c)
        /\ p[1] < p[2] => c < p[2]
        /\ p[1] > p[2] => c <= p[1] /\ p[2] <= c
    BY <2>1, <2>2, MiddleIn
  <2> HIDE DEF mid, high
  <2>5. p[1] < p[2] /\ c < p[2] /\ (p[1] < c \/ high(p))
    BY <2>1, <2>2, <2>3, <2>4
  <2> QED
    BY <2>2, <2>3, <2>5
<1>3. stop \in SUBSET D
  OBVIOUS
<1>4. base \in [D -> Int]
  <2>1. ASSUME NEW p \in D PROVE mid(p) \in Int
    BY <1>0, <1>1
  <2> HIDE DEF mid, high, D
  <2> QED
    BY <2>1
<1>5. next \in [D -> D]
  <2>1. ASSUME NEW p \in D PROVE <<p[1], mid(p)>> \in D /\ <<mid(p), p[2]>> \in D
    BY <1>1
  <2> HIDE DEF mid, high, D, stop
  <2> QED
    BY <2>1
<1>6. made \in [D -> [Int -> Int]]
  OBVIOUS
<1>7. rank \in [D -> Nat] /\ \A p \in D : rank[p] <= Len(s)
  <2>1. ASSUME NEW p \in D
        PROVE  LET d == IF p[1] <= p[2] THEN p[2] - p[1] ELSE 0 IN d \in Nat /\ d <= Len(s)
    <3>1. p[1] \in P /\ p[2] \in P /\ p[1] \in Nat /\ p[2] \in Nat
      BY <1>1
    <3> QED
      BY <1>0, <3>1
  <2> HIDE DEF D
  <2> QED
    BY <2>1
<1>8. ASSUME NEW p \in D \ stop PROVE rank[next[p]] < rank[p]
  <2>1. /\ p[1] \in Nat /\ p[2] \in Nat /\ mid(p) \in Int /\ p[1] < p[2]
        /\ rank[p] = p[2] - p[1]
    BY <1>0, <1>1, <1>2
  <2>2. PICK c : c = mid(p)
    OBVIOUS
  <2>3. /\ high(p) => next[p] = <<p[1], c>>
        /\ ~high(p) => next[p] = <<c, p[2]>>
    BY <2>2
  <2>4. <<p[1], c>> \in D /\ <<c, p[2]>> \in D
    BY <1>1, <2>2
  <2>5. /\ rank[<<p[1], c>>] = IF p[1] <= c THEN c - p[1] ELSE 0
        /\ rank[<<c, p[2]>>] = IF c <= p[2] THEN p[2] - c ELSE 0
    BY <2>4
  <2>6. c < p[2] /\ (p[1] < c \/ high(p))
    BY <1>2, <2>2
  <2>7. c \in Int
    BY <2>1, <2>2
  <2> HIDE DEF mid, high, next, rank
  <2>8. CASE high(p)
    <3>1. next[p] = <<p[1], c>>
      BY <2>3, <2>8
    <3>2. rank[next[p]] = IF p[1] <= c THEN c - p[1] ELSE 0
      BY <2>5, <3>1
    <3> HIDE DEF D, stop
    <3> QED
      BY ONLY <2>1, <2>6, <2>7, <3>2
  <2>9. CASE ~high(p)
    <3>1. next[p] = <<c, p[2]>> /\ p[1] < c /\ rank[<<c, p[2]>>] = p[2] - c
      BY <2>1, <2>3, <2>5, <2>6, <2>7, <2>9
    <3> QED
      BY <2>1, <2>7, <3>1
  <2> QED
    BY <2>8, <2>9
<1>9. \E f \in [D -> Int] : \A p \in D : Follows(p, stop, base, next, made, f)
  <2> HIDE DEF D, stop, base, next, made, rank
  <2> QED
    BY <1>0, <1>3, <1>4, <1>5, <1>6, <1>7, <1>8, Recursion
<1>10. PICK f \in [D -> Int] : \A p \in D : Follows(p, stop, base, next, made, f)
  BY <1>9
<1>11. ASSUME NEW p \in D PROVE f[p] = FindTurn(s, x, f, p)
  <2>1. PICK c : c = mid(p)
    OBVIOUS
  <2>2. FindTurn(s, x, f, p) = IF high(p) THEN (IF c - p[1] <= 1 THEN c ELSE f[<<p[1], c>>])
                               ELSE IF p[2] - c <= 1 THEN c + 1 ELSE f[<<c, p[2]>>]
    BY <2>1 DEF FindTurn
  <2>3. f[p] = IF p \in stop THEN base[p] ELSE made[p][f[next[p]]]
    BY <1>10 DEF Follows
  <2>4. p \in stop <=> IF high(p) THEN c - p[1] <= 1 ELSE p[2] - c <= 1
    BY <2>1
  <2>5. base[p] = IF high(p) THEN c ELSE c + 1
    BY <2>1
  <2>6. f[next[p]] \in Int
    BY <1>5, <1>10
  <2>7. made[p][f[next[p]]] = f[next[p]]
    BY <2>6
  <2>8. p \notin stop => next[p] = IF high(p) THEN <<p[1], c>> ELSE <<c, p[2]>>
    BY <2>1
  <2> HIDE DEF stop, high, base, made, next, mid
  <2> QED
    BY <2>2, <2>3, <2>4, <2>5, <2>7, <2>8
<1>12. f = FindMade(s, x, f)
  BY <1>10, <1>11 DEF FindMade
<1> QED
  BY <1>12

\* loc is behind all of s that x may follow, and before all it has to precede.
Place(s, x, loc) ==
  /\ loc \in 0..Len(s)
  /\ \A k \in 1..loc : s[k][1] <= x[1]
  /\ \A k \in (loc + 1)..Len(s) : x[1] < s[k][1]

\* What is known of one place holds for all before or behind it.
LEMMA KeysAscend ==
  ASSUME NEW s \in Seq(Element), Ascends(s), NEW j \in 1..Len(s), NEW k \in 1..Len(s), j <= k
  PROVE  s[j][1] <= s[k][1] /\ s[j][1] \in Int /\ s[k][1] \in Int
<1>1. s[j][1] \in Int /\ s[k][1] \in Int
  BY ElementsOf
<1>2. j = k \/ Less(s[j], s[k])
  BY DEF Ascends
<1> QED
  BY <1>1, <1>2 DEF Less

LEMMA PlaceBetween ==
  ASSUME NEW s \in Seq(Element), Ascends(s), NEW x \in Element, NEW loc \in 0..Len(s),
         loc > 0 => LE(s[loc], x), loc < Len(s) => ~LE(s[loc + 1], x)
  PROVE  Place(s, x, loc)
<1>0. Len(s) \in Nat /\ x[1] \in Int
  BY DEF Element
<1>1. ASSUME NEW k \in 1..loc PROVE s[k][1] <= x[1]
  <2>1. k \in 1..Len(s) /\ loc \in 1..Len(s) /\ k <= loc /\ loc > 0
    BY <1>0
  <2>2. s[k][1] <= s[loc][1] /\ s[k][1] \in Int /\ s[loc][1] \in Int
    BY <2>1, KeysAscend
  <2> QED
    BY <1>0, <2>1, <2>2 DEF LE
<1>2. ASSUME NEW k \in (loc + 1)..Len(s) PROVE x[1] < s[k][1]
  <2>1. k \in 1..Len(s) /\ loc + 1 \in 1..Len(s) /\ loc + 1 <= k /\ loc < Len(s)
    BY <1>0
  <2>2. s[loc + 1][1] <= s[k][1] /\ s[k][1] \in Int /\ s[loc + 1][1] \in Int
    BY <2>1, KeysAscend
  <2> QED
    BY <1>0, <2>1, <2>2 DEF LE
<1> QED
  BY <1>1, <1>2 DEF Place

LEMMA FindPlaces ==
  ASSUME NEW s \in Seq(Element), Ascends(s), NEW x \in Element, Len(s) > 0, ~LE(s[Len(s)], x)
  PROVE  Place(s, x, BinaryInsertionFind(s, x))
<1>0. Len(s) \in Nat
  OBVIOUS
<1>1. CASE ~LE(s[1], x)
  <2>1. BinaryInsertionFind(s, x) = 0
    BY <1>1 DEF BinaryInsertionFind
  <2>2. 0 \in 0..Len(s) /\ 0 + 1 = 1
    BY <1>0
  <2> QED
    BY <1>1, <2>1, <2>2, PlaceBetween
<1>2. CASE LE(s[1], x)
  <2>1. PICK g : g = FindMade(s, x, g) /\ BinaryInsertionFind(s, x) = g[<<0, Len(s) - 1>>]
    BY <1>2, FindExists, FindIs
  <2> DEFINE P == 0..(Len(s) - 1)
             D == P \X P
             Around(p) == p[1] <= p[2] /\ LE(s[p[1] + 1], x) /\ ~LE(s[p[2] + 1], x)
             Bad == {p \in D : Around(p) /\ ~Place(s, x, g[p])}
             rank == [p \in D |-> IF p[1] <= p[2] THEN p[2] - p[1] ELSE 0]
  <2>2. ASSUME NEW p \in Bad PROVE \E q \in Bad : rank[q] < rank[p]
    <3> DEFINE l == p[1]
               r == p[2]
    <3>1. l \in P /\ r \in P /\ l \in Nat /\ r \in Nat /\ p = <<l, r>> /\ p \in D
      BY <1>0
    <3>2. LE(s[l + 1], x) /\ ~LE(s[r + 1], x) /\ l <= r /\ ~Place(s, x, g[p])
      OBVIOUS
    <3>3. PICK c : c = Middle(l, r)
      OBVIOUS
    <3>4. g[p] = IF ~LE(s[c + 1], x) THEN (IF c - l <= 1 THEN c ELSE g[<<l, c>>])
                 ELSE IF r - c <= 1 THEN c + 1 ELSE g[<<c, r>>]
      BY <2>1, <3>1, <3>3 DEF FindMade, FindTurn
    <3> HIDE DEF l, r
    <3>5. l < r
      <4>1. l # r
        BY <3>2
      <4> QED
        BY <3>1, <3>2, <4>1
    <3>6. c \in Int /\ l <= c /\ c < r /\ (r - c > 1 => l < c)
      BY <3>1, <3>3, <3>5, MiddleIn
    <3>7. c \in P /\ c \in 0..Len(s) /\ c + 1 \in 0..Len(s) /\ l + 1 \in 1..Len(s)
      BY <1>0, <3>1, <3>6
    <3>8. rank[p] = r - l
      BY <3>1, <3>5
    <3>9. CASE ~LE(s[c + 1], x)
      <4>1. c # l
        BY <3>2, <3>9
      <4>2. CASE c - l <= 1
        <5>1. c = l + 1
          BY <3>1, <3>6, <4>1, <4>2
        <5>2. LE(s[c], x) /\ g[p] = c
          BY <3>2, <3>4, <3>9, <4>2, <5>1
        <5> QED
          BY <3>2, <3>7, <3>9, <5>2, PlaceBetween
      <4>3. CASE ~(c - l <= 1)
        <5>1. g[p] = g[<<l, c>>] /\ <<l, c>> \in D
          BY <3>1, <3>4, <3>7, <3>9, <4>3
        <5>2. <<l, c>> \in Bad
          BY <3>2, <3>6, <3>9, <5>1
        <5>3. rank[<<l, c>>] = c - l
          BY <3>6, <5>1
        <5>4. rank[<<l, c>>] < rank[p]
          BY <3>1, <3>6, <3>8, <5>3
        <5> HIDE DEF Bad, rank
        <5> QED
          BY <5>2, <5>4
      <4> QED
        BY <4>2, <4>3
    <3>10. CASE LE(s[c + 1], x)
      <4>1. CASE r - c <= 1
        <5>1. r = c + 1
          BY <3>1, <3>6, <4>1
        <5>2. g[p] = c + 1 /\ ~LE(s[(c + 1) + 1], x)
          BY <3>2, <3>4, <3>10, <4>1, <5>1
        <5> QED
          BY <3>2, <3>7, <3>10, <5>2, PlaceBetween
      <4>2. CASE ~(r - c <= 1)
        <5>1. g[p] = g[<<c, r>>] /\ <<c, r>> \in D /\ l < c
          BY <3>1, <3>4, <3>6, <3>7, <3>10, <4>2
        <5>2. <<c, r>> \in Bad
          BY <3>2, <3>6, <3>10, <5>1
        <5>3. rank[<<c, r>>] = r - c
          BY <3>6, <5>1
        <5>4. rank[<<c, r>>] < rank[p]
          BY <3>1, <3>6, <3>8, <5>1, <5>3
        <5> HIDE DEF Bad, rank
        <5> QED
          BY <5>2, <5>4
      <4> QED
        BY <4>1, <4>2
    <3> QED
      BY <3>9, <3>10
  <2>3. rank \in [D -> Nat] /\ Bad \in SUBSET D
    <3>1. ASSUME NEW p \in D PROVE p[1] \in Nat /\ p[2] \in Nat
      BY <1>0
    <3> QED
      BY <3>1
  <2>4. Bad = {}
    <3>1. \A p \in Bad : \E q \in Bad : rank[q] < rank[p]
      BY <2>2
    <3> HIDE DEF D, Bad, rank
    <3> QED
      BY ONLY <2>3, <3>1, NoneIsFirst
  <2>5. <<0, Len(s) - 1>> \in D /\ 0 + 1 = 1 /\ (Len(s) - 1) + 1 = Len(s)
    BY <1>0
  <2>6. Around(<<0, Len(s) - 1>>)
    BY <1>0, <1>2, <2>5
  <2>7. Place(s, x, g[<<0, Len(s) - 1>>])
    BY <2>4, <2>5, <2>6
  <2> QED
    BY <2>1, <2>7
<1> QED
  BY <1>1, <1>2

-----------------------------------------------------------------------------
(* Parts of the array *)

ArrayOK == size \in Nat /\ dst \in [1..size -> Element]

\* the n elements from position a on are in order, and stay so when equal keys are looked at
InOrder(a, n) == \A j, k \in (a + 1)..(a + n) : j < k => Less(dst[j], dst[k])

\* their keys fall
Descends(a, n) == \A j, k \in (a + 1)..(a + n) : j < k => dst[k][1] < dst[j][1]

\* no element has come over b from either side
Cut(b) == \A j \in 1..b, k \in (b + 1)..size : dst[j][2] < dst[k][2]

\* a step changes the order of the n elements from position a on, and nothing else
Shuffled(a, n) ==
  /\ dst' \in [1..size -> Element] /\ size' = size
  /\ \A k \in 1..size : k \notin (a + 1)..(a + n) => dst'[k] = dst[k]
  /\ \A k \in (a + 1)..(a + n) : \E j \in (a + 1)..(a + n) : dst'[k] = dst[j]

\* a step makes up no element
OnlyMoved == \A k \in 1..size : \E j \in 1..size : dst'[k] = dst[j]

LEMMA ShuffledMoves ==
  ASSUME ArrayOK, NEW a \in Nat, NEW n \in Nat, a + n <= size, Shuffled(a, n)
  PROVE  OnlyMoved
<1> SUFFICES ASSUME NEW k \in 1..size PROVE \E j \in 1..size : dst'[k] = dst[j]
  BY DEF OnlyMoved
<1>1. CASE k \in (a + 1)..(a + n)
  <2>1. PICK j \in (a + 1)..(a + n) : dst'[k] = dst[j]
    BY <1>1 DEF Shuffled
  <2>2. j \in 1..size
    BY DEF ArrayOK
  <2> QED
    BY <2>1, <2>2
<1>2. CASE k \notin (a + 1)..(a + n)
  BY <1>2 DEF Shuffled
<1> QED
  BY <1>1, <1>2

LEMMA CutKept ==
  ASSUME ArrayOK, NEW a \in Nat, NEW n \in Nat, a + n <= size, Shuffled(a, n),
         NEW b \in Nat, b <= a \/ a + n <= b, Cut(b)
  PROVE  Cut(b)'
<1>0. size \in Nat /\ size' = size
  BY DEF ArrayOK, Shuffled
<1> SUFFICES ASSUME NEW j \in 1..b, NEW k \in (b + 1)..size PROVE dst'[j][2] < dst'[k][2]
  BY <1>0 DEF Cut
<1>1. j \in Nat /\ k \in Nat /\ k \in 1..size /\ b < size /\ j \in 1..size
  BY <1>0
<1>2. PICK p \in 1..b : dst'[j] = dst[p]
  <2>1. CASE j \in (a + 1)..(a + n)
    <3>1. PICK p \in (a + 1)..(a + n) : dst'[j] = dst[p]
      BY <2>1 DEF Shuffled
    <3>2. p \in 1..b
      BY <1>1, <2>1
    <3> QED
      BY <3>1, <3>2
  <2>2. CASE j \notin (a + 1)..(a + n)
    BY <1>1, <2>2 DEF Shuffled
  <2> QED
    BY <2>1, <2>2
<1>3. PICK q \in (b + 1)..size : dst'[k] = dst[q]
  <2>1. CASE k \in (a + 1)..(a + n)
    <3>1. PICK q \in (a + 1)..(a + n) : dst'[k] = dst[q]
      BY <2>1 DEF Shuffled
    <3>2. q \in (b + 1)..size
      BY <1>0, <1>1, <2>1
    <3> QED
      BY <3>1, <3>2
  <2>2. CASE k \notin (a + 1)..(a + n)
    BY <1>1, <2>2 DEF Shuffled
  <2> QED
    BY <2>1, <2>2
<1> QED
  BY <1>2, <1>3 DEF Cut

LEMMA OrderKept ==
  ASSUME ArrayOK, NEW a \in Nat, NEW n \in Nat, a + n <= size, Shuffled(a, n),
         NEW c \in Nat, NEW m \in Nat, c + m <= a \/ a + n <= c, c + m <= size, InOrder(c, m)
  PROVE  InOrder(c, m)'
<1>0. size \in Nat /\ size' = size
  BY DEF ArrayOK, Shuffled
<1>1. \A k \in (c + 1)..(c + m) : dst'[k] = dst[k]
  <2> SUFFICES ASSUME NEW k \in (c + 1)..(c + m) PROVE dst'[k] = dst[k]
    OBVIOUS
  <2>1. k \in 1..size /\ k \notin (a + 1)..(a + n)
    BY <1>0
  <2> QED
    BY <2>1 DEF Shuffled
<1> QED
  BY <1>1 DEF InOrder

LEMMA SliceFacts ==
  ASSUME ArrayOK, NEW a \in Nat, NEW n \in Nat, a + n <= size
  PROVE  /\ Slice(a, n) \in Seq(Element) /\ Len(Slice(a, n)) = n
         /\ \A k \in 1..n : Slice(a, n)[k] = dst[a + k]
         /\ InOrder(a, n) => Ascends(Slice(a, n))
<1>0. size \in Nat /\ dst \in [1..size -> Element]
  BY DEF ArrayOK
<1> DEFINE s == Slice(a, n)
<1>1. \A k \in 1..n : s[k] = dst[a + k] /\ a + k \in 1..size /\ a + k \in (a + 1)..(a + n)
  BY <1>0 DEF Slice
<1>2. s = [k \in 1..n |-> dst[a + k]]
  BY DEF Slice
<1>3. s \in [1..n -> Element]
  BY <1>0, <1>1, <1>2
<1>4. s \in Seq(Element) /\ Len(s) = n
  BY <1>2, <1>3
<1> HIDE DEF s
<1>5. ASSUME InOrder(a, n) PROVE Ascends(s)
  <2> SUFFICES ASSUME NEW j \in 1..n, NEW k \in 1..n, j < k PROVE Less(s[j], s[k])
    BY <1>4 DEF Ascends
  <2>1. a + j < a + k
    OBVIOUS
  <2> QED
    BY <1>1, <1>5, <2>1 DEF InOrder
<1> QED
  BY <1>1, <1>4, <1>5 DEF s

\* Where a sequence in order is stored that is made of what was there.
LEMMA StoredKeeps ==
  ASSUME ArrayOK, NEW a \in Nat, NEW s \in Seq(Element), a + Len(s) <= size, Ascends(s),
         \A k \in 1..Len(s) : \E j \in (a + 1)..(a + Len(s)) : s[k] = dst[j],
         dst' = Stored(a, s), size' = size
  PROVE  Shuffled(a, Len(s)) /\ InOrder(a, Len(s))'
<1>0. size \in Nat /\ dst \in [1..size -> Element] /\ Len(s) \in Nat
  BY DEF ArrayOK
<1>1. ASSUME NEW k \in 1..size
      PROVE  /\ k \in (a + 1)..(a + Len(s)) => k - a \in 1..Len(s) /\ dst'[k] = s[k - a]
             /\ k \notin (a + 1)..(a + Len(s)) => dst'[k] = dst[k]
             /\ dst'[k] \in Element
  <2>1. dst'[k] = IF k \in (a + 1)..(a + Len(s)) THEN s[k - a] ELSE dst[k]
    BY DEF Stored
  <2>2. k \in (a + 1)..(a + Len(s)) => k - a \in 1..Len(s)
    BY <1>0
  <2>3. \A i \in 1..Len(s) : s[i] \in Element
    OBVIOUS
  <2> QED
    BY <1>0, <2>1, <2>2, <2>3
<1>2. dst' = [k \in 1..size |-> dst'[k]]
  BY DEF Stored
<1>3. dst' \in [1..size -> Element]
  BY <1>1, <1>2
<1>4. \A k \in (a + 1)..(a + Len(s)) : k \in 1..size
  BY <1>0
<1>5. Shuffled(a, Len(s))
  <2>1. \A k \in 1..size : k \notin (a + 1)..(a + Len(s)) => dst'[k] = dst[k]
    BY <1>1
  <2>2. ASSUME NEW k \in (a + 1)..(a + Len(s)) PROVE \E j \in (a + 1)..(a + Len(s)) : dst'[k] = dst[j]
    <3>1. k - a \in 1..Len(s) /\ dst'[k] = s[k - a]
      BY <1>1, <1>4
    <3> QED
      BY <3>1
  <2> QED
    BY <1>3, <2>1, <2>2 DEF Shuffled
<1>6. InOrder(a, Len(s))'
  <2> SUFFICES ASSUME NEW j \in (a + 1)..(a + Len(s)), NEW k \in (a + 1)..(a + Len(s)), j < k
               PROVE  Less(dst'[j], dst'[k])
    BY DEF InOrder
  <2>1. /\ j - a \in 1..Len(s) /\ dst'[j] = s[j - a]
        /\ k - a \in 1..Len(s) /\ dst'[k] = s[k - a]
    BY <1>1, <1>4
  <2>2. j - a < k - a
    BY <1>0
  <2> QED
    BY <2>1, <2>2 DEF Ascends
<1> QED
  BY <1>5, <1>6

LEMMA MergedKeeps ==
  ASSUME ArrayOK, NEW a \in Nat, NEW X \in Nat, NEW Y \in Nat, a + X + Y <= size,
         InOrder(a, X), InOrder(a + X, Y), Cut(a + X), dst' = Merged(a, X, Y), size' = size
  PROVE  Shuffled(a, X + Y) /\ InOrder(a, X + Y)'
<1>0. size \in Nat /\ a + X \in Nat /\ a + X <= size
  BY DEF ArrayOK
<1> DEFINE s == Slice(a, X)
           t == Slice(a + X, Y)
<1>1. /\ s \in Seq(Element) /\ Len(s) = X /\ Ascends(s)
      /\ \A k \in 1..X : s[k] = dst[a + k]
  BY <1>0, SliceFacts
<1>2. /\ t \in Seq(Element) /\ Len(t) = Y /\ Ascends(t)
      /\ \A k \in 1..Y : t[k] = dst[(a + X) + k]
  BY <1>0, SliceFacts
<1> HIDE DEF s, t
<1>3. Mergeable(s, t)
  <2>1. ASSUME NEW j \in 1..X, NEW k \in 1..Y PROVE s[j][2] < t[k][2]
    <3>1. a + j \in 1..(a + X) /\ (a + X) + k \in ((a + X) + 1)..size
      BY <1>0
    <3> QED
      BY <1>1, <1>2, <3>1 DEF Cut
  <2> QED
    BY <1>1, <1>2, <2>1 DEF Mergeable
<1> DEFINE m == IF X < Y THEN MergedLeft(s, t) ELSE MergedRight(s, t)
<1>4. /\ m \in Seq(Element) /\ Len(m) = X + Y /\ Ascends(m)
      /\ \A k \in 1..Len(m) : (\E b \in 1..X : m[k] = s[b]) \/ (\E b \in 1..Y : m[k] = t[b])
  <2>1. CASE X < Y
    <3>1. Rest(m, s, 0, t, 0)
      BY <1>3, <2>1, LeftMerges
    <3>2. X - 0 = X /\ Y - 0 = Y /\ 0 + 1 = 1
      OBVIOUS
    <3> HIDE DEF m
    <3> QED
      BY <1>1, <1>2, <3>1, <3>2 DEF Rest
  <2>2. CASE ~(X < Y)
    <3>1. First(m, s, Len(s), t, Len(t))
      BY <1>3, <2>2, RightMerges
    <3> HIDE DEF m
    <3> QED
      BY <1>1, <1>2, <3>1 DEF First
  <2> QED
    BY <2>1, <2>2
<1>5. dst' = Stored(a, m)
  BY DEF Merged, s, t
<1> HIDE DEF m
<1>6. \A k \in 1..Len(m) : \E j \in (a + 1)..(a + Len(m)) : m[k] = dst[j]
  <2> SUFFICES ASSUME NEW k \in 1..Len(m) PROVE \E j \in (a + 1)..(a + Len(m)) : m[k] = dst[j]
    OBVIOUS
  <2>1. CASE \E b \in 1..X : m[k] = s[b]
    <3>1. PICK b \in 1..X : m[k] = s[b]
      BY <2>1
    <3>2. a + b \in (a + 1)..(a + Len(m))
      BY <1>4
    <3> QED
      BY <1>1, <3>1, <3>2
  <2>2. CASE \E b \in 1..Y : m[k] = t[b]
    <3>1. PICK b \in 1..Y : m[k] = t[b]
      BY <2>2
    <3>2. (a + X) + b \in (a + 1)..(a + Len(m))
      BY <1>4
    <3> QED
      BY <1>2, <3>1, <3>2
  <2> QED
    BY <1>4, <2>1, <2>2
<1>7. a + Len(m) <= size
  BY <1>0, <1>4
<1> QED
  BY <1>4, <1>5, <1>6, <1>7, StoredKeeps

LEMMA ReversedKeeps ==
  ASSUME ArrayOK, NEW a \in Nat, NEW n \in Nat, a + n <= size, Descends(a, n),
         dst' = Stored(a, [k \in 1..n |-> dst[a + n + 1 - k]]), size' = size
  PROVE  Shuffled(a, n) /\ InOrder(a, n)'
<1>0. size \in Nat /\ dst \in [1..size -> Element]
  BY DEF ArrayOK
<1> DEFINE s == [k \in 1..n |-> dst[a + n + 1 - k]]
<1>1. \A k \in 1..n : s[k] = dst[a + n + 1 - k] /\ a + n + 1 - k \in 1..size /\ a + n + 1 - k \in (a + 1)..(a + n)
  BY <1>0
<1>2. s \in [1..n -> Element]
  BY <1>0, <1>1
<1>3. s \in Seq(Element) /\ Len(s) = n
  BY <1>2
<1>4. dst' = Stored(a, s)
  OBVIOUS
<1> HIDE DEF s
<1>5. Ascends(s)
  <2> SUFFICES ASSUME NEW j \in 1..n, NEW k \in 1..n, j < k PROVE Less(s[j], s[k])
    BY <1>3 DEF Ascends
  <2>1. a + n + 1 - k < a + n + 1 - j
    OBVIOUS
  <2>2. s[j][1] < s[k][1]
    BY <1>1, <2>1 DEF Descends
  <2> QED
    BY <2>2 DEF Less
<1>6. \A k \in 1..Len(s) : \E j \in (a + 1)..(a + Len(s)) : s[k] = dst[j]
  BY <1>1, <1>3
<1>7. a + Len(s) <= size
  BY <1>3
<1> QED
  BY <1>3, <1>4, <1>5, <1>6, <1>7, StoredKeeps

LEMMA InsertedKeeps ==
  ASSUME ArrayOK, NEW a \in Nat, NEW i \in Nat \ {0}, a + i + 1 <= size,
         InOrder(a, i), Cut(a + i), dst' = Inserted(a, i), size' = size
  PROVE  Shuffled(a, i + 1) /\ InOrder(a, i + 1)'
<1>0. size \in Nat /\ dst \in [1..size -> Element] /\ a + i <= size /\ a + i + 1 \in 1..size
  BY DEF ArrayOK
<1> DEFINE s == Slice(a, i)
           x == dst[a + i + 1]
           loc == BinaryInsertionFind(s, x)
           w == [k \in 1..(i + 1) |-> IF k <= loc THEN s[k] ELSE IF k = loc + 1 THEN x ELSE s[k - 1]]
<1>1. /\ s \in Seq(Element) /\ Len(s) = i /\ Ascends(s)
      /\ \A k \in 1..i : s[k] = dst[a + k]
  BY <1>0, SliceFacts
<1>2. x \in Element /\ x[1] \in Int /\ x[2] \in Int
  BY <1>0 DEF Element
<1>3. \A k \in 1..i : s[k] \in Element /\ s[k][1] \in Int /\ s[k][2] \in Int /\ s[k][2] < x[2]
  <2> SUFFICES ASSUME NEW k \in 1..i PROVE s[k] \in Element /\ s[k][1] \in Int /\ s[k][2] \in Int /\ s[k][2] < x[2]
    OBVIOUS
  <2>1. s[k] \in Element /\ s[k][1] \in Int /\ s[k][2] \in Int
    BY <1>1, ElementsOf
  <2>2. a + k \in 1..(a + i) /\ a + i + 1 \in ((a + i) + 1)..size
    BY <1>0
  <2> QED
    BY <1>1, <2>1, <2>2 DEF Cut
<1>4. dst' = IF LE(s[i], x) THEN dst ELSE Stored(a, w)
  BY DEF Inserted
<1> HIDE DEF s, x, loc
<1>5. CASE LE(s[i], x)
  <2>1. dst' = dst
    BY <1>4, <1>5
  <2>2. Shuffled(a, i + 1)
    BY <1>0, <2>1 DEF Shuffled
  <2>3. ASSUME NEW j \in (a + 1)..(a + (i + 1)), NEW k \in (a + 1)..(a + (i + 1)), j < k
        PROVE  Less(dst[j], dst[k])
    <3>1. j \in (a + 1)..(a + i) /\ j - a \in 1..i /\ i \in 1..i /\ a + (j - a) = j
      BY <2>3
    <3>2. CASE k = a + i + 1
      <4>1. dst[j] = s[j - a]
        BY <1>1, <3>1
      <4>2. s[j - a][1] <= s[i][1]
        <5>1. j - a \in 1..Len(s) /\ i \in 1..Len(s) /\ j - a <= i
          BY <1>1, <3>1
        <5> QED
          BY <1>1, <5>1, KeysAscend
      <4>3. s[j - a][1] <= x[1] /\ s[j - a][2] < x[2] /\ s[j - a][1] \in Int
        BY <1>2, <1>3, <1>5, <3>1, <4>2 DEF LE
      <4>4. Less(s[j - a], x)
        BY <1>2, <4>3 DEF Less
      <4> QED
        BY <3>2, <4>1, <4>4 DEF x
    <3>3. CASE k # a + i + 1
      <4>1. k \in (a + 1)..(a + i)
        BY <3>3
      <4> QED
        BY <2>3, <3>1, <4>1 DEF InOrder
    <3> QED
      BY <3>2, <3>3
  <2>4. InOrder(a, i + 1)'
    BY <2>1, <2>3 DEF InOrder
  <2> QED
    BY <2>2, <2>4
<1>6. CASE ~LE(s[i], x)
  <2>1. Place(s, x, loc)
    BY <1>1, <1>2, <1>6, FindPlaces DEF loc
  <2>2. /\ loc \in 0..i
        /\ \A k \in 1..loc : s[k][1] <= x[1]
        /\ \A k \in (loc + 1)..i : x[1] < s[k][1]
    BY <1>1, <2>1 DEF Place
  <2>3. ASSUME NEW k \in 1..(i + 1)
        PROVE  /\ k <= loc => w[k] = s[k] /\ k \in 1..loc /\ k \in 1..i
               /\ k = loc + 1 => w[k] = x
               /\ k > loc + 1 => w[k] = s[k - 1] /\ k - 1 \in (loc + 1)..i /\ k - 1 \in 1..i
               /\ w[k] \in Element
    <3>1. k <= loc => w[k] = s[k] /\ k \in 1..loc /\ k \in 1..i
      BY <2>2
    <3>2. k = loc + 1 => w[k] = x
      BY <2>2
    <3>3. k > loc + 1 => w[k] = s[k - 1] /\ k - 1 \in (loc + 1)..i /\ k - 1 \in 1..i
      BY <2>2
    <3>4. k <= loc \/ k = loc + 1 \/ k > loc + 1
      BY <2>2
    <3> HIDE DEF w
    <3> QED
      BY <1>2, <1>3, <3>1, <3>2, <3>3, <3>4
  <2>4. w \in [1..(i + 1) -> Element]
    BY <2>3
  <2>5. w \in Seq(Element) /\ Len(w) = i + 1
    BY <2>4
  <2> HIDE DEF w
  <2>6. Ascends(w)
    <3> SUFFICES ASSUME NEW j \in 1..(i + 1), NEW k \in 1..(i + 1), j < k PROVE Less(w[j], w[k])
      BY <2>5 DEF Ascends
    <3>1. CASE j <= loc /\ k <= loc
      BY <1>1, <2>3, <3>1 DEF Ascends
    <3>2. CASE j <= loc /\ k = loc + 1
      <4>1. s[j][1] <= x[1] /\ s[j][2] < x[2] /\ s[j][1] \in Int
        BY <1>3, <2>2, <2>3, <3>2
      <4>2. Less(s[j], x)
        BY <1>2, <4>1 DEF Less
      <4> QED
        BY <2>3, <3>2, <4>2
    <3>3. CASE j <= loc /\ k > loc + 1
      <4>1. j < k - 1 /\ j \in 1..i /\ k - 1 \in 1..i /\ w[j] = s[j] /\ w[k] = s[k - 1]
        BY <2>2, <2>3, <3>3
      <4> QED
        BY <1>1, <4>1 DEF Ascends
    <3>4. CASE j = loc + 1 /\ k > loc + 1
      <4>1. x[1] < s[k - 1][1]
        BY <2>2, <2>3, <3>4
      <4>2. Less(x, s[k - 1])
        BY <4>1 DEF Less
      <4> QED
        BY <2>3, <3>4, <4>2
    <3>5. CASE j > loc + 1 /\ k > loc + 1
      <4>1. j - 1 < k - 1 /\ j - 1 \in 1..i /\ k - 1 \in 1..i /\ w[j] = s[j - 1] /\ w[k] = s[k - 1]
        BY <2>2, <2>3, <3>5
      <4> QED
        BY <1>1, <4>1 DEF Ascends
    <3>6. loc \in Nat
      BY <2>2
    <3> QED
      BY <3>1, <3>2, <3>3, <3>4, <3>5, <3>6
  <2>7. \A k \in 1..Len(w) : \E j \in (a + 1)..(a + Len(w)) : w[k] = dst[j]
    <3> SUFFICES ASSUME NEW k \in 1..(i + 1) PROVE \E j \in (a + 1)..(a + (i + 1)) : w[k] = dst[j]
      BY <2>5
    <3>1. CASE k <= loc
      <4>1. a + k \in (a + 1)..(a + (i + 1)) /\ w[k] = dst[a + k]
        BY <1>1, <2>3, <3>1
      <4> QED
        BY <4>1
    <3>2. CASE k = loc + 1
      <4>1. a + i + 1 \in (a + 1)..(a + (i + 1)) /\ w[k] = dst[a + i + 1]
        BY <2>3, <3>2 DEF x
      <4> QED
        BY <4>1
    <3>3. CASE k > loc + 1
      <4>1. k - 1 \in 1..i /\ w[k] = s[k - 1]
        BY <2>3, <3>3
      <4>2. a + (k - 1) \in (a + 1)..(a + (i + 1)) /\ w[k] = dst[a + (k - 1)]
        BY <1>1, <4>1
      <4> QED
        BY <4>2
    <3>4. loc \in Nat
      BY <2>2
    <3> QED
      BY <3>1, <3>2, <3>3, <3>4
  <2>8. a + Len(w) <= size
    BY <1>0, <2>5
  <2>9. dst' = Stored(a, w)
    BY <1>4, <1>6
  <2> QED
    BY <2>5, <2>6, <2>7, <2>8, <2>9, StoredKeeps
<1> QED
  BY <1>5, <1>6

-----------------------------------------------------------------------------
(* The invariant *)

\* Every run is in order, and its elements stay between those before and behind it.
RunsOrdered ==
  \A i \in 1..Len(runs) : InOrder(runs[i].start, runs[i].length) /\ Cut(runs[i].start)

\* Only the part that is being looked at has changed since curr, and not across its ends.
RestCut == Cut(curr) /\ \A b \in (curr + len)..size : Cut(b)

\* What is known of that part.
LookedAt ==
  /\ pc = "follow" => /\ len >= 2
                      /\ IF LE(At(curr), At(curr + 1)) THEN InOrder(curr, len) ELSE Descends(curr, len)
  /\ pc \in {"small", "extend"} => InOrder(curr, len)
  /\ pc \in {"count", "check", "collapse"} => len = 1

Places ==
  /\ pc = "small" => curr = 0 /\ len <= size
  /\ pc = "finish" => curr = size /\ runs # <<>>
  /\ pc = "done" => InOrder(0, size)

OrderInv == ArrayOK /\ RunsOrdered /\ RestCut /\ LookedAt /\ Places

\* The runs before and behind a run.
LEMMA TilesApart ==
  ASSUME TypeInv, RunsTile
  PROVE  /\ \A q \in 1..Len(runs) : /\ runs[q].start \in Nat /\ runs[q].length \in Nat
                                    /\ runs[q].start + runs[q].length <= curr
         /\ \A p, q \in 1..Len(runs) : p < q => runs[p].start + runs[p].length <= runs[q].start
<1>0. Len(runs) \in Nat /\ \A q \in 1..Len(runs) : runs[q] \in Run
  BY DEF TypeInv
<1>1. \A q \in 1..Len(runs) : runs[q].start \in Nat /\ runs[q].length \in Nat
  BY <1>0 DEF Run
<1>2. ASSUME NEW p \in 1..Len(runs), NEW q \in 1..Len(runs), p < q
      PROVE  runs[p].start + runs[p].length <= runs[q].start
  <2>0. PICK e \in Nat : e = runs[p].start + runs[p].length
    BY <1>1
  <2> DEFINE D == 1..Len(runs)
             Bad == {k \in D : p < k /\ ~(e <= runs[k].start)}
             rank == [k \in D |-> k]
  <2>1. ASSUME NEW k \in Bad PROVE \E l \in Bad : rank[l] < rank[k]
    <3>1. k - 1 \in 1..Len(runs) /\ k # 1 /\ k \in 1..Len(runs)
      BY <1>0
    <3>2. runs[k].start = runs[k - 1].start + runs[k - 1].length
      BY <3>1 DEF RunsTile
    <3>3. /\ runs[k - 1].start \in Nat /\ runs[k - 1].length \in Nat /\ runs[k].start \in Nat
          /\ runs[p].start \in Nat /\ runs[p].length \in Nat
      BY <1>1, <3>1
    <3>4. k - 1 # p
      BY <2>0, <3>2, <3>3
    <3>5. p < k - 1
      BY <3>1, <3>4
    <3>6. ~(e <= runs[k - 1].start)
      <4>1. PICK u \in Nat : u = runs[k - 1].start
        BY <3>3
      <4>2. PICK v \in Nat : v = runs[k - 1].length
        BY <3>3
      <4>3. runs[k].start = u + v /\ ~(e <= runs[k].start)
        BY <3>2, <4>1, <4>2
      <4>4. ~(e <= u + v)
        BY ONLY <4>3
      <4>5. ~(e <= u)
        BY ONLY <4>4, u \in Nat, v \in Nat, e \in Nat
      <4> QED
        BY ONLY <4>1, <4>5
    <3>7. k - 1 \in Bad
      BY <3>1, <3>5, <3>6
    <3>8. rank[k - 1] < rank[k]
      BY <3>1
    <3> HIDE DEF Bad, rank
    <3> QED
      BY <3>7, <3>8
  <2>2. rank \in [D -> Nat] /\ Bad \in SUBSET D
    OBVIOUS
  <2>3. Bad = {}
    <3> HIDE DEF D, Bad, rank
    <3> QED
      BY <2>1, <2>2, NoneIsFirst
  <2> QED
    BY <1>2, <2>0, <2>3
<1>3. ASSUME NEW q \in 1..Len(runs) PROVE runs[q].start + runs[q].length <= curr
  <2>1. Len(runs) \in 1..Len(runs) /\ runs # <<>>
    BY <1>0
  <2>2. curr = runs[Len(runs)].start + runs[Len(runs)].length
    BY <2>1 DEF RunsTile
  <2>3. CASE q = Len(runs)
    BY <1>1, <2>2, <2>3
  <2>4. CASE q # Len(runs)
    <3>1. q < Len(runs)
      BY <1>0, <2>4
    <3>2. runs[q].start + runs[q].length <= runs[Len(runs)].start
      BY <1>2, <2>1, <3>1
    <3>3. /\ runs[q].start \in Nat /\ runs[q].length \in Nat
          /\ runs[Len(runs)].start \in Nat /\ runs[Len(runs)].length \in Nat
      BY <1>1, <2>1
    <3> QED
      BY ONLY <2>2, <3>2, <3>3
  <2> QED
    BY <2>3, <2>4
<1> QED
  BY <1>1, <1>2, <1>3

\* A step within what is looked at leaves the runs and the ends of that part alone.
LEMMA AheadKept ==
  ASSUME TypeInv, RunsTile, OrderInv, NEW a \in Nat, NEW n \in Nat, curr <= a, a + n <= size,
         Shuffled(a, n), UNCHANGED <<runs, curr, size>>
  PROVE  /\ ArrayOK' /\ RunsOrdered' /\ Cut(curr)' /\ OnlyMoved
         /\ \A b \in (a + n)..size : b >= curr + len => Cut(b)'
<1>0. size \in Nat /\ curr \in Nat /\ len \in Nat /\ ArrayOK /\ RunsOrdered /\ RestCut
  BY DEF TypeInv, OrderInv
<1>1. ArrayOK'
  BY <1>0 DEF Shuffled, ArrayOK
<1>2. ASSUME NEW i \in 1..Len(runs)
      PROVE  InOrder(runs[i].start, runs[i].length)' /\ Cut(runs[i].start)'
  <2>1. PICK c : c = runs[i].start
    OBVIOUS
  <2>2. PICK m : m = runs[i].length
    OBVIOUS
  <2>3. c \in Nat /\ m \in Nat /\ c + m <= curr
    BY <2>1, <2>2, TilesApart
  <2>4. InOrder(c, m) /\ Cut(c)
    BY <1>0, <2>1, <2>2 DEF RunsOrdered
  <2>5. c <= a /\ c + m <= a /\ c + m <= size
    BY <1>0, <2>3
  <2>6. InOrder(c, m)'
    BY <1>0, <2>3, <2>4, <2>5, OrderKept
  <2>7. Cut(c)'
    BY <1>0, <2>3, <2>4, <2>5, CutKept
  <2>8. c' = c /\ m' = m
    OBVIOUS
  <2> QED
    BY <2>1, <2>2, <2>6, <2>7
<1>3. RunsOrdered'
  <2>1. \A i \in 1..Len(runs) : InOrder(runs[i].start, runs[i].length)' /\ Cut(runs[i].start)'
    BY <1>2
  <2> QED
    BY <2>1 DEF RunsOrdered
<1>4. Cut(curr)'
  <2>1. PICK c : c = curr
    OBVIOUS
  <2>2. c \in Nat /\ Cut(c) /\ c <= a
    BY <1>0, <2>1 DEF RestCut
  <2>3. Cut(c)'
    BY <1>0, <2>2, CutKept
  <2> QED
    BY <2>1, <2>3 DEF Cut
<1>5. ASSUME NEW b \in (a + n)..size, b >= curr + len PROVE Cut(b)'
  <2>1. b \in Nat /\ a + n <= b /\ b \in (curr + len)..size
    BY <1>0, <1>5
  <2> QED
    BY <1>0, <2>1, CutKept DEF RestCut
<1>6. OnlyMoved
  BY <1>0, ShuffledMoves
<1> QED
  BY <1>1, <1>3, <1>4, <1>5, <1>6

\* Two neighbouring runs become one.
LEMMA MergeOrder ==
  ASSUME TypeInv, RunsTile, curr <= size, OrderInv, NEW i \in 1..(Len(runs) - 1), MergeRuns(i),
         UNCHANGED <<size, curr, len>>
  PROVE  ArrayOK' /\ RunsOrdered' /\ RestCut' /\ OnlyMoved
<1>0. /\ size \in Nat /\ curr \in Nat /\ len \in Nat /\ Len(runs) \in Nat
      /\ ArrayOK /\ RunsOrdered /\ RestCut
  BY DEF TypeInv, OrderInv
<1> DEFINE a == runs[i].start
           X == runs[i].length
           Y == runs[i + 1].length
<1>1. i \in 1..Len(runs) /\ i + 1 \in 1..Len(runs) /\ i \in Nat /\ i + 1 # 1 /\ (i + 1) - 1 = i
  BY <1>0
<1>2. /\ a \in Nat /\ X \in Nat /\ Y \in Nat /\ runs[i + 1].start = a + X
      /\ a + X + Y <= curr
  <2>1. a \in Nat /\ X \in Nat /\ Y \in Nat /\ runs[i + 1].start + Y <= curr
    BY <1>1, TilesApart
  <2>2. runs[i + 1].start = a + X
    BY <1>1 DEF RunsTile
  <2> QED
    BY <2>1, <2>2
<1>3. InOrder(a, X) /\ InOrder(a + X, Y) /\ Cut(a + X) /\ Cut(a)
  BY <1>0, <1>1, <1>2 DEF RunsOrdered
<1>4. dst' = Merged(a, X, Y) /\ runs' = MergedRuns(i)
  BY DEF MergeRuns, MergedRuns
<1>5. PICK lo \in Nat : lo = a
  BY <1>2
<1>6. PICK n \in Nat : n = X + Y
  BY <1>2
<1>7. lo + n <= curr /\ lo + n <= size
  <2>1. lo + n = a + X + Y
    BY <1>2, <1>5, <1>6
  <2> QED
    BY <1>0, <1>2, <2>1
<1>8. Shuffled(lo, n) /\ InOrder(lo, n)'
  <2>1. PICK x \in Nat : x = X
    BY <1>2
  <2>2. PICK y \in Nat : y = Y
    BY <1>2
  <2>3. /\ InOrder(lo, x) /\ InOrder(lo + x, y) /\ Cut(lo + x) /\ dst' = Merged(lo, x, y)
        /\ lo + x + y <= size /\ n = x + y
    <3>1. n = x + y
      BY <1>6, <2>1, <2>2
    <3>2. lo + x + y = lo + n
      BY <3>1
    <3>3. lo + x + y <= size
      BY <1>7, <3>2
    <3>4. InOrder(lo, x) /\ InOrder(lo + x, y) /\ Cut(lo + x) /\ dst' = Merged(lo, x, y)
      BY <1>3, <1>4, <1>5, <2>1, <2>2
    <3> QED
      BY <3>1, <3>3, <3>4
  <2> HIDE DEF a, X, Y
  <2>4. Shuffled(lo, x + y) /\ InOrder(lo, x + y)'
    BY <1>0, <2>3, MergedKeeps
  <2> QED
    BY <2>3, <2>4
<1>9. /\ Len(runs') = Len(runs) - 1
      /\ runs'[i].start = lo /\ runs'[i].length = n
      /\ \A k \in 1..(i - 1) : runs'[k] = runs[k]
      /\ \A k \in (i + 1)..(Len(runs) - 1) : runs'[k] = runs[k + 1]
  <2>1. Len(runs') = Len(runs) - 1
    BY <1>0, <1>1, <1>4 DEF MergedRuns
  <2> QED
    BY <1>0, <1>1, <1>4, <1>5, <1>6, <2>1 DEF MergedRuns
<1> HIDE DEF a, X, Y
<1>10. ASSUME NEW q \in 1..Len(runs), q < i \/ q > i + 1, NEW c \in Nat, NEW m \in Nat,
              c = runs[q].start, m = runs[q].length
       PROVE  InOrder(c, m)' /\ Cut(c)'
  <2>1. InOrder(c, m) /\ Cut(c) /\ c + m <= curr
    BY <1>0, <1>10, TilesApart DEF RunsOrdered
  <2>2. c + m <= lo \/ lo + n <= c
    <3>1. CASE q < i
      <4>1. c + m <= a
        BY <1>1, <1>10, <3>1, TilesApart DEF a
      <4> QED
        BY <1>5, <4>1
    <3>2. CASE q > i + 1
      <4>1. runs[i + 1].start + runs[i + 1].length <= c
        BY <1>1, <1>10, <3>2, TilesApart
      <4>2. (a + X) + Y <= c
        BY <1>2, <4>1 DEF Y
      <4> QED
        BY <1>2, <1>5, <1>6, <4>2
    <3> QED
      BY <1>10, <3>1, <3>2
  <2>3. InOrder(c, m)'
    BY <1>0, <1>7, <1>8, <2>1, <2>2, OrderKept
  <2>4. c <= lo \/ lo + n <= c
    BY <2>2
  <2>5. Cut(c)'
    BY <1>0, <1>7, <1>8, <2>1, <2>4, CutKept
  <2> QED
    BY <2>3, <2>5
<1>11. ASSUME NEW k \in 1..(Len(runs) - 1)
       PROVE  (InOrder(runs[k].start, runs[k].length) /\ Cut(runs[k].start))'
  <2>1. CASE k = i
    <3>1. Cut(lo)'
      <4>1. Cut(lo) /\ lo <= lo
        BY <1>3, <1>5
      <4> QED
        BY <1>0, <1>7, <1>8, <4>1, CutKept
    <3> QED
      BY <1>8, <1>9, <2>1, <3>1 DEF InOrder, Cut
  <2>2. CASE k # i
    <3>1. PICK q \in 1..Len(runs) : (q < i \/ q > i + 1) /\ runs'[k] = runs[q]
      <4>1. CASE k < i
        <5>1. k \in 1..(i - 1) /\ k \in 1..Len(runs)
          BY <1>0, <1>9, <4>1
        <5> QED
          BY <1>9, <4>1, <5>1
      <4>2. CASE k > i
        <5>1. k \in (i + 1)..(Len(runs) - 1) /\ k + 1 \in 1..Len(runs) /\ k + 1 > i + 1
          BY <1>0, <1>9, <4>2
        <5> QED
          BY <1>9, <5>1
      <4> QED
        BY <1>0, <1>9, <2>2, <4>1, <4>2
    <3>2. PICK c \in Nat : c = runs[q].start
      BY TilesApart
    <3>3. PICK m \in Nat : m = runs[q].length
      BY TilesApart
    <3>4. InOrder(c, m)' /\ Cut(c)'
      BY <1>10, <3>1, <3>2, <3>3
    <3>5. c = runs'[k].start /\ m = runs'[k].length
      BY <3>1, <3>2, <3>3
    <3> QED
      BY <3>4, <3>5 DEF InOrder, Cut
  <2> QED
    BY <2>1, <2>2
<1>12. RunsOrdered'
  BY <1>9, <1>11 DEF RunsOrdered
<1>13. RestCut'
  <2>1. ASSUME NEW b \in Nat, b >= curr, Cut(b) PROVE Cut(b)'
    <3>1. lo + n <= b
      BY <1>0, <1>7, <2>1
    <3> QED
      BY <1>0, <1>7, <1>8, <2>1, <3>1, CutKept
  <2>2. PICK c \in Nat : c = curr
    BY <1>0
  <2>3. Cut(c)'
    BY <1>0, <2>1, <2>2 DEF RestCut
  <2>4. ASSUME NEW b \in (curr + len)..size PROVE Cut(b)'
    <3>1. b \in Nat /\ b >= curr /\ Cut(b)
      BY <1>0 DEF RestCut
    <3> QED
      BY <2>1, <3>1
  <2>5. Cut(curr)'
    BY <2>2, <2>3 DEF Cut
  <2>6. curr' = curr /\ len' = len /\ size' = size
    OBVIOUS
  <2> QED
    BY <2>4, <2>5, <2>6 DEF RestCut
<1>14. ArrayOK'
  BY <1>0, <1>8 DEF ArrayOK, Shuffled
<1>15. OnlyMoved
  BY <1>0, <1>7, <1>8, ShuffledMoves
<1> QED
  BY <1>12, <1>13, <1>14, <1>15

-----------------------------------------------------------------------------
(* The steps *)

\* What the first comparison of a run says of it.
LEMMA PairLooked ==
  ASSUME ArrayOK, NEW c \in Nat, c + 2 <= size, Cut(c + 1)
  PROVE  IF LE(dst[c + 1], dst[c + 2]) THEN InOrder(c, 2) ELSE Descends(c, 2)
<1>1. /\ dst[c + 1] \in Element /\ dst[c + 2] \in Element
      /\ c + 1 \in 1..(c + 1) /\ c + 2 \in ((c + 1) + 1)..size
  BY DEF ArrayOK
<1>2. dst[c + 1][1] \in Int /\ dst[c + 2][1] \in Int
  BY <1>1 DEF Element
<1>3. dst[c + 1][2] < dst[c + 2][2]
  BY <1>1 DEF Cut
<1>4. \A j, k \in (c + 1)..(c + 2) : j < k => j = c + 1 /\ k = c + 2
  OBVIOUS
<1>5. CASE LE(dst[c + 1], dst[c + 2])
  <2>1. Less(dst[c + 1], dst[c + 2])
    BY <1>2, <1>3, <1>5 DEF LE, Less
  <2>2. InOrder(c, 2)
    BY <1>4, <2>1 DEF InOrder
  <2> QED
    BY <1>5, <2>2
<1>6. CASE ~LE(dst[c + 1], dst[c + 2])
  <2>1. dst[c + 2][1] < dst[c + 1][1]
    BY <1>2, <1>6 DEF LE
  <2>2. Descends(c, 2)
    BY <1>4, <2>1 DEF Descends
  <2> QED
    BY <1>6, <2>2
<1> QED
  BY <1>5, <1>6

\* What each further comparison adds.
LEMMA OneMoreLooked ==
  ASSUME ArrayOK, NEW c \in Nat, NEW n \in Nat \ {0}, c + n + 1 <= size, Cut(c + n)
  PROVE  /\ InOrder(c, n) /\ LE(dst[c + n], dst[c + n + 1]) => InOrder(c, n + 1)
         /\ Descends(c, n) /\ ~LE(dst[c + n], dst[c + n + 1]) => Descends(c, n + 1)
<1> DEFINE e == c + n + 1
<1>1. \A k \in (c + 1)..e : k \in 1..size /\ dst[k] \in Element /\ dst[k][1] \in Int /\ dst[k][2] \in Int
  <2> SUFFICES ASSUME NEW k \in (c + 1)..e
               PROVE  k \in 1..size /\ dst[k] \in Element /\ dst[k][1] \in Int /\ dst[k][2] \in Int
    OBVIOUS
  <2>1. k \in 1..size
    BY DEF ArrayOK
  <2>2. dst[k] \in Element
    BY <2>1 DEF ArrayOK
  <2> QED
    BY <2>1, <2>2 DEF Element
<1>2. /\ c + n \in (c + 1)..(c + n) /\ c + n \in (c + 1)..e /\ e \in (c + 1)..e /\ e \in (c + n + 1)..size
      /\ \A k \in (c + 1)..e : k = e \/ k \in (c + 1)..(c + n)
      /\ \A k \in (c + 1)..(c + n) : k = c + n \/ k < c + n
      /\ \A k \in (c + 1)..(c + n) : k \in 1..(c + n) /\ k \in (c + 1)..e /\ ~(e < k)
      /\ ~(e < e) /\ c + (n + 1) = e
  BY DEF ArrayOK
<1>3. ASSUME InOrder(c, n), LE(dst[c + n], dst[e]) PROVE InOrder(c, n + 1)
  <2>1. ASSUME NEW j \in (c + 1)..(c + n) PROVE Less(dst[j], dst[e])
    <3>1. dst[j][2] < dst[e][2]
      BY <1>2 DEF Cut
    <3>2. dst[j][1] <= dst[c + n][1]
      <4>1. CASE j = c + n
        BY <1>1, <1>2, <4>1
      <4>2. CASE j < c + n
        <5>1. Less(dst[j], dst[c + n])
          BY <1>2, <1>3, <4>2 DEF InOrder
        <5>2. dst[j][1] \in Int /\ dst[c + n][1] \in Int
          BY <1>1, <1>2
        <5> QED
          BY <5>1, <5>2 DEF Less
      <4> QED
        BY <1>2, <4>1, <4>2
    <3>3. dst[j][1] \in Int /\ dst[e][1] \in Int /\ dst[c + n][1] \in Int /\ dst[c + n][1] <= dst[e][1]
      BY <1>1, <1>2, <1>3 DEF LE
    <3> HIDE DEF e
    <3>4. dst[j][1] <= dst[e][1]
      BY <3>2, <3>3
    <3> QED
      BY <3>1, <3>3, <3>4 DEF Less
  <2> HIDE DEF e
  <2>2. ASSUME NEW j \in (c + 1)..e, NEW k \in (c + 1)..e, j < k PROVE Less(dst[j], dst[k])
    BY <1>2, <1>3, <2>1, <2>2 DEF InOrder
  <2> QED
    BY <1>2, <2>2 DEF InOrder
<1>4. ASSUME Descends(c, n), ~LE(dst[c + n], dst[e]) PROVE Descends(c, n + 1)
  <2>1. ASSUME NEW j \in (c + 1)..(c + n) PROVE dst[e][1] < dst[j][1]
    <3>1. dst[j][1] \in Int /\ dst[e][1] \in Int /\ dst[c + n][1] \in Int
      BY <1>1, <1>2
    <3>2. dst[e][1] < dst[c + n][1]
      BY <1>4, <3>1 DEF LE
    <3>3. j = c + n \/ dst[c + n][1] < dst[j][1]
      BY <1>2, <1>4 DEF Descends
    <3> HIDE DEF e
    <3> QED
      BY <3>1, <3>2, <3>3
  <2> HIDE DEF e
  <2>2. ASSUME NEW j \in (c + 1)..e, NEW k \in (c + 1)..e, j < k PROVE dst[k][1] < dst[j][1]
    BY <1>2, <1>4, <2>1, <2>2 DEF Descends
  <2> QED
    BY <1>2, <2>2 DEF Descends
<1> QED
  BY <1>3, <1>4

\* A step that moves no element.
LEMMA NothingMoved ==
  ASSUME OrderInv, size \in Nat, curr \in Nat, len \in Nat, UNCHANGED <<dst, size, runs, curr>>, len' \in Nat, len' >= len
  PROVE  ArrayOK' /\ RunsOrdered' /\ RestCut' /\ OnlyMoved
<1>1. ArrayOK' /\ RunsOrdered'
  BY DEF OrderInv, ArrayOK, RunsOrdered, InOrder, Cut
<1>2. \A b \in (curr + len')..size : b \in (curr + len)..size
  <2>1. \A c, l, m, n \in Nat : l >= m => \A b \in (c + l)..n : b \in (c + m)..n
    OBVIOUS
  <2> QED
    BY <2>1, Zenon
<1>3. RestCut'
  BY <1>2 DEF OrderInv, RestCut, Cut
<1>4. OnlyMoved
  BY DEF OnlyMoved
<1> QED
  BY <1>1, <1>3, <1>4

LEMMA SmallOrder == ASSUME TileInv, OrderInv, Small PROVE OrderInv' /\ OnlyMoved
<1>0. /\ size \in Nat /\ len \in Nat \ {0} /\ pc = "small" /\ curr = 0 /\ len <= size
      /\ TypeInv /\ RunsTile /\ ArrayOK /\ InOrder(0, len) /\ size' = size /\ curr' = curr /\ runs' = runs
  BY DEF TileInv, TypeInv, OrderInv, LookedAt, Places, Small
<1>1. CASE len < size
  <2>1. dst' = Inserted(0, len) /\ len' = len + 1 /\ pc' = pc
    BY <1>1 DEF Small
  <2>2. PICK n \in Nat \ {0} : n = len
    BY <1>0
  <2>3. 0 + n + 1 <= size /\ InOrder(0, n) /\ Cut(0 + n) /\ dst' = Inserted(0, n)
    <3>1. n \in (curr + len)..size /\ 0 + n = n
      BY <1>0, <1>1, <2>2
    <3> QED
      BY <1>0, <1>1, <2>1, <2>2, <3>1 DEF OrderInv, RestCut
  <2>4. Shuffled(0, n + 1) /\ InOrder(0, n + 1)'
    BY <1>0, <2>3, InsertedKeeps
  <2>5. n + 1 \in Nat /\ curr <= 0 /\ 0 + (n + 1) <= size /\ 0 \in Nat
    BY <1>0, <2>3
  <2>6. /\ ArrayOK' /\ RunsOrdered' /\ Cut(curr)' /\ OnlyMoved
        /\ \A b \in (0 + (n + 1))..size : b >= curr + len => Cut(b)'
    BY <1>0, <2>4, <2>5, AheadKept
  <2>7. RestCut'
    <3>1. \A b \in (curr + (n + 1))..size : b \in (0 + (n + 1))..size /\ b >= curr + len
      BY <1>0, <2>2
    <3>2. \A b \in (curr + (n + 1))..size : Cut(b)'
      BY <2>6, <3>1
    <3>3. curr' = curr /\ size' = size /\ len' = n + 1
      BY <1>0, <2>1, <2>2
    <3> QED
      BY <2>6, <3>2, <3>3 DEF RestCut
  <2>8. LookedAt'
    BY <1>0, <2>1, <2>2, <2>4 DEF LookedAt, InOrder
  <2>9. Places'
    BY <1>0, <1>1, <2>1 DEF Places
  <2> QED
    BY <2>6, <2>7, <2>8, <2>9 DEF OrderInv
<1>2. CASE ~(len < size)
  <2>1. dst' = dst /\ len' = len /\ pc' = "done"
    BY <1>2 DEF Small
  <2>2. len = size
    BY <1>0, <1>2
  <2>3. ArrayOK' /\ RunsOrdered' /\ RestCut' /\ OnlyMoved
    BY <1>0, <2>1, NothingMoved
  <2>4. LookedAt' /\ Places'
    BY <1>0, <2>1, <2>2 DEF LookedAt, Places, InOrder
  <2> QED
    BY <2>3, <2>4 DEF OrderInv
<1> QED
  BY <1>1, <1>2

LEMMA CountOrder == ASSUME TileInv, OrderInv, Count PROVE OrderInv' /\ OnlyMoved
<1>0. /\ size \in Nat /\ curr \in Nat /\ len = 1 /\ pc = "count" /\ curr < size
      /\ TypeInv /\ RunsTile /\ ArrayOK /\ RestCut
      /\ size' = size /\ curr' = curr /\ runs' = runs
  BY DEF TileInv, TypeInv, Bounds, OrderInv, LookedAt, Count
<1>a. PICK c \in Nat : c = curr
  BY <1>0
<1>1. CASE size - curr = 1
  <2>1. dst' = dst /\ len' = 1 /\ pc' = "extend"
    BY <1>1 DEF Count
  <2>2. ArrayOK' /\ RunsOrdered' /\ RestCut' /\ OnlyMoved
    BY <1>0, <2>1, NothingMoved
  <2>3. \A j, k \in (curr' + 1)..(curr' + len') : ~(j < k)
    BY <1>0, <2>1
  <2>4. LookedAt' /\ Places'
    BY <2>1, <2>3 DEF LookedAt, Places, InOrder
  <2> QED
    BY <2>2, <2>4 DEF OrderInv
<1>2. CASE size - curr # 1
  <2>1. c + 2 <= size /\ c + 1 \in Nat /\ c + 1 \in (curr + len)..size
    BY <1>0, <1>a, <1>2
  <2>2. Cut(c + 1)
    BY <1>0, <2>1 DEF RestCut
  <2>3. IF LE(dst[c + 1], dst[c + 2]) THEN InOrder(c, 2) ELSE Descends(c, 2)
    BY <1>0, <2>1, <2>2, PairLooked
  <2>4. At(curr) = dst[c + 1] /\ At(curr + 1) = dst[c + 2]
    <3>1. (c + 1) + 1 = c + 2
      OBVIOUS
    <3> QED
      BY <1>a, <3>1 DEF At
  <2>5. CASE dst' = dst /\ len' = 2 /\ pc' = "follow"
    <3>1. ArrayOK' /\ RunsOrdered' /\ RestCut' /\ OnlyMoved
      BY <1>0, <2>5, NothingMoved
    <3>2. LookedAt'
      <4>1. /\ curr' = c /\ dst' = dst /\ At(curr)' = dst[c + 1] /\ At(curr + 1)' = dst[c + 2]
        BY <1>0, <1>a, <2>4, <2>5 DEF At
      <4> QED
        BY <2>3, <2>5, <4>1 DEF LookedAt, InOrder, Descends
    <3>3. Places'
      BY <2>5 DEF Places
    <3> QED
      BY <3>1, <3>2, <3>3 DEF OrderInv
  <2>6. CASE /\ curr >= size - 2 /\ len' = 2 /\ pc' = "extend"
             /\ dst' = IF LE(At(size - 2), At(size - 1)) THEN dst
                       ELSE Stored(size - 2, <<At(size - 1), At(size - 2)>>)
    <3>1. size = c + 2 /\ size - 2 = c /\ size - 1 = c + 1
      BY <1>0, <1>a, <2>1, <2>6
    <3>2. At(size - 2) = dst[c + 1] /\ At(size - 1) = dst[c + 2]
      BY <1>a, <2>4, <3>1
    <3>3. Places'
      BY <2>6 DEF Places
    <3>4. CASE LE(dst[c + 1], dst[c + 2])
      <4>1. dst' = dst
        BY <2>6, <3>2, <3>4
      <4>2. ArrayOK' /\ RunsOrdered' /\ RestCut' /\ OnlyMoved
        BY <1>0, <2>6, <4>1, NothingMoved
      <4>3. LookedAt'
        BY <1>0, <1>a, <2>3, <2>6, <3>4, <4>1 DEF LookedAt, InOrder
      <4> QED
        BY <3>3, <4>2, <4>3 DEF OrderInv
    <3>5. CASE ~LE(dst[c + 1], dst[c + 2])
      <4>1. dst' = Stored(c, <<dst[c + 2], dst[c + 1]>>)
        BY <2>6, <3>1, <3>2, <3>5
      <4>2. <<dst[c + 2], dst[c + 1]>> = [k \in 1..2 |-> dst[c + 2 + 1 - k]]
        <5>1. c + 2 + 1 - 1 = c + 2 /\ c + 2 + 1 - 2 = c + 1 /\ 1..2 = {1, 2}
          OBVIOUS
        <5>2. \A k \in 1..2 : <<dst[c + 2], dst[c + 1]>>[k] = dst[c + 2 + 1 - k]
          BY <5>1
        <5> QED
          BY <5>2
      <4>3. dst' = Stored(c, [k \in 1..2 |-> dst[c + 2 + 1 - k]]) /\ Descends(c, 2) /\ 2 \in Nat
        BY <2>3, <3>5, <4>1, <4>2
      <4>4. Shuffled(c, 2) /\ InOrder(c, 2)'
        BY <1>0, <2>1, <4>3, ReversedKeeps
      <4>5. curr <= c
        BY <1>a
      <4>6. /\ ArrayOK' /\ RunsOrdered' /\ Cut(curr)' /\ OnlyMoved
            /\ \A b \in (c + 2)..size : b >= curr + len => Cut(b)'
        BY <1>0, <2>1, <4>3, <4>4, <4>5, AheadKept
      <4>7. RestCut'
        <5>1. \A b \in (c + 2)..size : b >= curr + len
          BY <1>0, <1>a
        <5>2. \A b \in (c + 2)..size : Cut(b)'
          BY <4>6, <5>1
        <5>3. curr' = c /\ size' = size /\ len' = 2
          BY <1>0, <1>a, <2>6
        <5> QED
          BY <4>6, <5>2, <5>3 DEF RestCut
      <4>8. LookedAt'
        BY <1>0, <1>a, <2>6, <4>4 DEF LookedAt, InOrder
      <4> QED
        BY <3>3, <4>6, <4>7, <4>8 DEF OrderInv
    <3> QED
      BY <3>4, <3>5
  <2> QED
    BY <1>2, <2>5, <2>6 DEF Count
<1> QED
  BY <1>1, <1>2

LEMMA FollowOrder == ASSUME TileInv, OrderInv, Follow PROVE OrderInv' /\ OnlyMoved
<1>0. /\ size \in Nat /\ curr \in Nat /\ len \in Nat \ {0} /\ pc = "follow" /\ curr + len <= size - 1 /\ len >= 2
      /\ TypeInv /\ RunsTile /\ ArrayOK /\ RestCut
      /\ size' = size /\ curr' = curr /\ runs' = runs
  BY DEF TileInv, TypeInv, Bounds, OrderInv, LookedAt, Follow
<1>a. PICK c \in Nat : c = curr
  BY <1>0
<1>b. PICK n \in Nat \ {0} : n = len
  BY <1>0
<1> DEFINE up == LE(dst[c + 1], dst[c + 2])
<1>1. At(curr) = dst[c + 1] /\ At(curr + 1) = dst[c + 2]
  <2>1. (c + 1) + 1 = c + 2
    OBVIOUS
  <2> QED
    BY <1>a, <2>1 DEF At
<1>2. IF up THEN InOrder(c, n) ELSE Descends(c, n)
  BY <1>0, <1>a, <1>b, <1>1 DEF OrderInv, LookedAt
<1>3. c + n + 1 <= size /\ c + n <= size /\ c + n \in (curr + len)..size
  BY <1>0, <1>a, <1>b
<1>4. Cut(c + n)
  BY <1>0, <1>3 DEF RestCut
<1>5. At(c + n - 1) = dst[c + n] /\ At(c + n) = dst[c + n + 1]
  <2>1. (c + n - 1) + 1 = c + n
    OBVIOUS
  <2> QED
    BY <2>1 DEF At
<1>6. \/ /\ dst' = IF up THEN dst ELSE Stored(c, [k \in 1..n |-> dst[c + n + 1 - k]])
         /\ pc' = "extend" /\ len' = len
      \/ /\ len' = len + 1 /\ dst' = dst /\ pc' = pc
         /\ LE(dst[c + n], dst[c + n + 1]) = up
  BY <1>a, <1>b, <1>1, <1>5 DEF Follow
<1> HIDE DEF up
<1>7. CASE /\ len' = len + 1 /\ dst' = dst /\ pc' = pc /\ LE(dst[c + n], dst[c + n + 1]) = up
  <2>1. ArrayOK' /\ RunsOrdered' /\ RestCut' /\ OnlyMoved
    <3>1. len' \in Nat /\ len' >= len /\ len \in Nat
      BY <1>0, <1>7
    <3> QED
      BY <1>0, <1>7, <3>1, NothingMoved
  <2>2. IF up THEN InOrder(c, n + 1) ELSE Descends(c, n + 1)
    <3>1. /\ InOrder(c, n) /\ LE(dst[c + n], dst[c + n + 1]) => InOrder(c, n + 1)
          /\ Descends(c, n) /\ ~LE(dst[c + n], dst[c + n + 1]) => Descends(c, n + 1)
      BY <1>0, <1>3, <1>4, OneMoreLooked
    <3> QED
      BY <1>2, <1>7, <3>1
  <2>3. LookedAt'
    <3>1. /\ curr' = c /\ len' = n + 1 /\ len' >= 2 /\ dst' = dst /\ pc' = "follow"
          /\ At(curr)' = dst[c + 1] /\ At(curr + 1)' = dst[c + 2]
      BY <1>0, <1>a, <1>b, <1>1, <1>7 DEF At
    <3> QED
      BY <2>2, <3>1 DEF LookedAt, InOrder, Descends, up
  <2>4. Places'
    BY <1>0, <1>7 DEF Places
  <2> QED
    BY <2>1, <2>3, <2>4 DEF OrderInv
<1>8. CASE up /\ dst' = dst /\ pc' = "extend" /\ len' = len
  <2>1. ArrayOK' /\ RunsOrdered' /\ RestCut' /\ OnlyMoved
    BY <1>0, <1>8, NothingMoved
  <2>2. LookedAt' /\ Places'
    BY <1>0, <1>a, <1>b, <1>2, <1>8 DEF LookedAt, Places, InOrder
  <2> QED
    BY <2>1, <2>2 DEF OrderInv
<1>9. CASE ~up /\ dst' = Stored(c, [k \in 1..n |-> dst[c + n + 1 - k]]) /\ pc' = "extend" /\ len' = len
  <2>1. Shuffled(c, n) /\ InOrder(c, n)'
    BY <1>0, <1>2, <1>3, <1>9, ReversedKeeps
  <2>2. curr <= c /\ n \in Nat
    BY <1>a
  <2>3. /\ ArrayOK' /\ RunsOrdered' /\ Cut(curr)' /\ OnlyMoved
        /\ \A b \in (c + n)..size : b >= curr + len => Cut(b)'
    BY <1>0, <1>3, <2>1, <2>2, AheadKept
  <2>4. RestCut'
    <3>1. \A b \in (c + n)..size : b >= curr + len
      BY <1>0, <1>a, <1>b
    <3>2. \A b \in (c + n)..size : Cut(b)'
      BY <2>3, <3>1
    <3>3. curr' = c /\ size' = size /\ len' = n
      BY <1>0, <1>a, <1>b, <1>9
    <3> QED
      BY <2>3, <3>2, <3>3 DEF RestCut
  <2>5. LookedAt' /\ Places'
    BY <1>0, <1>a, <1>b, <1>9, <2>1 DEF LookedAt, Places, InOrder
  <2> QED
    BY <2>3, <2>4, <2>5 DEF OrderInv
<1> QED
  BY <1>6, <1>7, <1>8, <1>9

LEMMA ExtendOrder == ASSUME TileInv, OrderInv, Extend PROVE OrderInv' /\ OnlyMoved
<1>0. /\ size \in Nat /\ curr \in Nat /\ len \in Nat \ {0} /\ pc = "extend" /\ curr + len < size
      /\ TypeInv /\ RunsTile /\ ArrayOK /\ RestCut /\ InOrder(curr, len)
      /\ size' = size /\ curr' = curr /\ runs' = runs /\ pc' = pc
      /\ dst' = Inserted(curr, len) /\ len' = len + 1
  <2>1. size \in Nat /\ curr \in Nat /\ len \in Nat \ {0} /\ len < size - curr
    BY DEF TileInv, TypeInv, Extend, Short
  <2>2. curr + len < size
    BY <2>1
  <2> QED
    BY <2>1, <2>2 DEF TileInv, OrderInv, LookedAt, Extend
<1>a. PICK c \in Nat : c = curr
  BY <1>0
<1>b. PICK n \in Nat \ {0} : n = len
  BY <1>0
<1>1. c + n + 1 <= size /\ n + 1 \in Nat /\ c + (n + 1) <= size /\ c + n \in (curr + len)..size /\ curr <= c
  BY <1>0, <1>a, <1>b
<1>2. Cut(c + n) /\ InOrder(c, n) /\ dst' = Inserted(c, n)
  BY <1>0, <1>a, <1>b, <1>1 DEF RestCut
<1>3. Shuffled(c, n + 1) /\ InOrder(c, n + 1)'
  BY <1>0, <1>1, <1>2, InsertedKeeps
<1>4. /\ ArrayOK' /\ RunsOrdered' /\ Cut(curr)' /\ OnlyMoved
      /\ \A b \in (c + (n + 1))..size : b >= curr + len => Cut(b)'
  BY <1>0, <1>1, <1>3, AheadKept
<1>5. RestCut'
  <2>1. \A b \in (c + (n + 1))..size : b >= curr + len
    BY <1>0, <1>a, <1>b
  <2>2. \A b \in (c + (n + 1))..size : Cut(b)'
    BY <1>4, <2>1
  <2>3. curr' = c /\ size' = size /\ len' = n + 1
    BY <1>0, <1>a, <1>b
  <2> QED
    BY <1>4, <2>2, <2>3 DEF RestCut
<1>6. LookedAt' /\ Places'
  BY <1>0, <1>a, <1>b, <1>3 DEF LookedAt, Places, InOrder
<1> QED
  BY <1>4, <1>5, <1>6 DEF OrderInv

LEMMA PushOrder == ASSUME TileInv, OrderInv, Push PROVE OrderInv' /\ OnlyMoved
<1>0. /\ size \in Nat /\ curr \in Nat /\ len \in Nat \ {0} /\ curr + len <= size
      /\ runs \in Seq(Run) /\ Len(runs) \in Nat
      /\ ArrayOK /\ RunsOrdered /\ RestCut /\ InOrder(curr, len)
      /\ size' = size /\ dst' = dst /\ runs' = Append(runs, [start |-> curr, length |-> len])
      /\ curr' = curr + len /\ len' = 1
      /\ pc' \in {"finish", "count", "check"} /\ (pc' = "finish" => curr' = size)
  BY DEF TileInv, TypeInv, Bounds, OrderInv, LookedAt, Push
<1>1. /\ Len(runs') = Len(runs) + 1 /\ runs' # <<>>
      /\ runs'[Len(runs) + 1] = [start |-> curr, length |-> len]
      /\ \A k \in 1..Len(runs) : runs'[k] = runs[k]
  BY <1>0
<1>2. RunsOrdered'
  <2>1. ASSUME NEW k \in 1..(Len(runs) + 1)
        PROVE  (InOrder(runs[k].start, runs[k].length) /\ Cut(runs[k].start))'
    <3>1. CASE k \in 1..Len(runs)
      <4>1. InOrder(runs[k].start, runs[k].length) /\ Cut(runs[k].start)
        BY <1>0, <3>1 DEF RunsOrdered
      <4> QED
        BY <1>0, <1>1, <3>1, <4>1 DEF InOrder, Cut
    <3>2. CASE k = Len(runs) + 1
      <4>1. runs'[k].start = curr /\ runs'[k].length = len
        BY <1>1, <3>2
      <4>2. Cut(curr)
        BY <1>0 DEF RestCut
      <4> QED
        BY <1>0, <4>1, <4>2 DEF InOrder, Cut
    <3> QED
      BY <1>0, <3>1, <3>2
  <2> QED
    BY <1>1, <2>1 DEF RunsOrdered
<1>3. RestCut'
  <2>1. curr + len \in (curr + len)..size /\ \A b \in ((curr + len) + 1)..size : b \in (curr + len)..size
    BY <1>0
  <2>2. Cut(curr + len) /\ \A b \in ((curr + len) + 1)..size : Cut(b)
    BY <1>0, <2>1 DEF RestCut
  <2> QED
    BY <1>0, <2>2 DEF RestCut, Cut
<1>4. LookedAt' /\ Places'
  BY <1>0, <1>1 DEF LookedAt, Places
<1>5. ArrayOK' /\ OnlyMoved
  BY <1>0 DEF ArrayOK, OnlyMoved
<1> QED
  BY <1>2, <1>3, <1>4, <1>5 DEF OrderInv

LEMMA CollapseOrder == ASSUME TileInv, OrderInv, Collapse PROVE OrderInv' /\ OnlyMoved
<1>0. /\ size \in Nat /\ curr \in Nat /\ len \in Nat /\ Len(runs) \in Nat /\ pc = "collapse" /\ len = 1
      /\ TypeInv /\ RunsTile /\ curr <= size
      /\ size' = size /\ curr' = curr /\ len' = len
  BY DEF TileInv, TypeInv, RunsTile, OrderInv, LookedAt, Collapse
<1>1. /\ pc' \in {"check", "collapse"}
      /\ \/ dst' = dst /\ runs' = runs
         \/ \E i \in 1..(Len(runs) - 1) : MergeRuns(i)
  <2>1. CASE Len(runs) <= 1
    BY <1>0, <2>1 DEF Collapse
  <2>2. CASE Len(runs) = 2
    <3>1. 1 \in 1..(Len(runs) - 1)
      BY <2>2
    <3> QED
      BY <2>2, <3>1 DEF Collapse
  <2>3. CASE Len(runs) > 2
    <3> DEFINE at == IF BCD /\ ~CD THEN Len(runs) - 2 ELSE Len(runs) - 1
    <3>1. at \in 1..(Len(runs) - 1)
      BY <1>0, <2>3
    <3>a. \A n \in Nat : n > 2 => ~(n <= 1) /\ n # 2
      OBVIOUS
    <3>2. ~(Len(runs) <= 1) /\ Len(runs) # 2
      BY <1>0, <2>3, <3>a, Zenon
    <3>3. IF ~BCD /\ ~CD THEN pc' = "check" /\ UNCHANGED <<dst, runs>> ELSE pc' = pc /\ MergeRuns(at)
      BY <3>2 DEF Collapse
    <3> HIDE DEF at
    <3>4. CASE ~BCD /\ ~CD
      BY <3>3, <3>4
    <3>5. CASE ~(~BCD /\ ~CD)
      BY <1>0, <3>1, <3>3, <3>5
    <3> QED
      BY <3>4, <3>5
  <2>4. \A n \in Nat : n <= 1 \/ n = 2 \/ n > 2
    OBVIOUS
  <2>5. Len(runs) <= 1 \/ Len(runs) = 2 \/ Len(runs) > 2
    BY <1>0, <2>4, Zenon
  <2> QED
    BY <2>1, <2>2, <2>3, <2>5
<1>2. ArrayOK' /\ RunsOrdered' /\ RestCut' /\ OnlyMoved
  <2>1. CASE dst' = dst /\ runs' = runs
    <3>1. len' \in Nat /\ len' >= len
      BY <1>0
    <3> QED
      BY <1>0, <2>1, <3>1, NothingMoved
  <2>2. CASE \E i \in 1..(Len(runs) - 1) : MergeRuns(i)
    BY <1>0, <2>2, MergeOrder
  <2> QED
    BY <1>1, <2>1, <2>2
<1>3. LookedAt' /\ Places'
  BY <1>0, <1>1 DEF LookedAt, Places
<1> QED
  BY <1>2, <1>3 DEF OrderInv

LEMMA FinishOrder == ASSUME TileInv, OrderInv, Finish PROVE OrderInv' /\ OnlyMoved
<1>0. /\ size \in Nat /\ curr \in Nat /\ len \in Nat /\ Len(runs) \in Nat /\ pc = "finish"
      /\ TypeInv /\ RunsTile /\ curr = size /\ runs # <<>> /\ runs \in Seq(Run) /\ RunsOrdered
      /\ size' = size /\ curr' = curr /\ len' = len
  BY DEF TileInv, TypeInv, RunsTile, OrderInv, Places, Finish
<1>1. CASE Len(runs) > 1
  <2>1. Len(runs) - 1 \in 1..(Len(runs) - 1)
    BY <1>0, <1>1
  <2>2. MergeRuns(Len(runs) - 1) /\ pc' = pc
    BY <1>1 DEF Finish
  <2>3. ArrayOK' /\ RunsOrdered' /\ RestCut' /\ OnlyMoved
    BY <1>0, <2>1, <2>2, MergeOrder
  <2>4. runs' # <<>>
    <3>1. runs' = MergedRuns(Len(runs) - 1)
      BY <2>2 DEF MergeRuns, MergedRuns
    <3>2. Len(runs') = Len(runs) - 1
      BY <1>0, <2>1, <3>1, MergeKeeps
    <3> QED
      BY <1>0, <1>1, <3>2
  <2>5. LookedAt' /\ Places'
    BY <1>0, <2>2, <2>4 DEF LookedAt, Places
  <2> QED
    BY <2>3, <2>5 DEF OrderInv
<1>2. CASE ~(Len(runs) > 1)
  <2>1. dst' = dst /\ runs' = runs /\ pc' = "done"
    BY <1>2 DEF Finish
  <2>2. ArrayOK' /\ RunsOrdered' /\ RestCut' /\ OnlyMoved
    <3>1. len' \in Nat /\ len' >= len
      BY <1>0
    <3> QED
      BY <1>0, <2>1, <3>1, NothingMoved
  <2>3. InOrder(0, size)
    <3>0. \A n \in Nat : ~(n > 1) => n = 0 \/ n = 1
      OBVIOUS
    <3>a. Len(runs) # 0
      BY <1>0
    <3>1. Len(runs) = 1
      BY <1>0, <1>2, <3>0, <3>a, Zenon
    <3>2. 1 \in 1..Len(runs) /\ runs[1].length \in Nat
      <4>1. 1 \in 1..Len(runs)
        BY <3>1
      <4> QED
        BY <1>0, <4>1, TilesApart
    <3>3. runs[1].start = 0 /\ curr = runs[1].start + runs[1].length
      BY <1>0, <3>1, <3>2 DEF RunsTile
    <3>4. runs[1].length = size
      BY <1>0, <3>2, <3>3
    <3> QED
      BY <1>0, <3>2, <3>3, <3>4 DEF RunsOrdered
  <2>4. LookedAt' /\ Places'
    BY <1>0, <2>1, <2>3 DEF LookedAt, Places, InOrder
  <2> QED
    BY <2>2, <2>4 DEF OrderInv
<1> QED
  BY <1>1, <1>2

LEMMA NextOrder == TileInv /\ OrderInv /\ [Next]_vars => OrderInv' /\ OnlyMoved
<1> SUFFICES ASSUME TileInv, OrderInv, [Next]_vars PROVE OrderInv' /\ OnlyMoved
  OBVIOUS
<1>1. CASE Check
  <2>1. /\ size \in Nat /\ curr \in Nat /\ len \in Nat /\ len' = len /\ len' >= len
        /\ UNCHANGED <<dst, size, runs, curr>> /\ pc = "check" /\ pc' \in {"count", "collapse"}
    BY <1>1 DEF Check, TileInv, TypeInv
  <2>2. ArrayOK' /\ RunsOrdered' /\ RestCut' /\ OnlyMoved
    BY <2>1, NothingMoved
  <2>3. LookedAt' /\ Places'
    BY <2>1 DEF OrderInv, LookedAt, Places
  <2> QED
    BY <2>2, <2>3 DEF OrderInv
<1>2. CASE UNCHANGED vars
  <2>1. OrderInv'
    BY <1>2 DEF vars, OrderInv, ArrayOK, RunsOrdered, RestCut, LookedAt, Places, InOrder, Descends, Cut, At
  <2>2. OnlyMoved
    BY <1>2 DEF vars, OnlyMoved
  <2> QED
    BY <2>1, <2>2
<1> QED
  BY <1>1, <1>2, SmallOrder, CountOrder, FollowOrder, ExtendOrder, PushOrder, CollapseOrder, FinishOrder DEF Next

LEMMA InitOrder == Init => OrderInv
<1> SUFFICES ASSUME Init PROVE OrderInv
  OBVIOUS
<1>1. /\ dst \in Seq(Int \X Int) /\ size = Len(dst) /\ curr = 0 /\ len = 1 /\ runs = <<>>
      /\ pc \in {"done", "small", "count"} /\ (pc = "done" => size <= 1) /\ (pc # "done" => ~(size <= 1))
  BY TimSortAssumption DEF Init
<1>2. ArrayOK /\ size \in Nat
  BY <1>1 DEF ArrayOK, Element
<1>3. \A j, k \in 1..size : j < k => dst[j][2] < dst[k][2]
  BY <1>1, NumberedAssumption DEF Init
<1>4. ASSUME NEW b \in Nat PROVE Cut(b)
  <2> SUFFICES ASSUME NEW j \in 1..b, NEW k \in (b + 1)..size PROVE dst[j][2] < dst[k][2]
    BY DEF Cut
  <2>1. j \in 1..size /\ k \in 1..size /\ j < k
    BY <1>2
  <2> QED
    BY <1>3, <2>1
<1>5. RestCut
  <2>1. \A b \in 1..size : b \in Nat
    OBVIOUS
  <2>2. 0 \in Nat /\ 0 + 1 = 1
    OBVIOUS
  <2> QED
    BY <1>1, <1>4, <2>1, <2>2 DEF RestCut
<1>6. RunsOrdered
  BY <1>1 DEF RunsOrdered
<1>7. \A n \in Nat : n <= 1 => InOrder(0, n)
  BY DEF InOrder
<1>8. LookedAt
  BY <1>1, <1>7 DEF LookedAt
<1>9. Places
  BY <1>1, <1>2, <1>7 DEF Places
<1> QED
  BY <1>2, <1>5, <1>6, <1>8, <1>9 DEF OrderInv

-----------------------------------------------------------------------------
(* What follows from it *)

\* Every position before curr is in a run.
LEMMA RunOf ==
  ASSUME TypeInv, RunsTile, NEW k \in 1..curr
  PROVE  \E p \in 1..Len(runs) : runs[p].start < k /\ k <= runs[p].start + runs[p].length
<1>0. Len(runs) \in Nat /\ curr \in Nat
  BY DEF TypeInv
<1> DEFINE P == {p \in 1..Len(runs) : k <= runs[p].start + runs[p].length}
<1>1. runs # <<>>
  BY <1>0 DEF RunsTile
<1>2. Len(runs) \in 1..Len(runs)
  BY <1>0, <1>1 DEF TypeInv
<1>3. Len(runs) \in P
  <2>1. curr = runs[Len(runs)].start + runs[Len(runs)].length
    BY <1>1 DEF RunsTile
  <2> QED
    BY <1>0, <1>2, <2>1
<1>4. P \in SUBSET Nat /\ P # {}
  BY <1>3
<1>5. PICK p \in P : \A q \in P : p <= q
  <2> HIDE DEF P
  <2> QED
    BY <1>4, LeastElement, Zenon
<1>6. p \in 1..Len(runs) /\ k <= runs[p].start + runs[p].length
  OBVIOUS
<1>7. runs[p].start < k
  <2>1. CASE p = 1
    BY <1>6, <2>1 DEF RunsTile
  <2>2. CASE p # 1
    <3>1. p - 1 \in 1..Len(runs) /\ ~(p <= p - 1)
      BY <1>0, <1>6, <2>2
    <3>2. p - 1 \notin P
      BY <1>5, <3>1
    <3>3. ~(k <= runs[p - 1].start + runs[p - 1].length)
      BY <3>1, <3>2
    <3>4. runs[p].start = runs[p - 1].start + runs[p - 1].length
      BY <1>6, <2>2 DEF RunsTile
    <3>5. runs[p - 1].start \in Nat /\ runs[p - 1].length \in Nat
      BY <3>1, TilesApart
    <3> QED
      BY <3>3, <3>4, <3>5
  <2> QED
    BY <2>1, <2>2
<1> HIDE DEF P
<1> QED
  BY <1>6, <1>7

\* No element is there twice.
LEMMA NoneTwice ==
  ASSUME TileInv, OrderInv, NEW j \in 1..size, NEW k \in 1..size, j < k
  PROVE  dst[j] # dst[k]
<1>0. /\ size \in Nat /\ curr \in Nat /\ len \in Nat \ {0} /\ pc \in PCs
      /\ TypeInv /\ RunsTile /\ ArrayOK /\ RunsOrdered /\ RestCut
  BY DEF TileInv, TypeInv, OrderInv
<1>1. /\ dst[j] \in Element /\ dst[k] \in Element
      /\ dst[j][1] \in Int /\ dst[j][2] \in Int /\ dst[k][1] \in Int /\ dst[k][2] \in Int
  <2>1. dst[j] \in Element /\ dst[k] \in Element
    BY <1>0 DEF ArrayOK
  <2> QED
    BY <2>1 DEF Element
<1>2. ASSUME NEW b \in Nat, Cut(b), j <= b, b < k PROVE dst[j] # dst[k]
  <2>1. j \in 1..b /\ k \in (b + 1)..size
    BY <1>0, <1>2
  <2>2. dst[j][2] < dst[k][2]
    BY <1>2, <2>1 DEF Cut
  <2> QED
    BY <1>1, <2>2
<1>3. ASSUME NEW a \in Nat, NEW n \in Nat, a < j, k <= a + n, InOrder(a, n) \/ Descends(a, n) PROVE dst[j] # dst[k]
  <2>1. j \in (a + 1)..(a + n) /\ k \in (a + 1)..(a + n)
    BY <1>3
  <2>2. Less(dst[j], dst[k]) \/ dst[k][1] < dst[j][1]
    BY <1>3, <2>1 DEF InOrder, Descends
  <2> QED
    BY <1>1, <2>2 DEF Less
<1>4. CASE k > curr + len
  <2>1. k - 1 \in Nat /\ j <= k - 1 /\ k - 1 < k /\ k - 1 \in (curr + len)..size
    BY <1>0, <1>4
  <2>2. Cut(k - 1)
    BY <1>0, <2>1 DEF RestCut
  <2> QED
    BY <1>2, <2>1, <2>2
<1>5. CASE k <= curr
  <2>1. k \in 1..curr
    BY <1>0, <1>5
  <2>2. PICK p \in 1..Len(runs) : runs[p].start < k /\ k <= runs[p].start + runs[p].length
    BY <1>0, <2>1, RunOf
  <2>3. /\ runs[p].start \in Nat /\ runs[p].length \in Nat
        /\ InOrder(runs[p].start, runs[p].length) /\ Cut(runs[p].start)
    BY <1>0, <2>2, TilesApart DEF RunsOrdered
  <2>4. CASE j <= runs[p].start
    BY <1>2, <2>2, <2>3, <2>4
  <2>5. CASE runs[p].start < j
    BY <1>3, <2>2, <2>3, <2>5
  <2> QED
    BY <2>3, <2>4, <2>5
<1>6. CASE curr < k /\ k <= curr + len
  <2>1. CASE j <= curr
    BY <1>0, <1>2, <1>6, <2>1 DEF RestCut
  <2>2. CASE curr < j
    <3>1. pc \in {"small", "extend", "follow", "done"}
      <4>1. len # 1
        BY <1>0, <1>6, <2>2
      <4>2. pc # "finish"
        BY <1>0, <1>6 DEF OrderInv, Places
      <4> QED
        BY <1>0, <4>1, <4>2 DEF OrderInv, LookedAt, PCs
    <3>2. CASE pc = "done"
      <4>1. InOrder(0, size) /\ 0 \in Nat /\ 0 < j /\ k <= 0 + size
        BY <1>0, <3>2 DEF OrderInv, Places
      <4> QED
        BY <1>0, <1>3, <4>1
    <3>3. CASE pc # "done"
      <4>1. InOrder(curr, len) \/ Descends(curr, len)
        BY <3>1, <3>3 DEF OrderInv, LookedAt
      <4> QED
        BY <1>0, <1>3, <1>6, <2>2, <4>1
    <3> QED
      BY <3>2, <3>3
  <2> QED
    BY <1>0, <2>1, <2>2
<1> QED
  BY <1>0, <1>4, <1>5, <1>6

LEMMA InOrderStable ==
  ASSUME NEW a \in Nat, NEW n \in Nat, InOrder(a, n)
  PROVE  StableFrom(a, n)
<1> SUFFICES ASSUME NEW k \in (a + 1)..(a + n - 1)
             PROVE  \/ dst[k][1] < dst[k + 1][1]
                    \/ dst[k][1] = dst[k + 1][1] /\ dst[k][2] < dst[k + 1][2]
  BY DEF StableFrom
<1>1. k \in (a + 1)..(a + n) /\ k + 1 \in (a + 1)..(a + n) /\ k < k + 1
  OBVIOUS
<1>2. Less(dst[k], dst[k + 1])
  BY <1>1 DEF InOrder
<1> QED
  BY <1>2 DEF Less

Distinct == \A j, k \in 1..size : j # k => dst[j] # dst[k]

LEMMA AllDistinct == TileInv /\ OrderInv => Distinct
<1> SUFFICES ASSUME TileInv, OrderInv, NEW j \in 1..size, NEW k \in 1..size, j # k PROVE dst[j] # dst[k]
  BY DEF Distinct
<1>1. size \in Nat
  BY DEF OrderInv, ArrayOK
<1>2. j < k \/ k < j
  BY <1>1
<1> QED
  BY <1>2, NoneTwice

LEMMA OrderSorted == TileInv /\ OrderInv => RunsSorted
<1> SUFFICES ASSUME TileInv, OrderInv PROVE RunsSorted
  OBVIOUS
<1>0. TypeInv /\ RunsTile /\ size \in Nat /\ RunsOrdered
  BY DEF TileInv, TypeInv, OrderInv
<1>1. ASSUME NEW i \in 1..Len(runs) PROVE StableFrom(runs[i].start, runs[i].length)
  <2>1. runs[i].start \in Nat /\ runs[i].length \in Nat
    BY <1>0, TilesApart
  <2>2. InOrder(runs[i].start, runs[i].length)
    BY <1>0 DEF RunsOrdered
  <2> QED
    BY <2>1, <2>2, InOrderStable
<1>2. ASSUME pc = "done" PROVE StableFrom(0, size)
  <2>1. InOrder(0, size) /\ 0 \in Nat
    BY <1>2 DEF OrderInv, Places
  <2> QED
    BY <1>0, <2>1, InOrderStable
<1> QED
  BY <1>1, <1>2, AllDistinct DEF RunsSorted, Distinct

\* For arrays of every length, every run is in order with equal keys in the order of
\* the input, no element is there twice, and at the end the whole array is one such
\* run: BINARY_INSERTION_SORT, REVERSE and TIM_SORT_MERGE sort, and are stable.
THEOREM SortsStably == Spec => []RunsSorted
<1>1. Init => TileInv /\ OrderInv
  BY InitTile, InitOrder
<1>2. (TileInv /\ OrderInv) /\ [Next]_vars => (TileInv /\ OrderInv)'
  BY NextTile, NextOrder
<1> QED
  BY <1>1, <1>2, OrderSorted, PTL DEF Spec

-----------------------------------------------------------------------------
(* Nothing is lost *)

Elements == {dst[k] : k \in 1..size}

LEMMA AsMany ==
  ASSUME NEW n \in Nat, NEW S, NEW f \in [1..n -> S], \A j, k \in 1..n : j # k => f[j] # f[k]
  PROVE  LET T == {f[k] : k \in 1..n} IN IsFiniteSet(T) /\ Cardinality(T) = n
<1> DEFINE T == {f[k] : k \in 1..n}
<1>1. IsFiniteSet(1..n) /\ Cardinality(1..n) = n
  <2>1. n \in Int /\ 1 \in Int /\ (1 > n => n = 0) /\ n - 1 + 1 = n
    OBVIOUS
  <2>2. IsFiniteSet(1..n) /\ Cardinality(1..n) = IF 1 > n THEN 0 ELSE n - 1 + 1
    BY <2>1, FS_Interval
  <2> QED
    BY <2>1, <2>2
<1>2. f \in Surjection(1..n, T)
  BY DEF Surjection
<1>3. f \in Injection(1..n, T)
  BY DEF Injection, IsInjective
<1> HIDE DEF T
<1>4. IsFiniteSet(T) /\ Cardinality(T) = Cardinality(1..n)
  BY <1>1, <1>2, <1>3, FS_Surjection
<1> QED
  BY <1>1, <1>4 DEF T

LEMMA SameElements ==
  ASSUME TileInv, OrderInv, TileInv', OrderInv', OnlyMoved, size' = size
  PROVE  Elements' = Elements
<1>1. size \in Nat /\ dst \in [1..size -> Element] /\ dst' \in [1..size -> Element]
  BY DEF OrderInv, ArrayOK
<1>2. Distinct /\ Distinct'
  BY AllDistinct, PTL
<1>4. PICK n \in Nat : n = size
  BY <1>1
<1>5. PICK f \in [1..n -> Element] : f = dst
  BY <1>1, <1>4
<1>6. PICK g \in [1..n -> Element] : g = dst'
  BY <1>1, <1>4
<1> DEFINE E == {f[k] : k \in 1..n}
           G == {g[k] : k \in 1..n}
<1>7. IsFiniteSet(E) /\ Cardinality(E) = n
  <2>1. \A j, k \in 1..n : j # k => f[j] # f[k]
    BY <1>2, <1>4, <1>5 DEF Distinct
  <2> QED
    BY <2>1, AsMany
<1>8. Cardinality(G) = n
  <2>1. \A j, k \in 1..n : j # k => g[j] # g[k]
    BY <1>2, <1>4, <1>6 DEF Distinct
  <2> QED
    BY <2>1, AsMany
<1>9. G \in SUBSET E
  BY <1>4, <1>5, <1>6 DEF OnlyMoved
<1>10. Elements = E /\ Elements' = G
  BY <1>4, <1>5, <1>6 DEF Elements
<1> HIDE DEF E, G
<1>11. E = G
  BY <1>7, <1>8, <1>9, FS_Subset
<1> QED
  BY <1>10, <1>11

\* For arrays of every length, no step of the sort loses, doubles or makes up an
\* element: what TIM_SORT_MERGE copies out comes back, whichever side runs out first.
THEOREM SortPermutes == Spec => [][Elements' = Elements]_vars
<1>1. Init => TileInv /\ OrderInv
  BY InitTile, InitOrder
<1>2. (TileInv /\ OrderInv) /\ [Next]_vars => (TileInv /\ OrderInv)'
  BY NextTile, NextOrder
<1>3. (TileInv /\ OrderInv) /\ (TileInv /\ OrderInv)' /\ [Next]_vars => [Elements' = Elements]_vars
  <2> SUFFICES ASSUME TileInv, OrderInv, TileInv', OrderInv', [Next]_vars PROVE Elements' = Elements
    OBVIOUS
  <2>1. OnlyMoved
    BY NextOrder
  <2>2. size' = size
    BY DEF Next, vars, Small, Count, Follow, Extend, Push, Check, Collapse, Finish
  <2> QED
    BY <2>1, <2>2, SameElements
<1> QED
  BY <1>1, <1>2, <1>3, PTL DEF Spec

=============================================================================
