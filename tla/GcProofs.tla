------------------------------ MODULE GcProofs ------------------------------
(***************************************************************************)
(* For every number of objects, every finite set of fields and every bound *)
(* on references: a count is always the number of references, whatever     *)
(* cycles the objects form and whichever collection runs, so nothing that  *)
(* the program can reach is freed, and nothing is freed twice.             *)
(*                                                                         *)
(* The invariant splits a count into what fields, what C code and roots,   *)
(* and what pending decrements account for.                                *)
(***************************************************************************)
EXTENDS Gc, FiniteSetTheorems, SequenceTheorems, TLAPS

Op == [op : {"dec", "free", "tryFreed"}, obj : Obj]

\* how often e is in the sequence w
Count(w, e) == Cardinality({i \in 1 .. Len(w) : w[i] = e})
Decs(w, x) == Count(w, Pending("dec", x))
Frees(w, x) == Count(w, Pending("free", x))
Trying(w, x) == Count(w, Pending("tryFreed", x))

\* The fields of sl that refer to x, those of an object aside that only waits to be
\* freed with the work w: w has decrements for them.
From(sl, w, x) == {p \in Obj \X Slots : sl[p[1]][p[2]] = x /\ Frees(w, p[1]) = 0}
In(sl, w, x) == Cardinality(From(sl, w, x))
FieldsTo(f, x) == {s \in Slots : f[s] = x}

\* the references to x that no field holds
Outside(h, p, l, r, x) == h[x] + p[x] + l[x] + One(x \in r)

-----------------------------------------------------------------------------
(* How often an entry is in a sequence *)

LEMMA SameSize ==
  ASSUME NEW S, NEW T, IsFiniteSet(S), NEW f \in [S -> T],
         \A x, y \in S : f[x] = f[y] => x = y,
         \A t \in T : \E x \in S : f[x] = t
  PROVE  IsFiniteSet(T) /\ Cardinality(T) = Cardinality(S)
<1>1. f \in Bijection(S, T)
  BY DEF Bijection, Injection, Surjection, IsInjective
<1> QED
  BY <1>1, FS_Bijection DEF ExistsBijection

LEMMA CountFacts ==
  ASSUME NEW S, NEW w \in Seq(S), NEW e
  PROVE  /\ Count(w, e) \in Nat
         /\ Count(w, e) = 0 <=> \A i \in 1 .. Len(w) : w[i] # e
<1> DEFINE T == {i \in 1 .. Len(w) : w[i] = e}
<1>1. Len(w) \in Nat
  OBVIOUS
<1>2. IsFiniteSet(1 .. Len(w)) /\ T \in SUBSET (1 .. Len(w))
  BY <1>1, FS_Interval
<1>3. IsFiniteSet(T)
  BY <1>2, FS_Subset
<1>4. T = {} <=> \A i \in 1 .. Len(w) : w[i] # e
  OBVIOUS
<1> HIDE DEF T
<1>5. Cardinality(T) \in Nat /\ (Cardinality(T) = 0 <=> T = {})
  BY <1>3, FS_CardinalityType, FS_EmptySet
<1> QED
  BY <1>4, <1>5 DEF Count, T

LEMMA CountNone == \A e : Count(<< >>, e) = 0
<1> SUFFICES ASSUME NEW e PROVE Count(<< >>, e) = 0
  OBVIOUS
<1>1. {i \in 1 .. Len(<< >>) : << >>[i] = e} = {}
  OBVIOUS
<1> QED
  BY <1>1, FS_EmptySet DEF Count

LEMMA CountOne == \A d, e : Count(<<d>>, e) = One(d = e)
<1> SUFFICES ASSUME NEW d, NEW e PROVE Count(<<d>>, e) = One(d = e)
  OBVIOUS
<1>1. CASE d = e
  <2>1. {i \in 1 .. Len(<<d>>) : <<d>>[i] = e} = {1}
    BY <1>1
  <2> QED
    BY <1>1, <2>1, FS_Singleton DEF Count, One
<1>2. CASE d # e
  <2>1. {i \in 1 .. Len(<<d>>) : <<d>>[i] = e} = {}
    BY <1>2
  <2> QED
    BY <1>2, <2>1, FS_EmptySet DEF Count, One
<1> QED
  BY <1>1, <1>2

LEMMA CountConcat ==
  ASSUME NEW S, NEW u \in Seq(S), NEW v \in Seq(S), NEW e
  PROVE  Count(u \o v, e) = Count(u, e) + Count(v, e)
<1> DEFINE m == Len(u)
           n == Len(v)
           w == u \o v
           A == {i \in 1 .. m : u[i] = e}
           B == {i \in 1 .. n : v[i] = e}
           C == {i \in m + 1 .. m + n : w[i] = e}
           D == {i \in 1 .. Len(w) : w[i] = e}
           f == [i \in B |-> i + m]
<1>1. m \in Nat /\ n \in Nat /\ Len(w) = m + n
  OBVIOUS
<1>2. \A i \in 1 .. m : w[i] = u[i]
  OBVIOUS
<1>3. \A i \in 1 .. n : w[i + m] = v[i]
  OBVIOUS
<1>4. \A i \in m + 1 .. m + n : i - m \in 1 .. n /\ (i - m) + m = i
  BY <1>1
<1>5. \A i \in 1 .. n : i + m \in m + 1 .. m + n
  BY <1>1
<1> HIDE DEF m, n, w
<1>6. IsFiniteSet(A) /\ IsFiniteSet(B)
  <2>1. A \in SUBSET (1 .. m) /\ B \in SUBSET (1 .. n)
    OBVIOUS
  <2>2. IsFiniteSet(1 .. m) /\ IsFiniteSet(1 .. n)
    BY <1>1, FS_Interval
  <2> HIDE DEF A, B
  <2> QED
    BY <2>1, <2>2, FS_Subset
<1>7. f \in [B -> C]
  BY <1>3, <1>5
<1>8. \A i, j \in B : f[i] = f[j] => i = j
  BY <1>1
<1>9. \A t \in C : \E i \in B : f[i] = t
  <2> TAKE t \in C
  <2>1. t - m \in B
    BY <1>3, <1>4
  <2> QED
    BY <1>4, <2>1
<1>10. D = A \cup C
  <2>1. \A i : i \in 1 .. m + n <=> i \in 1 .. m \/ i \in m + 1 .. m + n
    BY <1>1
  <2> QED
    BY <1>1, <1>2, <2>1
<1>11. A \cap C = {}
  BY <1>1
<1> HIDE DEF A, B, C, D, f
<1>12. IsFiniteSet(C) /\ Cardinality(C) = Cardinality(B)
  BY <1>6, <1>7, <1>8, <1>9, SameSize
<1>13. Cardinality(D) = Cardinality(A) + Cardinality(C) - Cardinality({})
  BY <1>6, <1>10, <1>11, <1>12, FS_Union
<1>14. Cardinality(A) \in Nat /\ Cardinality(C) \in Nat
  BY <1>6, <1>12, FS_CardinalityType
<1>15. Cardinality(D) = Cardinality(A) + Cardinality(B)
  BY <1>12, <1>13, <1>14, FS_EmptySet
<1> QED
  BY <1>15 DEF A, B, D, m, n, w, Count

LEMMA CountTail ==
  ASSUME NEW S, NEW w \in Seq(S), w # << >>, NEW e
  PROVE  Count(w, e) = One(Head(w) = e) + Count(Tail(w), e)
<1> DEFINE a == <<Head(w)>>
           b == Tail(w)
<1>1. a \in Seq(S) /\ b \in Seq(S) /\ w = a \o b
  BY HeadTailProperties
<1>2. Count(a, e) = One(Head(w) = e)
  BY CountOne
<1> HIDE DEF a, b
<1>3. Count(a \o b, e) = Count(a, e) + Count(b, e)
  BY <1>1, CountConcat
<1> QED
  BY <1>1, <1>2, <1>3 DEF b

-----------------------------------------------------------------------------
(* The decrements that freeO makes *)

Rank(ss, s) == Cardinality({t \in ss : t =< s})

LEMMA RankFacts ==
  ASSUME NEW ss, ss \subseteq Int, IsFiniteSet(ss)
  PROVE  /\ \A s \in ss : Rank(ss, s) \in 1 .. Cardinality(ss)
         /\ \A s, t \in ss : Rank(ss, s) = Rank(ss, t) => s = t
         /\ \A i \in 1 .. Cardinality(ss) : \E s \in ss : Rank(ss, s) = i
<1> DEFINE Upto(s) == {t \in ss : t =< s}
           n == Cardinality(ss)
           f == [s \in ss |-> Rank(ss, s)]
<1>1. n \in Nat
  BY FS_CardinalityType
<1>2. \A s \in ss : /\ IsFiniteSet(Upto(s)) /\ Cardinality(Upto(s)) \in Nat
                    /\ Cardinality(Upto(s)) =< n
  <2> TAKE s \in ss
  <2>1. Upto(s) \in SUBSET ss
    OBVIOUS
  <2> HIDE DEF Upto
  <2> QED
    BY <2>1, FS_Subset, FS_CardinalityType
<1>3. \A s \in ss : Rank(ss, s) \in 1 .. n
  <2> TAKE s \in ss
  <2>1. s \in Upto(s)
    OBVIOUS
  <2>2. Rank(ss, s) = Cardinality(Upto(s))
    BY DEF Rank
  <2> HIDE DEF Upto, n
  <2>3. Cardinality(Upto(s)) # 0
    BY <1>2, <2>1, FS_EmptySet
  <2> QED
    BY <1>1, <1>2, <2>2, <2>3
<1>4. \A s, t \in ss : s < t => Rank(ss, s) # Rank(ss, t)
  <2> SUFFICES ASSUME NEW s \in ss, NEW t \in ss, s < t
               PROVE  Rank(ss, s) # Rank(ss, t)
    OBVIOUS
  <2>1. Upto(s) \in SUBSET Upto(t)
    <3>1. \A x \in ss : x =< s => x =< t
      OBVIOUS
    <3> QED
      BY <3>1
  <2>2. t \in Upto(t) /\ t \notin Upto(s)
    OBVIOUS
  <2>3. Rank(ss, s) = Cardinality(Upto(s)) /\ Rank(ss, t) = Cardinality(Upto(t))
    BY DEF Rank
  <2> HIDE DEF Upto
  <2> QED
    BY <1>2, <2>1, <2>2, <2>3, FS_Subset
<1>5. \A s, t \in ss : Rank(ss, s) = Rank(ss, t) => s = t
  <2> TAKE s, t \in ss
  <2>1. s < t \/ s = t \/ t < s
    OBVIOUS
  <2> QED
    BY <1>4, <2>1
<1>6. \A i \in 1 .. n : \E s \in ss : Rank(ss, s) = i
  <2>1. f \in Injection(ss, 1 .. n)
    BY <1>3, <1>5 DEF Injection, IsInjective
  <2>2. IsFiniteSet(1 .. n) /\ Cardinality(1 .. n) = n
    BY <1>1, FS_Interval
  <2>3. f \in Surjection(ss, 1 .. n)
    BY <2>1, <2>2, FS_Injection
  <2> QED
    BY <2>3 DEF Surjection
<1> QED
  BY <1>3, <1>5, <1>6

Holding(o, ss, e) == {s \in ss : Pending("dec", slot[o][s]) = e}

LEMMA DecrementsFacts ==
  ASSUME NEW o, NEW ss, ss \subseteq Int, IsFiniteSet(ss), \A s \in ss : slot[o][s] \in Obj
  PROVE  /\ Decrements(o, ss) \in Seq(Op)
         /\ \A e : Count(Decrements(o, ss), e)
                     = Cardinality(Holding(o, ss, e))
<1> DEFINE n == Cardinality(ss)
           At(i) == CHOOSE s \in ss : Rank(ss, s) = i
           w == [i \in 1 .. n |-> Pending("dec", slot[o][At(i)])]
<1>1. Decrements(o, ss) = w
  BY DEF Decrements, Rank
<1>2. n \in Nat
  BY FS_CardinalityType
<1>3. \A i \in 1 .. n : At(i) \in ss /\ Rank(ss, At(i)) = i
  <2>1. \A i \in 1 .. n : \E s \in ss : Rank(ss, s) = i
    BY RankFacts
  <2> QED
    BY <2>1
<1>4. \A s \in ss : Rank(ss, s) \in 1 .. n /\ At(Rank(ss, s)) = s
  <2> TAKE s \in ss
  <2>1. Rank(ss, s) \in 1 .. n
    BY RankFacts
  <2>2. At(Rank(ss, s)) \in ss /\ Rank(ss, At(Rank(ss, s))) = Rank(ss, s)
    BY <1>3, <2>1
  <2> HIDE DEF At
  <2>3. At(Rank(ss, s)) = s
    BY <2>2, RankFacts
  <2> QED
    BY <2>1, <2>3
<1> HIDE DEF n, At
<1>5. \A s \in ss : Pending("dec", slot[o][s]) \in Op
  BY DEF Op, Pending
<1>6. w \in Seq(Op) /\ Len(w) = n
  <2>1. \A i \in 1 .. n : Pending("dec", slot[o][At(i)]) \in Op
    BY <1>3, <1>5
  <2> QED
    BY <1>2, <2>1
<1>7. ASSUME NEW e
      PROVE  Count(w, e) = Cardinality(Holding(o, ss, e))
  <2> DEFINE A == {s \in ss : Pending("dec", slot[o][s]) = e}
             B == {i \in 1 .. Len(w) : w[i] = e}
             f == [s \in A |-> Rank(ss, s)]
  <2>1. IsFiniteSet(A)
    <3>1. A \in SUBSET ss
      OBVIOUS
    <3> HIDE DEF A
    <3> QED
      BY <3>1, FS_Subset
  <2>2. \A s \in ss : w[Rank(ss, s)] = Pending("dec", slot[o][s])
    BY <1>4
  <2>3. \A i \in 1 .. n : w[i] = Pending("dec", slot[o][At(i)])
    OBVIOUS
  <2> HIDE DEF w
  <2>4. f \in [A -> B]
    BY <1>4, <1>6, <2>2
  <2>5. \A s, t \in A : f[s] = f[t] => s = t
    BY RankFacts
  <2>6. \A i \in B : \E s \in A : f[s] = i
    BY <1>3, <1>6, <2>3
  <2> HIDE DEF A, B, f
  <2>7. Cardinality(B) = Cardinality(A)
    BY <2>1, <2>4, <2>5, <2>6, SameSize
  <2> QED
    BY <2>7 DEF A, B, Count, Holding
<1> QED
  BY <1>1, <1>6, <1>7

LEMMA OpFacts ==
  /\ \A x \in Obj : Pending("dec", x) \in Op /\ Pending("free", x) \in Op
                    /\ Pending("tryFreed", x) \in Op
  /\ \A x, y : /\ Pending("dec", x) # Pending("free", y)
               /\ Pending("dec", x) # Pending("tryFreed", y)
               /\ Pending("free", x) # Pending("tryFreed", y)
               /\ Pending("dec", x) = Pending("dec", y) <=> x = y
               /\ Pending("free", x) = Pending("free", y) <=> x = y
               /\ Pending("tryFreed", x) = Pending("tryFreed", y) <=> x = y
  /\ \A d \in Op : d.obj \in Obj /\ d = Pending(d.op, d.obj)
BY DEF Op, Pending

\* freeO decrements what the fields refer to, each as often as they do.
LEMMA FreeFieldsFacts ==
  ASSUME TypeOK, NEW o \in Obj
  PROVE  /\ FreeFields(o) \in Seq(Op)
         /\ \A x \in Obj : /\ Decs(FreeFields(o), x) = Cardinality(FieldsTo(slot[o], x))
                           /\ Frees(FreeFields(o), x) = 0
                           /\ Trying(FreeFields(o), x) = 0
<1> DEFINE ss == Full(o)
<1>1. ss \in SUBSET Slots /\ Slots \subseteq Int /\ IsFiniteSet(Slots)
  BY GcAssumption DEF Full
<1>2. \A s \in ss : slot[o][s] \in Obj
  BY DEF Full, TypeOK
<1>3. \A x \in Obj : {s \in ss : slot[o][s] = x} = FieldsTo(slot[o], x)
  BY DEF Full, FieldsTo, Obj, Nil
<1> HIDE DEF ss
<1>4. IsFiniteSet(ss) /\ ss \subseteq Int
  BY <1>1, FS_Subset
<1>5. /\ Decrements(o, ss) \in Seq(Op)
      /\ \A e : Count(Decrements(o, ss), e)
                  = Cardinality(Holding(o, ss, e))
  BY <1>2, <1>4, DecrementsFacts
<1>6. FreeFields(o) = Decrements(o, ss)
  BY DEF FreeFields, ss
<1>7. ASSUME NEW x \in Obj
      PROVE  Decs(FreeFields(o), x) = Cardinality(FieldsTo(slot[o], x))
  <2>1. Holding(o, ss, Pending("dec", x)) = {s \in ss : slot[o][s] = x}
    BY OpFacts DEF Holding
  <2> QED
    BY <1>3, <1>5, <1>6, <2>1 DEF Decs
<1>8. ASSUME NEW e, \A y : Pending("dec", y) # e
      PROVE  Count(FreeFields(o), e) = 0
  <2>1. Holding(o, ss, e) = {}
    BY <1>8 DEF Holding
  <2> QED
    BY <1>5, <1>6, <2>1, FS_EmptySet
<1> QED
  BY <1>5, <1>6, <1>7, <1>8, OpFacts DEF Frees, Trying

-----------------------------------------------------------------------------
(* References from fields *)

SlotSet == [Obj -> [Slots -> Obj \cup {Nil}]]

LEMMA FromFinite ==
  \A sl, w, x : IsFiniteSet(From(sl, w, x)) /\ In(sl, w, x) \in Nat
                /\ (In(sl, w, x) = 0 <=> From(sl, w, x) = {})
<1> SUFFICES ASSUME NEW sl, NEW w, NEW x
             PROVE  IsFiniteSet(From(sl, w, x)) /\ In(sl, w, x) \in Nat
                    /\ (In(sl, w, x) = 0 <=> From(sl, w, x) = {})
  OBVIOUS
<1>1. IsFiniteSet(Obj) /\ IsFiniteSet(Slots)
  <2>1. N \in Nat /\ 1 \in Int
    BY GcAssumption
  <2> QED
    BY <2>1, GcAssumption, FS_Interval DEF Obj
<1>2. IsFiniteSet(Obj \X Slots)
  BY <1>1, FS_Product
<1>3. From(sl, w, x) \in SUBSET (Obj \X Slots)
  BY DEF From
<1>4. IsFiniteSet(From(sl, w, x))
  BY <1>2, <1>3, FS_Subset
<1> QED
  BY <1>4, FS_CardinalityType, FS_EmptySet DEF In

LEMMA FieldsToFinite ==
  \A f, x : IsFiniteSet(FieldsTo(f, x)) /\ Cardinality(FieldsTo(f, x)) \in Nat
<1> SUFFICES ASSUME NEW f, NEW x
             PROVE  IsFiniteSet(FieldsTo(f, x)) /\ Cardinality(FieldsTo(f, x)) \in Nat
  OBVIOUS
<1>1. FieldsTo(f, x) \in SUBSET Slots
  BY DEF FieldsTo
<1> QED
  BY <1>1, GcAssumption, FS_Subset, FS_CardinalityType

LEMMA FromSame ==
  ASSUME NEW sl, NEW w, NEW sl2, NEW w2, NEW x,
         \A o \in Obj, s \in Slots :
           (sl[o][s] = x /\ Frees(w, o) = 0) <=> (sl2[o][s] = x /\ Frees(w2, o) = 0)
  PROVE  From(sl, w, x) = From(sl2, w2, x) /\ In(sl, w, x) = In(sl2, w2, x)
<1>1. From(sl, w, x) = From(sl2, w2, x)
  BY DEF From
<1> QED
  BY <1>1 DEF In

\* The references that the fields of o hold no longer count.
LEMMA FromCut ==
  ASSUME NEW sl, NEW w, NEW sl2, NEW w2, NEW x \in Obj, NEW o \in Obj,
         Frees(w, o) = 0,
         \A s \in Slots : ~(sl2[o][s] = x /\ Frees(w2, o) = 0),
         \A p \in Obj \ {o}, s \in Slots :
           (sl[p][s] = x /\ Frees(w, p) = 0) <=> (sl2[p][s] = x /\ Frees(w2, p) = 0)
  PROVE  In(sl, w, x) = In(sl2, w2, x) + Cardinality(FieldsTo(sl[o], x))
<1> DEFINE A == From(sl, w, x)
           B == From(sl2, w2, x)
           F == FieldsTo(sl[o], x)
           C == {p \in Obj \X Slots : p[1] = o /\ sl[o][p[2]] = x}
           f == [s \in F |-> <<o, s>>]
<1>1. A = B \cup C
  <2>1. \A p \in Obj, s \in Slots : <<p, s>> \in A <=> <<p, s>> \in B \/ <<p, s>> \in C
    <3> TAKE p \in Obj, s \in Slots
    <3>1. CASE p = o
      BY <3>1 DEF From
    <3>2. CASE p # o
      BY <3>2 DEF From
    <3> QED
      BY <3>1, <3>2
  <2>2. A \subseteq Obj \X Slots /\ B \subseteq Obj \X Slots /\ C \subseteq Obj \X Slots
    BY DEF From
  <2> HIDE DEF A, B, C
  <2> QED
    BY <2>1, <2>2
<1>2. B \cap C = {}
  BY DEF From
<1>3. f \in [F -> C]
  BY DEF FieldsTo
<1>4. \A s, t \in F : f[s] = f[t] => s = t
  OBVIOUS
<1>5. \A p \in C : \E s \in F : f[s] = p
  <2> TAKE p \in C
  <2>1. p[2] \in F /\ p = <<o, p[2]>>
    BY DEF FieldsTo
  <2> QED
    BY <2>1
<1>6. IsFiniteSet(F) /\ IsFiniteSet(A) /\ IsFiniteSet(B)
  BY FromFinite, FieldsToFinite
<1> HIDE DEF A, B, C, F, f
<1>7. IsFiniteSet(C) /\ Cardinality(C) = Cardinality(F)
  BY <1>3, <1>4, <1>5, <1>6, SameSize
<1>8. Cardinality(A) = Cardinality(B) + Cardinality(C) - Cardinality({})
  BY <1>1, <1>2, <1>6, <1>7, FS_Union
<1>9. Cardinality(B) \in Nat /\ Cardinality(C) \in Nat /\ Cardinality({}) = 0
  BY <1>6, <1>7, FS_CardinalityType, FS_EmptySet
<1>10. Cardinality(A) = Cardinality(B) + Cardinality(F)
  BY <1>7, <1>8, <1>9
<1> QED
  BY <1>10 DEF A, B, F, In

\* One field refers to another object.
LEMMA FromPut ==
  ASSUME NEW sl \in SlotSet, NEW w, NEW w2, NEW o \in Obj, NEW s \in Slots, NEW y \in Obj,
         NEW x \in Obj, Frees(w, o) = 0, \A p \in Obj : Frees(w2, p) = Frees(w, p)
  PROVE  In([sl EXCEPT ![o][s] = y], w2, x)
           = In(sl, w, x) + One(y = x) - One(sl[o][s] = x)
<1> DEFINE sl2 == [sl EXCEPT ![o][s] = y]
           A == From(sl, w, x)
           B == From(sl2, w2, x)
           q == <<o, s>>
<1>1. \A p \in Obj, t \in Slots :
        sl2[p][t] = IF p = o /\ t = s THEN y ELSE sl[p][t]
  BY DEF SlotSet
<1> HIDE DEF sl2
<1>2. A \ {q} = B \ {q}
  <2>1. \A p \in Obj, t \in Slots : <<p, t>> # q => (<<p, t>> \in A <=> <<p, t>> \in B)
    BY <1>1 DEF From
  <2>2. A \subseteq Obj \X Slots /\ B \subseteq Obj \X Slots
    BY DEF From
  <2> HIDE DEF A, B, q
  <2> QED
    BY <2>1, <2>2
<1>3. q \in A <=> sl[o][s] = x
  BY DEF From
<1>4. q \in B <=> y = x
  <2>1. sl2[o][s] = y
    BY <1>1
  <2> QED
    BY <2>1 DEF From
<1>5. IsFiniteSet(A) /\ IsFiniteSet(B) /\ Cardinality(A) \in Nat /\ Cardinality(B) \in Nat
  BY FromFinite DEF In
<1> HIDE DEF A, B, q
<1>6. Cardinality(A \ {q}) = IF q \in A THEN Cardinality(A) - 1 ELSE Cardinality(A)
  BY <1>5, FS_RemoveElement
<1>7. Cardinality(B \ {q}) = IF q \in B THEN Cardinality(B) - 1 ELSE Cardinality(B)
  BY <1>5, FS_RemoveElement
<1>8. Cardinality(B) = Cardinality(A) + One(y = x) - One(sl[o][s] = x)
  BY <1>2, <1>3, <1>4, <1>5, <1>6, <1>7 DEF One
<1> QED
  BY <1>8 DEF A, B, sl2, In

-----------------------------------------------------------------------------
(* What can be reached *)

\* Reach(S) is the least set that has S and what its members refer to.
LEMMA ReachFacts ==
  ASSUME TypeOK, NEW S \in SUBSET Obj
  PROVE  /\ Reach(S) \in SUBSET Obj /\ S \subseteq Reach(S) /\ Closed(Reach(S))
         /\ \A T \in SUBSET Obj : S \subseteq T /\ Closed(T) => Reach(S) \subseteq T
<1>1. Reach(S) \in SUBSET Obj /\ S \subseteq Reach(S)
  BY DEF Reach
<1>2. \A T \in SUBSET Obj : S \subseteq T /\ Closed(T) => Reach(S) \subseteq T
  BY DEF Reach
<1>3. Closed(Reach(S))
  <2> SUFFICES ASSUME NEW o \in Reach(S), NEW c \in Children(o) PROVE c \in Reach(S)
    BY DEF Closed
  <2>1. o \in Obj
    BY <1>1
  <2>2. c \in Obj
    BY <2>1 DEF TypeOK, Children
  <2>3. ASSUME NEW T \in SUBSET Obj, S \subseteq T, Closed(T) PROVE c \in T
    <3>1. o \in T
      BY <1>2, <2>3
    <3> QED
      BY <2>3, <3>1 DEF Closed
  <2> QED
    BY <2>2, <2>3 DEF Reach
<1> QED
  BY <1>1, <1>2, <1>3

-----------------------------------------------------------------------------
(* The inductive invariant *)

\* Outside the part of a collection that has subtracted them, the references from
\* fields are in a count; those that C code, roots and the profiler have, those a
\* throw has forgotten and the pending decrements always are.
Account(x) ==
  /\ refc[x] = (IF phase \in {"mark", "inc"} THEN 0 ELSE In(slot, work, x))
                 + Outside(held, prof, lost, roots, x) + Decs(work, x) + Trying(work, x)
  /\ kind[x] = "empty" => refc[x] = 0 /\ In(slot, work, x) = 0 /\ Frees(work, x) = 0
  /\ kind[x] # "obj" => slot[x] = NoSlots
  /\ Frees(work, x) =< 1
  /\ Frees(work, x) = 1 => refc[x] = 0 /\ kind[x] \in {"obj", "temp"}
  /\ Trying(work, x) > 0 => kind[x] = "freed"
  /\ kind[x] = "freed" =>
       phase \in {"try", "merge"} /\ x < cur /\ refc[x] >= 1 /\ x \notin marked

Accounts == \A x \in Obj : Account(x)

\* what the collection starts from
Trusted ==
  IF top THEN roots ELSE {x \in Obj : Outside(held, prof, lost, roots, x) > 0}

\* The marked objects are those that can be reached from S.
Marks(S) ==
  /\ S \subseteq marked /\ Closed(marked)
  /\ \A T \in SUBSET Obj : S \subseteq T /\ Closed(T) => marked \subseteq T

Marked == phase \in {"inc", "try", "merge"} \/ (phase = "roots" /\ ~top)

PhaseInv ==
  /\ phase \notin {"run", "try"} => work = << >>
  /\ phase \in {"dec", "mark", "inc"} => ~top
  /\ phase = "unmark" => top
  /\ phase = "mark" \/ (phase = "roots" /\ top) => marked = {}
  /\ Marked => Marks(Trusted)
  /\ phase # "run" /\ top => \A x \in Obj : held[x] = 0 /\ prof[x] = 0
  /\ phase \in {"try", "merge"} =>
       \A x \in Obj : x < cur /\ x \notin marked => kind[x] # "obj"
  /\ phase = "merge" => cur = N + 1
  /\ profiler = "off" => \A x \in Obj : prof[x] = 0

IInv == TypeOK /\ Accounts /\ PhaseInv

LEMMA Numbers ==
  ASSUME TypeOK, NEW x \in Obj
  PROVE  /\ work \in Seq(Op) /\ In(slot, work, x) \in Nat
         /\ Outside(held, prof, lost, roots, x) \in Nat
         /\ Decs(work, x) \in Nat /\ Trying(work, x) \in Nat /\ Frees(work, x) \in Nat
         /\ refc[x] \in Int
<1>1. work \in Seq(Op)
  BY DEF TypeOK, Op
<1>2. Decs(work, x) \in Nat /\ Trying(work, x) \in Nat /\ Frees(work, x) \in Nat
  BY <1>1, CountFacts DEF Decs, Trying, Frees
<1>3. held[x] \in Nat /\ prof[x] \in Nat /\ lost[x] \in Nat /\ refc[x] \in Int
  BY DEF TypeOK
<1>4. Outside(held, prof, lost, roots, x) \in Nat
  BY <1>3 DEF Outside, One
<1> QED
  BY <1>1, <1>2, <1>3, <1>4, FromFinite

LEMMA IdleFacts ==
  ASSUME work = << >>
  PROVE  \A x : Decs(work, x) = 0 /\ Trying(work, x) = 0 /\ Frees(work, x) = 0
BY CountNone DEF Decs, Trying, Frees

\* What a field refers to has a reference, so it is no empty block and no block that
\* waits for mm_free; so is what does not come from fields.
LEMMA LiveSet ==
  ASSUME IInv
  PROVE  LET L == {o \in Obj : kind[o] # "empty" /\ Frees(work, o) = 0}
         IN  /\ Closed(L) /\ Trusted \subseteq L /\ InUse \subseteq L
             /\ Marked => marked \subseteq L
<1> DEFINE L == {o \in Obj : kind[o] # "empty" /\ Frees(work, o) = 0}
<1> USE DEF IInv
<1>1. \A x \in Obj : Outside(held, prof, lost, roots, x) > 0 => x \in L
  <2> TAKE x \in Obj
  <2> HAVE Outside(held, prof, lost, roots, x) > 0
  <2>1. refc[x] > 0
    BY Numbers DEF Accounts, Account
  <2> QED
    BY <2>1, Numbers DEF Accounts, Account
<1>2. Trusted \subseteq L /\ InUse \subseteq L
  <2>1. \A x \in Obj : held[x] + prof[x] > 0 \/ x \in roots
                         => Outside(held, prof, lost, roots, x) > 0
    BY DEF TypeOK, Outside, One
  <2>2. roots \subseteq Obj
    BY DEF TypeOK
  <2> HIDE DEF L
  <2> QED
    BY <1>1, <2>1, <2>2 DEF Trusted, InUse
<1>3. Closed(L)
  <2> SUFFICES ASSUME NEW o \in L, NEW c \in Children(o) PROVE c \in L
    BY DEF Closed
  <2>1. PICK s \in Slots : slot[o][s] = c
    BY DEF Children
  <2>2. c \in Obj
    BY <2>1 DEF Children, TypeOK
  <2>3. <<o, s>> \in From(slot, work, c)
    BY <2>1 DEF From
  <2>4. In(slot, work, c) # 0
    BY <2>3, FromFinite
  <2>5. kind[c] # "empty"
    BY <2>2, <2>4 DEF Accounts, Account
  <2>6. Frees(work, c) = 0
    <3>1. CASE phase \in {"run", "try"}
      <4>1. /\ refc[c] = In(slot, work, c) + Outside(held, prof, lost, roots, c)
                           + Decs(work, c) + Trying(work, c)
            /\ Frees(work, c) =< 1 /\ (Frees(work, c) = 1 => refc[c] = 0)
        BY <2>2, <3>1 DEF Accounts, Account
      <4>2. /\ In(slot, work, c) \in Nat /\ Outside(held, prof, lost, roots, c) \in Nat
            /\ Decs(work, c) \in Nat /\ Trying(work, c) \in Nat /\ Frees(work, c) \in Nat
        BY <2>2, Numbers
      <4> QED
        BY <2>4, <4>1, <4>2
    <3>2. CASE phase \notin {"run", "try"}
      BY <3>2, IdleFacts DEF PhaseInv
    <3> QED
      BY <3>1, <3>2
  <2> QED
    BY <2>2, <2>5, <2>6
<1>4. L \in SUBSET Obj
  OBVIOUS
<1> HIDE DEF L
<1>5. Marked => marked \subseteq L
  BY <1>2, <1>3, <1>4 DEF PhaseInv, Marks
<1> QED
  BY <1>2, <1>3, <1>5 DEF L

LEMMA InitInv == Init => IInv
<1> SUFFICES ASSUME Init PROVE IInv
  OBVIOUS
<1>1. 1 \in 1 .. N + 1 /\ N \in Nat
  BY GcAssumption
<1>2. TypeOK
  <2>1. slot \in [Obj -> [Slots -> Obj \cup {Nil}]]
    BY DEF Init, NoSlots
  <2>2. kind \in [Obj -> Kinds] /\ refc \in [Obj -> Int] /\ held \in [Obj -> Nat]
        /\ prof \in [Obj -> Nat] /\ lost \in [Obj -> Nat]
    BY DEF Init, Kinds
  <2>3. work \in Seq([op : {"dec", "free", "tryFreed"}, obj : Obj])
    BY DEF Init
  <2>4. /\ marked \subseteq Obj /\ roots \subseteq Obj /\ profiler \in {"off", "on", "stopped", "read"}
        /\ phase \in Phases /\ cur \in 1 .. N + 1 /\ top \in BOOLEAN
    BY <1>1 DEF Init, Phases
  <2> QED
    BY <2>1, <2>2, <2>3, <2>4 DEF TypeOK
<1>3. Accounts
  <2> SUFFICES ASSUME NEW x \in Obj PROVE Account(x)
    BY DEF Accounts
  <2>1. \A p : p \notin From(slot, work, x)
    BY DEF From, Init, NoSlots, Obj, Nil
  <2>2. In(slot, work, x) = 0
    BY <2>1, FromFinite
  <2>3. Outside(held, prof, lost, roots, x) = 0
    BY DEF Init, Outside, One
  <2> QED
    BY <2>2, <2>3, IdleFacts DEF Init, Account
<1>4. PhaseInv
  BY DEF Init, PhaseInv, Marked
<1> QED
  BY <1>2, <1>3, <1>4 DEF IInv

-----------------------------------------------------------------------------
(* The program *)

\* A step of the program changes counts and the references outside of fields alike.
LEMMA RunStep ==
  ASSUME IInv, TypeOK', phase = "run", UNCHANGED <<slot, work, gcVars>>,
         \A x \in Obj : refc'[x] - refc[x] = Outside(held', prof', lost', roots', x)
                                               - Outside(held, prof, lost, roots, x),
         \A x \in Obj : kind'[x] = kind[x]
                        \/ (kind[x] = "empty" /\ kind'[x] \in {"obj", "temp"}),
         \A x \in Obj : kind'[x] = "empty" \/ Frees(work, x) = 1 => refc'[x] = refc[x],
         profiler' = "off" => \A x \in Obj : prof'[x] = 0
  PROVE  IInv'
<1>1. Accounts'
  <2> SUFFICES ASSUME NEW x \in Obj PROVE Account(x)'
    BY DEF Accounts
  <2> DEFINE i == In(slot, work, x)
             a == Outside(held, prof, lost, roots, x)
             b == Outside(held', prof', lost', roots', x)
             d == Decs(work, x)
             t == Trying(work, x)
             f == Frees(work, x)
  <2>1. i \in Nat /\ a \in Nat /\ d \in Nat /\ t \in Nat /\ f \in Nat /\ refc[x] \in Int
    BY Numbers DEF IInv
  <2>2. b \in Nat /\ refc'[x] \in Int
    BY DEF Outside, One, TypeOK
  <2>3. Account(x)
    BY DEF IInv, Accounts
  <2>4. kind[x] # "freed" /\ refc[x] = i + a + d + t
    BY <2>3 DEF Account
  <2>5. slot' = slot /\ work' = work /\ phase' = phase /\ refc'[x] - refc[x] = b - a
    BY DEF gcVars
  <2> HIDE DEF i, a, b, d, t, f
  <2>6. refc'[x] = i + b + d + t
    BY <2>1, <2>2, <2>4, <2>5
  <2>7. kind[x] = "empty" => refc[x] = 0 /\ i = 0 /\ f = 0 /\ t = 0
    BY <2>1, <2>3, <2>4 DEF Account, i, f
  <2>8. /\ kind[x] # "obj" => slot[x] = NoSlots
        /\ f =< 1 /\ (f = 1 => refc[x] = 0 /\ kind[x] \in {"obj", "temp"})
        /\ t > 0 => kind[x] = "freed"
    BY <2>3 DEF Account, t, f
  <2>9. CASE kind'[x] = kind[x]
    <3>1. kind[x] = "empty" => refc'[x] = 0
      BY <2>7, <2>9
    <3>2. f = 1 => refc'[x] = 0
      BY <2>8, f = 1 => refc'[x] = refc[x] DEF f
    <3> QED
      BY <2>4, <2>5, <2>6, <2>7, <2>8, <2>9, <3>1, <3>2 DEF Account, i, b, d, t, f
  <2>10. CASE kind[x] = "empty" /\ kind'[x] \in {"obj", "temp"}
    <3>1. f = 0 /\ t = 0 /\ slot[x] = NoSlots
      BY <2>7, <2>8, <2>10
    <3> QED
      BY <2>5, <2>6, <2>10, <3>1 DEF Account, i, b, d, t, f
  <2> QED
    BY <2>9, <2>10
<1>2. PhaseInv'
  BY DEF PhaseInv, Marked, gcVars
<1> QED
  BY <1>1, <1>2 DEF IInv

LEMMA NewInv ==
  ASSUME IInv, TypeOK', NEW o \in Obj, NEW k \in {"obj", "temp"}, New(o, k)
  PROVE  IInv'
<1>1. phase = "run" /\ work = << >> /\ kind[o] = "empty"
  BY DEF New, Idle
<1>2. refc[o] = 0 /\ Outside(held, prof, lost, roots, o) = 0
  <2>1. Account(o)
    BY DEF IInv, Accounts
  <2> QED
    BY <1>1, <2>1, Numbers DEF IInv, Account
<1>3. held[o] = 0
  BY <1>2 DEF IInv, TypeOK, Outside, One
<1>4. \A x \in Obj : refc'[x] - refc[x] = Outside(held', prof', lost', roots', x)
                                            - Outside(held, prof, lost, roots, x)
  <2> TAKE x \in Obj
  <2>1. CASE x = o
    BY <1>2, <1>3, <2>1 DEF New, Outside, One, IInv, TypeOK
  <2>2. CASE x # o
    BY <2>2 DEF New, Outside, One, IInv, TypeOK
  <2> QED
    BY <2>1, <2>2
<1>5. \A x \in Obj : kind'[x] = kind[x] \/ (kind[x] = "empty" /\ kind'[x] \in {"obj", "temp"})
  BY <1>1 DEF New, IInv, TypeOK
<1>6. \A x \in Obj : kind'[x] = "empty" \/ Frees(work, x) = 1 => refc'[x] = refc[x]
  BY <1>1, IdleFacts DEF New, IInv, TypeOK
<1>7. profiler' = "off" => \A x \in Obj : prof'[x] = 0
  BY DEF New, IInv, PhaseInv
<1> QED
  BY <1>1, <1>4, <1>5, <1>6, <1>7, RunStep DEF New

LEMMA IncInv ==
  ASSUME IInv, TypeOK', NEW x \in Obj, Idle, kind[x] # "empty", Inc(x),
         UNCHANGED <<kind, slot, marked, roots, profiler, prof, lost, work, gcVars>>
  PROVE  IInv'
<1>1. \A y \in Obj : refc'[y] - refc[y] = Outside(held', prof', lost', roots', y)
                                            - Outside(held, prof, lost, roots, y)
  <2> TAKE y \in Obj
  <2>1. held[y] \in Nat /\ prof[y] \in Nat /\ lost[y] \in Nat /\ refc[y] \in Int
        /\ One(y \in roots) \in {0, 1}
    BY DEF IInv, TypeOK, One
  <2>2. /\ held'[y] = IF x = y THEN held[y] + 1 ELSE held[y]
        /\ refc'[y] = IF x = y THEN refc[y] + 1 ELSE refc[y]
    BY DEF Inc, IInv, TypeOK
  <2>3. prof' = prof /\ lost' = lost /\ roots' = roots
    OBVIOUS
  <2> QED
    BY <2>1, <2>2, <2>3 DEF Outside, One
<1>2. \A y \in Obj : kind'[y] = "empty" \/ Frees(work, y) = 1 => refc'[y] = refc[y]
  BY IdleFacts DEF Idle, Inc, IInv, TypeOK
<1>3. profiler' = "off" => \A y \in Obj : prof'[y] = 0
  BY DEF IInv, PhaseInv
<1> QED
  BY <1>1, <1>2, <1>3, RunStep DEF Idle

LEMMA CopyInv == ASSUME IInv, TypeOK', NEW x \in Obj, Copy(x) PROVE IInv'
BY IncInv DEF Copy

LEMMA LoadInv == ASSUME IInv, TypeOK', NEW x \in Obj, Load(x) PROVE IInv'
<1>1. kind[x] # "empty"
  BY LiveSet DEF Load, InUse
<1> QED
  BY <1>1, IncInv DEF Load

LEMMA RootInv == ASSUME IInv, TypeOK', NEW x \in Obj, Root(x) PROVE IInv'
<1>1. \A y \in Obj : refc'[y] - refc[y] = Outside(held', prof', lost', roots', y)
                                            - Outside(held, prof, lost, roots, y)
  <2> TAKE y \in Obj
  <2>1. held[y] \in Nat /\ prof[y] \in Nat /\ lost[y] \in Nat /\ refc[y] \in Int
        /\ One(y \in roots) \in {0, 1}
    BY DEF IInv, TypeOK, One
  <2>2. /\ held'[y] = IF x = y THEN held[y] - 1 ELSE held[y]
        /\ y \in roots' <=> y \in roots \/ x = y
    BY DEF Root, IInv, TypeOK
  <2>3. prof' = prof /\ lost' = lost /\ refc' = refc /\ x \notin roots
    BY DEF Root, heapVars
  <2> QED
    BY <2>1, <2>2, <2>3 DEF Outside, One
<1>2. profiler' = "off" => \A y \in Obj : prof'[y] = 0
  BY DEF Root, IInv, PhaseInv
<1> QED
  BY <1>1, <1>2, RunStep DEF Root, Idle, heapVars

\* A throw loses references, and counts keep them.
LEMMA ForgetInv == ASSUME IInv, TypeOK', NEW S \in SUBSET Obj, Forget(S) PROVE IInv'
<1>1. \A y \in Obj : refc'[y] - refc[y] = Outside(held', prof', lost', roots', y)
                                            - Outside(held, prof, lost, roots, y)
  <2> TAKE y \in Obj
  <2>1. held[y] \in Nat /\ prof[y] \in Nat /\ lost[y] \in Nat /\ refc[y] \in Int
        /\ One(y \in roots) \in {0, 1}
    BY DEF IInv, TypeOK, One
  <2>2. /\ held'[y] = IF y \in S THEN 0 ELSE held[y]
        /\ lost'[y] = IF y \in S THEN lost[y] + held[y] ELSE lost[y]
    BY DEF Forget
  <2>3. prof' = prof /\ roots' = roots /\ refc' = refc
    BY DEF Forget, heapVars
  <2> QED
    BY <2>1, <2>2, <2>3 DEF Outside, One
<1>2. profiler' = "off" => \A y \in Obj : prof'[y] = 0
  BY DEF Forget, IInv, PhaseInv
<1> QED
  BY <1>1, <1>2, RunStep DEF Forget, Idle, heapVars

LEMMA ProfilerStartInv == ASSUME IInv, TypeOK', ProfilerStart PROVE IInv'
<1>1. \A y \in Obj : refc'[y] - refc[y] = Outside(held', prof', lost', roots', y)
                                            - Outside(held, prof, lost, roots, y)
  BY DEF ProfilerStart, heapVars, Outside, One, IInv, TypeOK
<1> QED
  BY <1>1, RunStep DEF ProfilerStart, Idle, heapVars

LEMMA SampleInv == ASSUME IInv, TypeOK', NEW x \in Obj, Sample(x) PROVE IInv'
<1> DEFINE S == roots \cup {o \in Obj : held[o] > 0}
           L == {o \in Obj : kind[o] # "empty" /\ Frees(work, o) = 0}
<1>1. x \in L
  <2>1. Closed(L) /\ InUse \subseteq L
    BY LiveSet
  <2>2. S \subseteq InUse
    <3>1. \A o \in Obj : held[o] \in Nat /\ prof[o] \in Nat
      BY DEF IInv, TypeOK
    <3>2. \A o \in Obj : held[o] > 0 => held[o] + prof[o] > 0
      BY ONLY <3>1
    <3> QED
      BY <3>2 DEF InUse
  <2>3. S \in SUBSET Obj /\ L \in SUBSET Obj /\ x \in Reach(S)
    BY DEF IInv, TypeOK, Sample
  <2> HIDE DEF S, L
  <2> QED
    BY <2>1, <2>2, <2>3, ReachFacts DEF IInv
<1>2. \A y \in Obj : refc'[y] - refc[y] = Outside(held', prof', lost', roots', y)
                                            - Outside(held, prof, lost, roots, y)
  <2> TAKE y \in Obj
  <2>1. held[y] \in Nat /\ prof[y] \in Nat /\ lost[y] \in Nat /\ refc[y] \in Int
        /\ One(y \in roots) \in {0, 1}
    BY DEF IInv, TypeOK, One
  <2>2. /\ prof'[y] = IF x = y THEN prof[y] + 1 ELSE prof[y]
        /\ refc'[y] = IF x = y THEN refc[y] + 1 ELSE refc[y]
    BY DEF Sample, IInv, TypeOK
  <2>3. held' = held /\ lost' = lost /\ roots' = roots
    BY DEF Sample
  <2> QED
    BY <2>1, <2>2, <2>3 DEF Outside, One
<1>3. \A y \in Obj : kind'[y] = "empty" \/ Frees(work, y) = 1 => refc'[y] = refc[y]
  BY <1>1 DEF Sample, IInv, TypeOK
<1>4. profiler' # "off"
  BY DEF Sample
<1> QED
  BY <1>2, <1>3, <1>4, RunStep DEF Sample

LEMMA ProfilerStopInv == ASSUME IInv, TypeOK', ProfilerStop PROVE IInv'
<1>1. \A y \in Obj : refc'[y] - refc[y] = Outside(held', prof', lost', roots', y)
                                            - Outside(held, prof, lost, roots, y)
  BY DEF ProfilerStop, heapVars, Outside, One, IInv, TypeOK
<1> QED
  BY <1>1, RunStep DEF ProfilerStop, Idle, heapVars

LEMMA ProfilerResultsInv ==
  ASSUME IInv, TypeOK', NEW S \in SUBSET Obj, ProfilerResults(S) PROVE IInv'
<1>1. \A y \in Obj : refc'[y] - refc[y] = Outside(held', prof', lost', roots', y)
                                            - Outside(held, prof, lost, roots, y)
  <2> TAKE y \in Obj
  <2>1. held[y] \in Nat /\ prof[y] \in Nat /\ lost[y] \in Nat /\ refc[y] \in Int
        /\ One(y \in roots) \in {0, 1}
    BY DEF IInv, TypeOK, One
  <2>2. /\ held'[y] = held[y] + One(y \in S) /\ One(y \in S) \in {0, 1}
        /\ prof'[y] = prof[y] - One(y \in S)
    BY DEF ProfilerResults, One
  <2>3. roots' = roots /\ lost' = lost /\ refc' = refc
    BY DEF ProfilerResults, heapVars
  <2> QED
    BY <2>1, <2>2, <2>3 DEF Outside
<1>2. profiler' # "off"
  BY DEF ProfilerResults
<1> QED
  BY <1>1, <1>2, RunStep DEF ProfilerResults, Idle, heapVars

LEMMA ProfilerFreeInv == ASSUME IInv, TypeOK', ProfilerFree PROVE IInv'
<1>1. \A y \in Obj : refc'[y] - refc[y] = Outside(held', prof', lost', roots', y)
                                            - Outside(held, prof, lost, roots, y)
  <2> TAKE y \in Obj
  <2>1. held[y] \in Nat /\ prof[y] \in Nat /\ lost[y] \in Nat /\ refc[y] \in Int
        /\ One(y \in roots) \in {0, 1}
    BY DEF IInv, TypeOK, One
  <2>2. lost'[y] = lost[y] + prof[y] /\ prof'[y] = 0
    BY DEF ProfilerFree
  <2>3. roots' = roots /\ held' = held /\ refc' = refc
    BY DEF ProfilerFree, heapVars
  <2> QED
    BY <2>1, <2>2, <2>3 DEF Outside
<1>2. \A y \in Obj : prof'[y] = 0
  BY DEF ProfilerFree
<1> QED
  BY <1>1, <1>2, RunStep DEF ProfilerFree, Idle, heapVars

\* The program gives up a reference: a decrement is pending instead.
LEMMA GiveUp ==
  ASSUME IInv, TypeOK', Idle, NEW y \in Obj, work' = <<Pending("dec", y)>>,
         UNCHANGED <<kind, slot, refc, profiler, prof, gcVars>>,
         \A x \in Obj : Outside(held, prof, lost, roots, x)
                          = Outside(held', prof', lost', roots', x) + One(x = y)
  PROVE  IInv'
<1>1. Accounts'
  <2> SUFFICES ASSUME NEW x \in Obj PROVE Account(x)'
    BY DEF Accounts
  <2>1. Account(x)
    BY DEF IInv, Accounts
  <2>2. Decs(work', x) = One(x = y) /\ Trying(work', x) = 0 /\ Frees(work', x) = 0
    BY CountOne, OpFacts DEF Decs, Trying, Frees, One
  <2>3. \A z \in Obj : Frees(work', z) = 0 /\ Frees(work, z) = 0
    BY CountOne, OpFacts, IdleFacts DEF Idle, Frees, One
  <2>4. In(slot', work', x) = In(slot, work, x)
    BY <2>3, FromSame
  <2>5. Decs(work, x) = 0 /\ Trying(work, x) = 0
    BY IdleFacts DEF Idle
  <2>6. One(x = y) \in {0, 1}
    BY DEF One
  <2>7. Outside(held', prof', lost', roots', x) \in Nat
    BY DEF Outside, One, TypeOK
  <2>8. /\ refc[x] = In(slot, work, x) + Outside(held, prof, lost, roots, x)
        /\ In(slot, work, x) \in Nat
    BY <2>1, <2>5, Numbers DEF Account, Idle, IInv
  <2>9. refc'[x] = In(slot', work', x) + Outside(held', prof', lost', roots', x)
                     + Decs(work', x) + Trying(work', x)
    BY <2>2, <2>4, <2>6, <2>7, <2>8
  <2> QED
    BY <2>1, <2>2, <2>4, <2>9 DEF Account, gcVars, Idle
<1>2. PhaseInv'
  BY DEF PhaseInv, Marked, gcVars, Idle, IInv
<1> QED
  BY <1>1, <1>2 DEF IInv

LEMMA DropInv == ASSUME IInv, TypeOK', NEW x \in Obj, Drop(x) PROVE IInv'
<1>1. \A y \in Obj : Outside(held, prof, lost, roots, y)
                       = Outside(held', prof', lost', roots', y) + One(y = x)
  <2> TAKE y \in Obj
  <2>1. prof'[y] = prof[y] /\ lost'[y] = lost[y] /\ held[y] \in Nat /\ prof[y] \in Nat
        /\ lost[y] \in Nat
    BY DEF Drop, IInv, TypeOK
  <2>2. held'[y] = held[y] - One(y = x) /\ roots' = roots
    <3>1. held'[y] = (IF y = x THEN held[y] - 1 ELSE held[y]) /\ roots' = roots
      BY DEF Drop, IInv, TypeOK
    <3> QED
      BY <2>1, <3>1 DEF One
  <2>3. One(y = x) \in {0, 1} /\ One(y \in roots) \in {0, 1}
    BY DEF One
  <2> QED
    BY <2>1, <2>2, <2>3 DEF Outside
<1> QED
  BY <1>1, GiveUp DEF Drop, heapVars

LEMMA UnrootInv == ASSUME IInv, TypeOK', NEW x \in Obj, Unroot(x) PROVE IInv'
<1>1. \A y \in Obj : Outside(held, prof, lost, roots, y)
                       = Outside(held', prof', lost', roots', y) + One(y = x)
  <2> TAKE y \in Obj
  <2>1. prof'[y] = prof[y] /\ lost'[y] = lost[y] /\ held[y] \in Nat /\ prof[y] \in Nat
        /\ lost[y] \in Nat
    BY DEF Unroot, IInv, TypeOK
  <2>2. held'[y] = held[y] /\ One(y \in roots') = One(y \in roots) - One(y = x)
    <3>1. (y \in roots' <=> y \in roots /\ y # x) /\ x \in roots /\ held' = held
      BY DEF Unroot
    <3> QED
      BY <3>1 DEF One
  <2>3. One(y = x) \in {0, 1} /\ One(y \in roots) \in {0, 1}
    BY DEF One
  <2> QED
    BY <2>1, <2>2, <2>3 DEF Outside
<1> QED
  BY <1>1, GiveUp DEF Unroot, heapVars

\* What a field refers to is exchanged: one reference comes from C code, one goes to
\* a pending decrement.
LEMMA StoreInv ==
  ASSUME IInv, TypeOK', NEW o \in Obj, NEW x \in Obj, NEW s \in Slots, Store(o, s, x)
  PROVE  IInv'
<1> DEFINE old == slot[o][s]
<1>1. /\ phase = "run" /\ work = << >> /\ kind[o] = "obj" /\ kind[x] = "obj"
      /\ old \in Obj \cup {Nil} /\ held[x] > 0
      /\ slot' = [slot EXCEPT ![o][s] = x] /\ slot \in SlotSet
      /\ kind' = kind /\ refc' = refc /\ phase' = phase /\ marked' = marked /\ cur' = cur
      /\ profiler' = profiler /\ prof' = prof
  BY DEF Store, Idle, IInv, TypeOK, SlotSet, gcVars
<1>2. \A z : Trying(work', z) = 0 /\ Frees(work', z) = 0
  <2> TAKE z
  <2>1. CASE old = Nil
    <3>1. work' = << >>
      BY <2>1 DEF Store
    <3> QED
      BY <3>1, CountNone DEF Trying, Frees
  <2>2. CASE old # Nil
    <3>1. work' = <<Pending("dec", old)>>
      BY <2>2 DEF Store
    <3> QED
      BY <3>1, CountOne, OpFacts DEF Trying, Frees, One
  <2> QED
    BY <2>1, <2>2
<1>3. \A z \in Obj : Decs(work', z) = One(old = z)
  <2> TAKE z \in Obj
  <2>1. CASE old = Nil
    <3>1. work' = << >> /\ old # z
      BY <2>1 DEF Store, Obj, Nil
    <3> QED
      BY <3>1, CountNone DEF Decs, One
  <2>2. CASE old # Nil
    <3>1. work' = <<Pending("dec", old)>>
      BY <2>2 DEF Store
    <3> QED
      BY <3>1, CountOne, OpFacts DEF Decs, One
  <2> QED
    BY <2>1, <2>2
<1>4. \A z : Decs(work, z) = 0 /\ Trying(work, z) = 0 /\ Frees(work, z) = 0
  BY <1>1, IdleFacts
<1>5. \A z \in Obj : In(slot', work', z) = In(slot, work, z) + One(x = z) - One(old = z)
  <2> TAKE z \in Obj
  <2>1. \A q \in Obj : Frees(work', q) = Frees(work, q)
    BY <1>2, <1>4
  <2>2. slot \in SlotSet /\ Frees(work, o) = 0
    BY <1>1, <1>4
  <2>3. In([slot EXCEPT ![o][s] = x], work', z)
          = In(slot, work, z) + One(x = z) - One(slot[o][s] = z)
    BY <2>1, <2>2, FromPut
  <2> QED
    BY <1>1, <2>3
<1>6. \A z \in Obj : Outside(held', prof', lost', roots', z)
                       = Outside(held, prof, lost, roots, z) - One(x = z)
  <2> TAKE z \in Obj
  <2>1. prof'[z] = prof[z] /\ lost'[z] = lost[z] /\ held[z] \in Nat /\ prof[z] \in Nat
        /\ lost[z] \in Nat /\ roots' = roots
    BY DEF Store, IInv, TypeOK
  <2>2. held'[z] = held[z] - One(x = z)
    <3>1. held'[z] = IF x = z THEN held[z] - 1 ELSE held[z]
      BY DEF Store, IInv, TypeOK
    <3> QED
      BY <2>1, <3>1 DEF One
  <2>3. One(x = z) \in {0, 1} /\ One(z \in roots) \in {0, 1}
    BY DEF One
  <2> QED
    BY <2>1, <2>2, <2>3 DEF Outside
<1> HIDE DEF old
<1>7. Accounts'
  <2> SUFFICES ASSUME NEW z \in Obj PROVE Account(z)'
    BY DEF Accounts
  <2> DEFINE i == In(slot, work, z)
             j == In(slot', work', z)
             a == Outside(held, prof, lost, roots, z)
             b == Outside(held', prof', lost', roots', z)
             c == One(x = z)
             d == One(old = z)
  <2>1. Account(z)
    BY DEF IInv, Accounts
  <2>2. i \in Nat /\ j \in Nat /\ a \in Nat /\ refc[z] \in Int
    BY Numbers, FromFinite DEF IInv
  <2>3. c \in {0, 1} /\ d \in {0, 1}
    BY DEF One
  <2>4. refc[z] = i + a /\ j = i + c - d /\ b = a - c
    <3>1. refc[z] = i + a + Decs(work, z) + Trying(work, z)
      BY <1>1, <2>1 DEF Account
    <3>2. Decs(work, z) = 0 /\ Trying(work, z) = 0
      BY <1>4
    <3>3. j = i + c - d /\ b = a - c
      BY <1>5, <1>6
    <3> HIDE DEF i, j, a, b, c, d
    <3> QED
      BY <2>2, <3>1, <3>2, <3>3
  <2>5. kind[z] = "empty" => refc[z] = 0 /\ i = 0 /\ c = 0
    BY <1>1, <2>1 DEF Account, One
  <2>6. kind[z] # "obj" => slot'[z] = NoSlots
    <3>1. kind[z] # "obj" => z # o /\ slot[z] = NoSlots
      BY <1>1, <2>1 DEF Account
    <3> QED
      BY <1>1, <3>1 DEF SlotSet
  <2>7. kind[z] # "freed"
    BY <1>1, <2>1 DEF Account
  <2> HIDE DEF i, j, a, b, c, d
  <2>8. refc[z] = j + b + d /\ (kind[z] = "empty" => refc[z] = 0 /\ j = 0)
    BY <2>2, <2>3, <2>4, <2>5
  <2> QED
    BY <1>1, <1>2, <1>3, <2>2, <2>3, <2>6, <2>7, <2>8 DEF Account, j, b, d
<1>8. PhaseInv'
  BY <1>1 DEF PhaseInv, Marked, IInv
<1> QED
  BY <1>7, <1>8 DEF IInv

-----------------------------------------------------------------------------
(* The parts of a collection *)

\* A collection goes on without a change to any count.
LEMMA Turn ==
  ASSUME IInv, TypeOK', work = << >>, UNCHANGED <<heapVars, refVars, work>>,
         phase \notin {"mark", "inc"}, phase' \notin {"mark", "inc"},
         \A x \in Obj : kind[x] = "freed" =>
           phase' \in {"try", "merge"} /\ x < cur' /\ x \notin marked'
  PROVE  Accounts'
<1> SUFFICES ASSUME NEW x \in Obj PROVE Account(x)'
  BY DEF Accounts
<1>1. Account(x)
  BY DEF IInv, Accounts
<1> QED
  BY <1>1 DEF Account, heapVars, refVars

LEMMA StartInv == ASSUME IInv, TypeOK', NEW t \in BOOLEAN, Start(t) PROVE IInv'
<1>1. /\ phase = "run" /\ work = << >> /\ phase' \in {"unmark", "dec"}
      /\ phase' = "unmark" <=> top'
      /\ top' => t /\ profiler = "off"
  BY DEF Start, Idle, AtTop
<1>2. \A x \in Obj : kind[x] # "freed"
  BY <1>1 DEF IInv, Accounts, Account
<1>3. Accounts'
  BY <1>1, <1>2, Turn DEF Start
<1>4. top' => \A x \in Obj : held'[x] = 0 /\ prof'[x] = 0
  BY <1>1 DEF Start, IInv, PhaseInv, refVars
<1>5. profiler' = "off" => \A x \in Obj : prof'[x] = 0
  BY DEF Start, IInv, PhaseInv, refVars
<1>6. work' = << >>
  BY <1>1 DEF Start
<1>7. PhaseInv'
  BY <1>1, <1>4, <1>5, <1>6 DEF PhaseInv, Marked
<1> QED
  BY <1>3, <1>7 DEF IInv

LEMMA IncomingFacts ==
  ASSUME work = << >>, NEW x \in Obj PROVE Incoming(x) = In(slot, work, x)
<1>1. \A p \in Obj \X Slots : Frees(work, p[1]) = 0
  BY IdleFacts
<1>2. {p \in Obj \X Slots : slot[p[1]][p[2]] = x} = From(slot, work, x)
  BY <1>1 DEF From
<1> QED
  BY <1>2 DEF Incoming, In

\* With all that fields hold subtracted, counts tell what is held otherwise.
LEMMA DecAllInv == ASSUME IInv, TypeOK', DecAll PROVE IInv'
<1>1. /\ phase = "dec" /\ phase' = "mark" /\ work = << >> /\ work' = << >> /\ ~top /\ ~top'
      /\ marked' = {} /\ slot' = slot /\ kind' = kind
      /\ held' = held /\ prof' = prof /\ lost' = lost /\ roots' = roots /\ profiler' = profiler
  BY DEF DecAll, IInv, PhaseInv, refVars
<1>2. Accounts'
  <2> SUFFICES ASSUME NEW x \in Obj PROVE Account(x)'
    BY DEF Accounts
  <2>1. Account(x)
    BY DEF IInv, Accounts
  <2>2. refc'[x] = refc[x] - In(slot, work, x)
    BY <1>1, IncomingFacts DEF DecAll
  <2>3. Decs(work, x) = 0 /\ Trying(work, x) = 0 /\ Frees(work, x) = 0
    BY <1>1, IdleFacts
  <2>4. refc[x] = In(slot, work, x) + Outside(held, prof, lost, roots, x)
        /\ In(slot, work, x) \in Nat /\ Outside(held, prof, lost, roots, x) \in Nat
    BY <1>1, <2>1, <2>3, Numbers DEF Account, IInv
  <2>5. refc'[x] = Outside(held, prof, lost, roots, x)
    BY <2>2, <2>4
  <2> QED
    BY <1>1, <2>1, <2>2, <2>3, <2>4, <2>5 DEF Account
<1>3. PhaseInv'
  BY <1>1 DEF IInv, PhaseInv, Marked
<1> QED
  BY <1>2, <1>3 DEF IInv

LEMMA MarksNow ==
  ASSUME TypeOK, slot' = slot, Trusted' = Trusted, Trusted \subseteq Obj,
         marked' = Reach(Trusted)
  PROVE  Marks(Trusted)'
<1>1. \A T : Closed(T)' <=> Closed(T)
  BY DEF Closed, Children
<1>2. /\ Trusted' \subseteq marked' /\ Closed(marked')
      /\ \A T \in SUBSET Obj : Trusted' \subseteq T /\ Closed(T) => marked' \subseteq T
  BY ReachFacts
<1>3. Closed(marked)' <=> Closed(marked')
  BY DEF Closed, Children
<1> QED
  BY <1>1, <1>2, <1>3 DEF Marks

LEMMA MarksStay ==
  ASSUME slot' = slot, Trusted' = Trusted, marked' = marked, Marks(Trusted)
  PROVE  Marks(Trusted)'
BY DEF Marks, Closed, Children

LEMMA TrustedStays ==
  ASSUME UNCHANGED <<refVars, top>> PROVE Trusted' = Trusted
BY DEF Trusted, refVars

LEMMA TrustedType == ASSUME TypeOK PROVE Trusted \in SUBSET Obj
BY DEF Trusted, TypeOK

LEMMA MarkHeldInv == ASSUME IInv, TypeOK', MarkHeld PROVE IInv'
<1>1. /\ phase = "mark" /\ phase' = "inc" /\ work = << >> /\ work' = << >> /\ ~top /\ ~top'
      /\ marked = {} /\ slot' = slot /\ kind' = kind /\ refc' = refc
      /\ held' = held /\ prof' = prof /\ lost' = lost /\ roots' = roots /\ profiler' = profiler
  BY DEF MarkHeld, heapVars, IInv, PhaseInv, refVars
<1>2. Accounts'
  <2> SUFFICES ASSUME NEW x \in Obj PROVE Account(x)'
    BY DEF Accounts
  <2>1. Account(x)
    BY DEF IInv, Accounts
  <2> QED
    BY <1>1, <2>1 DEF Account
<1>3. {o \in Blocks : HeldNow(o)} = Trusted
  <2>1. \A o \in Obj : refc[o] = Outside(held, prof, lost, roots, o)
    <3> TAKE o \in Obj
    <3>1. Account(o)
      BY DEF IInv, Accounts
    <3>2. Decs(work, o) = 0 /\ Trying(work, o) = 0
          /\ Outside(held, prof, lost, roots, o) \in Nat
      BY <1>1, IdleFacts, Numbers DEF IInv
    <3> QED
      BY <1>1, <3>1, <3>2 DEF Account
  <2>2. \A o \in Obj : kind[o] = "empty" => refc[o] = 0
    BY DEF IInv, Accounts, Account
  <2>3. \A o \in Obj : Outside(held, prof, lost, roots, o) \in Nat
    BY Numbers DEF IInv
  <2>4. \A o : o \in {b \in Blocks : HeldNow(b)} <=> o \in Obj /\ refc[o] # 0
    BY <2>2 DEF Blocks, HeldNow
  <2>5. \A o : o \in Trusted <=> o \in Obj /\ refc[o] # 0
    BY <1>1, <2>1, <2>3 DEF Trusted
  <2> QED
    BY <2>4, <2>5
<1>4. marked' = Reach(Trusted)
  BY <1>1, <1>3 DEF MarkHeld, Mark
<1>5. Marks(Trusted)'
  <2>1. Trusted' = Trusted
    BY TrustedStays DEF MarkHeld
  <2> QED
    BY <1>1, <1>4, <2>1, MarksNow, TrustedType DEF IInv
<1>6. PhaseInv'
  BY <1>1, <1>5 DEF IInv, PhaseInv, Marked
<1> QED
  BY <1>2, <1>6 DEF IInv

LEMMA IncAllInv == ASSUME IInv, TypeOK', IncAll PROVE IInv'
<1>1. /\ phase = "inc" /\ phase' = "roots" /\ work = << >> /\ work' = << >> /\ ~top /\ ~top'
      /\ marked' = marked /\ slot' = slot /\ kind' = kind
      /\ held' = held /\ prof' = prof /\ lost' = lost /\ roots' = roots /\ profiler' = profiler
  BY DEF IncAll, IInv, PhaseInv, refVars
<1>2. Accounts'
  <2> SUFFICES ASSUME NEW x \in Obj PROVE Account(x)'
    BY DEF Accounts
  <2>1. Account(x)
    BY DEF IInv, Accounts
  <2>2. refc'[x] = refc[x] + In(slot, work, x)
    BY <1>1, IncomingFacts DEF IncAll, Subtracted
  <2>3. Decs(work, x) = 0 /\ Trying(work, x) = 0 /\ Frees(work, x) = 0
    BY <1>1, IdleFacts
  <2>4. refc[x] = Outside(held, prof, lost, roots, x)
        /\ In(slot, work, x) \in Nat /\ Outside(held, prof, lost, roots, x) \in Nat
    BY <1>1, <2>1, <2>3, Numbers DEF Account, IInv
  <2>5. refc'[x] = In(slot, work, x) + Outside(held, prof, lost, roots, x)
    BY <2>2, <2>4
  <2>6. kind[x] # "freed"
    BY <1>1, <2>1 DEF Account
  <2> QED
    BY <1>1, <2>1, <2>2, <2>3, <2>4, <2>5, <2>6 DEF Account
<1>3. Marks(Trusted)'
  <2>1. Trusted' = Trusted
    BY TrustedStays DEF IncAll
  <2> QED
    BY <1>1, <2>1, MarksStay DEF IInv, PhaseInv, Marked
<1>4. PhaseInv'
  BY <1>1, <1>3 DEF IInv, PhaseInv, Marked
<1> QED
  BY <1>2, <1>4 DEF IInv

LEMMA UnmarkAllInv == ASSUME IInv, TypeOK', UnmarkAll PROVE IInv'
<1>1. /\ phase = "unmark" /\ phase' = "roots" /\ work = << >> /\ work' = << >> /\ top /\ top'
      /\ marked' = {}
      /\ held' = held /\ prof' = prof /\ profiler' = profiler
  BY DEF UnmarkAll, IInv, PhaseInv, refVars
<1>2. \A x \in Obj : kind[x] # "freed"
  BY <1>1 DEF IInv, Accounts, Account
<1>3. Accounts'
  BY <1>1, <1>2, Turn DEF UnmarkAll
<1>4. PhaseInv'
  BY <1>1 DEF IInv, PhaseInv, Marked
<1> QED
  BY <1>3, <1>4 DEF IInv

LEMMA MarkRootsInv == ASSUME IInv, TypeOK', MarkRoots PROVE IInv'
<1>1. /\ phase = "roots" /\ phase' = "try" /\ work = << >> /\ work' = << >> /\ top' = top
      /\ cur' = 1 /\ slot' = slot
      /\ held' = held /\ prof' = prof /\ profiler' = profiler
  BY DEF MarkRoots, heapVars, IInv, PhaseInv, refVars
<1>2. \A x \in Obj : kind[x] # "freed"
  BY <1>1 DEF IInv, Accounts, Account
<1>3. Accounts'
  BY <1>1, <1>2, Turn DEF MarkRoots
<1>4. Marks(Trusted)'
  <2>1. Trusted' = Trusted
    BY <1>1, TrustedStays DEF MarkRoots
  <2>2. CASE top
    <3>1. Trusted = roots /\ marked' = Reach(roots)
      BY <1>1, <2>2 DEF Trusted, MarkRoots, Mark, IInv, PhaseInv
    <3> QED
      BY <1>1, <2>1, <3>1, MarksNow, TrustedType DEF IInv
  <2>3. CASE ~top
    <3>1. Marks(Trusted)
      BY <1>1, <2>3 DEF IInv, PhaseInv, Marked
    <3>2. roots \subseteq Trusted
      <4> SUFFICES ASSUME NEW x \in roots PROVE x \in Trusted
        OBVIOUS
      <4>1. x \in Obj /\ held[x] \in Nat /\ prof[x] \in Nat /\ lost[x] \in Nat
        BY DEF IInv, TypeOK
      <4>2. Outside(held, prof, lost, roots, x) > 0
        BY <4>1 DEF Outside, One
      <4> QED
        BY <2>3, <4>1, <4>2 DEF Trusted
    <3>3. Reach(roots) \subseteq marked
      <4>1. roots \in SUBSET Obj /\ marked \in SUBSET Obj
        BY DEF IInv, TypeOK
      <4> QED
        BY <3>1, <3>2, <4>1, ReachFacts DEF IInv, Marks
    <3>4. marked' = marked
      BY <3>3 DEF MarkRoots, Mark
    <3> QED
      BY <1>1, <2>1, <3>1, <3>4, MarksStay
  <2> QED
    BY <2>2, <2>3
<1>5. PhaseInv'
  <2>1. \A x \in Obj : ~(x < cur')
    BY <1>1, GcAssumption DEF Obj
  <2> QED
    BY <1>1, <1>4, <2>1 DEF IInv, PhaseInv, Marked
<1> QED
  BY <1>3, <1>5 DEF IInv

LEMMA TriedAllInv == ASSUME IInv, TypeOK', TriedAll PROVE IInv'
<1>1. /\ phase = "try" /\ phase' = "merge" /\ work = << >> /\ work' = << >> /\ top' = top
      /\ cur' = cur /\ slot' = slot /\ marked' = marked /\ kind' = kind
      /\ held' = held /\ prof' = prof /\ profiler' = profiler
  BY DEF TriedAll, heapVars, IInv, PhaseInv, refVars
<1>2. \A x \in Obj : kind[x] = "freed" => x < cur /\ x \notin marked
  BY DEF IInv, Accounts, Account
<1>3. Accounts'
  BY <1>1, <1>2, Turn DEF TriedAll
<1>4. Marks(Trusted)'
  BY <1>1, MarksStay, TrustedStays DEF TriedAll, IInv, PhaseInv, Marked
<1>5. cur = N + 1
  BY GcAssumption DEF TriedAll, IInv, TypeOK
<1>6. PhaseInv'
  BY <1>1, <1>4, <1>5 DEF IInv, PhaseInv, Marked
<1> QED
  BY <1>3, <1>6 DEF IInv

\* A block freed in a collection has no reference left that counts: all that could
\* refer to it has been freed as well.
LEMMA MergeFacts ==
  ASSUME IInv, phase = "merge", NEW x \in Obj, kind[x] = "freed"
  PROVE  /\ In(slot, work, x) = 0 /\ held[x] = 0 /\ prof[x] = 0 /\ x \notin roots
         /\ ~top => lost[x] = 0
<1>1. x \notin marked
  BY DEF IInv, Accounts, Account
<1>2. Marks(Trusted)
  BY DEF IInv, PhaseInv, Marked
<1>3. \A p : p \notin From(slot, work, x)
  <2> SUFFICES ASSUME NEW o \in Obj, NEW s \in Slots, slot[o][s] = x PROVE FALSE
    BY DEF From
  <2>1. slot[o] # NoSlots
    BY DEF NoSlots, Obj, Nil
  <2>2. kind[o] = "obj"
    BY <2>1 DEF IInv, Accounts, Account
  <2>3. o < cur
    BY GcAssumption DEF IInv, PhaseInv, Obj
  <2>4. o \in marked
    BY <2>2, <2>3 DEF IInv, PhaseInv
  <2>5. x \in Children(o)
    BY DEF Children, Obj, Nil
  <2> QED
    BY <1>1, <1>2, <2>4, <2>5 DEF Marks, Closed
<1>4. In(slot, work, x) = 0
  BY <1>3, FromFinite
<1>5. x \notin Trusted
  BY <1>1, <1>2 DEF Marks
<1>6. held[x] \in Nat /\ prof[x] \in Nat /\ lost[x] \in Nat
  BY DEF IInv, TypeOK
<1>7. CASE top
  BY <1>4, <1>5, <1>7 DEF Trusted, IInv, PhaseInv
<1>8. CASE ~top
  <2>1. ~(Outside(held, prof, lost, roots, x) > 0)
    BY <1>5, <1>8 DEF Trusted
  <2>2. held[x] = 0 /\ prof[x] = 0 /\ lost[x] = 0 /\ One(x \in roots) = 0
    BY <1>6, <2>1 DEF Outside, One
  <2> QED
    BY <1>4, <2>2 DEF One
<1> QED
  BY <1>7, <1>8

LEMMA MergeInv == ASSUME IInv, TypeOK', Merge PROVE IInv'
<1>1. /\ phase = "merge" /\ phase' = "run" /\ work = << >> /\ work' = << >> /\ slot' = slot
      /\ held' = held /\ prof' = prof /\ roots' = roots /\ profiler' = profiler
  BY DEF Merge, IInv, PhaseInv
<1>2. Accounts'
  <2> SUFFICES ASSUME NEW x \in Obj PROVE Account(x)'
    BY DEF Accounts
  <2>1. Account(x)
    BY DEF IInv, Accounts
  <2>2. Decs(work, x) = 0 /\ Trying(work, x) = 0 /\ Frees(work, x) = 0
    BY <1>1, IdleFacts
  <2>3. CASE kind[x] = "freed"
    <3>1. In(slot, work, x) = 0 /\ held[x] = 0 /\ prof[x] = 0 /\ x \notin roots
      BY <1>1, <2>3, MergeFacts
    <3>2. kind'[x] = "empty" /\ refc'[x] = 0 /\ lost'[x] = 0
      BY <2>3 DEF Merge
    <3>3. Outside(held', prof', lost', roots', x) = 0
      BY <1>1, <3>1, <3>2 DEF Outside, One
    <3> QED
      BY <1>1, <2>1, <2>2, <2>3, <3>1, <3>2, <3>3 DEF Account
  <2>4. CASE kind[x] # "freed"
    <3>1. kind'[x] = kind[x] /\ refc'[x] = refc[x] /\ lost'[x] = lost[x]
      BY <2>4 DEF Merge
    <3>2. Outside(held', prof', lost', roots', x) = Outside(held, prof, lost, roots, x)
      BY <1>1, <3>1 DEF Outside
    <3> QED
      BY <1>1, <2>1, <2>2, <2>4, <3>1, <3>2 DEF Account
  <2> QED
    BY <2>3, <2>4
<1>3. PhaseInv'
  BY <1>1 DEF IInv, PhaseInv, Marked
<1> QED
  BY <1>2, <1>3 DEF IInv

-----------------------------------------------------------------------------
(* Frees *)

\* What is not marked may lose its fields.
LEMMA MarksCut ==
  ASSUME Marks(Trusted), Trusted' = Trusted, marked' = marked, marked \subseteq Obj,
         \A x \in marked : slot'[x] = slot[x]
  PROVE  Marks(Trusted)'
<1>1. \A x \in marked : Children(x)' = Children(x)
  BY DEF Children
<1>2. Trusted' \subseteq marked' /\ Closed(marked)'
  <2>1. \A x \in marked : Children(x)' \subseteq marked
    BY <1>1 DEF Marks, Closed
  <2> QED
    BY <2>1 DEF Marks, Closed
<1>3. ASSUME NEW T \in SUBSET Obj, Trusted' \subseteq T, Closed(T)'
      PROVE  marked' \subseteq T
  <2> DEFINE U == T \cap marked
  <2>1. Closed(U)
    <3> SUFFICES ASSUME NEW o \in U, NEW c \in Children(o) PROVE c \in U
      BY DEF Closed
    <3>1. c \in marked
      BY DEF Marks, Closed
    <3>2. Children(o)' \subseteq T
      BY <1>3 DEF Closed
    <3> QED
      BY <1>1, <3>1, <3>2
  <2>2. Trusted \subseteq U /\ U \in SUBSET Obj
    BY <1>3 DEF Marks
  <2> HIDE DEF U
  <2>3. marked \subseteq U
    BY <2>1, <2>2 DEF Marks
  <2> QED
    BY <2>3 DEF U
<1> QED
  BY <1>2, <1>3 DEF Marks

LEMMA KeepPhase ==
  ASSUME IInv, phase \in {"run", "try"},
         UNCHANGED <<marked, roots, held, profiler, prof, lost, phase, top>>,
         \A x \in Obj : kind'[x] = kind[x] \/ kind'[x] # "obj",
         phase = "try" => \A x \in marked : slot'[x] = slot[x],
         cur' = cur \/ (cur \in Obj /\ cur' = cur + 1 /\ (cur \in marked \/ kind'[cur] # "obj"))
  PROVE  PhaseInv'
<1>1. phase = "try" => Marks(Trusted)'
  <2> SUFFICES ASSUME phase = "try" PROVE Marks(Trusted)'
    OBVIOUS
  <2>1. Trusted' = Trusted
    BY TrustedStays DEF refVars
  <2>2. Marks(Trusted)
    BY DEF IInv, PhaseInv, Marked
  <2> QED
    BY <2>1, <2>2, MarksCut DEF IInv, TypeOK
<1>2. phase = "try" => \A x \in Obj : x < cur' /\ x \notin marked' => kind'[x] # "obj"
  <2> SUFFICES ASSUME phase = "try", NEW x \in Obj, x < cur', x \notin marked
               PROVE  kind'[x] # "obj"
    OBVIOUS
  <2>1. x < cur \/ (x = cur /\ kind'[cur] # "obj")
    <3>1. x \in Int /\ cur \in Int
      BY GcAssumption DEF IInv, TypeOK, Obj
    <3>2. cur' = cur + 1 => x < cur \/ x = cur
      BY <3>1
    <3> QED
      BY <3>2
  <2>2. x < cur => kind[x] # "obj"
    BY DEF IInv, PhaseInv
  <2> QED
    BY <2>1, <2>2
<1> QED
  BY <1>1, <1>2 DEF IInv, PhaseInv, Marked

\* The first entry of the work is left out.
LEMMA HeadFacts ==
  ASSUME TypeOK, work # << >>
  PROVE  /\ Head(work).obj \in Obj /\ Tail(work) \in Seq(Op)
         /\ Head(work) = Pending(Head(work).op, Head(work).obj)
         /\ \A x : /\ Decs(work, x) = One(Head(work) = Pending("dec", x)) + Decs(Tail(work), x)
                   /\ Frees(work, x) = One(Head(work) = Pending("free", x)) + Frees(Tail(work), x)
                   /\ Trying(work, x)
                        = One(Head(work) = Pending("tryFreed", x)) + Trying(Tail(work), x)
                   /\ Decs(Tail(work), x) \in Nat /\ Frees(Tail(work), x) \in Nat
                   /\ Trying(Tail(work), x) \in Nat
<1>1. work \in Seq(Op)
  BY DEF TypeOK, Op
<1>2. Head(work) \in Op /\ Tail(work) \in Seq(Op)
  BY <1>1, HeadTailProperties
<1>3. \A e : Count(work, e) = One(Head(work) = e) + Count(Tail(work), e)
             /\ Count(Tail(work), e) \in Nat
  BY <1>1, <1>2, CountTail, CountFacts
<1> QED
  BY <1>2, <1>3, OpFacts DEF Decs, Frees, Trying

\* A decrement, by ptr_dec or at the end of gc_tryFree, is what Head(work) says.
Decrement(o) == Head(work) = Pending("dec", o) \/ Head(work) = Pending("tryFreed", o)

LEMMA DecrementFacts ==
  ASSUME IInv, work # << >>, NEW o \in Obj, Decrement(o)
  PROVE  /\ phase \in {"run", "try"}
         /\ \A x : /\ Decs(work, x) + Trying(work, x)
                        = One(x = o) + Decs(Tail(work), x) + Trying(Tail(work), x)
                   /\ Frees(work, x) = Frees(Tail(work), x)
                   /\ Trying(Tail(work), x) =< Trying(work, x)
                   /\ Decs(Tail(work), x) \in Nat /\ Trying(Tail(work), x) \in Nat
         /\ refc[o] >= 1 /\ kind[o] # "empty" /\ Frees(work, o) = 0
         /\ refc[o] = 1 => /\ In(slot, work, o) = 0
                           /\ Outside(held, prof, lost, roots, o) = 0
                           /\ Decs(Tail(work), o) = 0 /\ Trying(Tail(work), o) = 0
<1>1. phase \in {"run", "try"}
  BY DEF IInv, PhaseInv
<1>2. \A x : /\ Decs(work, x) + Trying(work, x)
                  = One(x = o) + Decs(Tail(work), x) + Trying(Tail(work), x)
             /\ Frees(work, x) = Frees(Tail(work), x)
             /\ Trying(Tail(work), x) =< Trying(work, x)
             /\ Decs(Tail(work), x) \in Nat /\ Trying(Tail(work), x) \in Nat
  <2> TAKE x
  <2>1. /\ Decs(work, x) = One(Head(work) = Pending("dec", x)) + Decs(Tail(work), x)
        /\ Frees(work, x) = One(Head(work) = Pending("free", x)) + Frees(Tail(work), x)
        /\ Trying(work, x) = One(Head(work) = Pending("tryFreed", x)) + Trying(Tail(work), x)
        /\ Decs(Tail(work), x) \in Nat /\ Frees(Tail(work), x) \in Nat
        /\ Trying(Tail(work), x) \in Nat
    BY HeadFacts DEF IInv
  <2>2. Head(work) # Pending("free", x)
    BY OpFacts DEF Decrement
  <2>3. CASE Head(work) = Pending("dec", o)
    <3>1. (Head(work) = Pending("dec", x) <=> x = o) /\ Head(work) # Pending("tryFreed", x)
      BY <2>3 DEF Pending
    <3> QED
      BY <2>1, <2>2, <3>1 DEF One
  <2>4. CASE Head(work) = Pending("tryFreed", o)
    <3>1. (Head(work) = Pending("tryFreed", x) <=> x = o) /\ Head(work) # Pending("dec", x)
      BY <2>4 DEF Pending
    <3> QED
      BY <2>1, <2>2, <3>1 DEF One
  <2> QED
    BY <2>3, <2>4 DEF Decrement
<1>3. /\ refc[o] = In(slot, work, o) + Outside(held, prof, lost, roots, o)
                     + Decs(work, o) + Trying(work, o)
      /\ kind[o] = "empty" => refc[o] = 0
      /\ Frees(work, o) =< 1 /\ (Frees(work, o) = 1 => refc[o] = 0)
  BY <1>1 DEF IInv, Accounts, Account
<1>4. /\ In(slot, work, o) \in Nat /\ Outside(held, prof, lost, roots, o) \in Nat
      /\ Decs(work, o) \in Nat /\ Trying(work, o) \in Nat /\ Frees(work, o) \in Nat
  BY Numbers DEF IInv
<1>5. /\ Decs(work, o) + Trying(work, o) = 1 + Decs(Tail(work), o) + Trying(Tail(work), o)
      /\ Decs(Tail(work), o) \in Nat /\ Trying(Tail(work), o) \in Nat
  BY <1>2 DEF One
<1>6. refc[o] >= 1 /\ kind[o] # "empty" /\ Frees(work, o) = 0
  BY <1>3, <1>4, <1>5
<1>7. refc[o] = 1 => /\ In(slot, work, o) = 0
                     /\ Outside(held, prof, lost, roots, o) = 0
                     /\ Decs(Tail(work), o) = 0 /\ Trying(Tail(work), o) = 0
  BY <1>3, <1>4, <1>5
<1> QED
  BY <1>1, <1>2, <1>6, <1>7

\* A count that does not reach zero only goes down.
LEMMA OneLess ==
  ASSUME IInv, TypeOK', work # << >>, NEW o \in Obj, Decrement(o), refc[o] # 1,
         refc' = [refc EXCEPT ![o] = @ - 1], work' = Tail(work),
         UNCHANGED <<kind, slot, marked, refVars, gcVars>>
  PROVE  IInv'
<1>1. Accounts'
  <2> SUFFICES ASSUME NEW x \in Obj PROVE Account(x)'
    BY DEF Accounts
  <2> DEFINE i == In(slot, work, x)
             a == Outside(held, prof, lost, roots, x)
             d == Decs(work, x)
             t == Trying(work, x)
             d2 == Decs(work', x)
             t2 == Trying(work', x)
  <2>1. Account(x)
    BY DEF IInv, Accounts
  <2>2. /\ phase \in {"run", "try"} /\ d + t = One(x = o) + d2 + t2
        /\ t2 =< t /\ d2 \in Nat /\ t2 \in Nat
        /\ x = o => refc[x] >= 1 /\ kind[x] # "empty" /\ Frees(work, x) = 0
    BY DecrementFacts
  <2>3. \A z : Frees(work', z) = Frees(work, z)
    BY DecrementFacts
  <2>4. In(slot', work', x) = i
    <3>1. \A p \in Obj, s \in Slots :
            (slot[p][s] = x /\ Frees(work, p) = 0) <=> (slot'[p][s] = x /\ Frees(work', p) = 0)
      BY <2>3
    <3>2. From(slot', work', x) = From(slot, work, x)
      BY <3>1 DEF From
    <3> QED
      BY <3>2 DEF In
  <2>5. refc'[x] = refc[x] - One(x = o) /\ One(x = o) \in {0, 1} /\ (One(x = o) = 1 <=> x = o)
    <3>1. refc'[x] = (IF x = o THEN refc[x] - 1 ELSE refc[x]) /\ refc[x] \in Int
      BY DEF IInv, TypeOK
    <3> QED
      BY <3>1 DEF One
  <2>6. i \in Nat /\ a \in Nat /\ d \in Nat /\ t \in Nat /\ refc[x] \in Int
    BY Numbers DEF IInv
  <2>7. refc[x] = i + a + d + t /\ (kind[x] = "freed" => refc[x] >= 1)
        /\ (t > 0 => kind[x] = "freed")
    BY <2>1, <2>2 DEF Account
  <2> HIDE DEF i, a, d, t, d2, t2
  <2>8. refc'[x] = i + a + d2 + t2
    BY ONLY <2>2, <2>5, <2>6, <2>7
  <2>9. /\ kind[x] = "freed" => refc'[x] >= 1
        /\ t2 > 0 => kind[x] = "freed"
    BY <2>2, <2>5, <2>6, <2>7
  <2>10. (kind[x] = "empty" \/ Frees(work, x) = 1) => refc'[x] = refc[x]
    BY <2>2, <2>5, <2>6
  <2> QED
    BY <2>1, <2>2, <2>3, <2>4, <2>8, <2>9, <2>10 DEF Account, refVars, gcVars, i, a, d2, t2
<1>2. PhaseInv'
  <2>1. phase \in {"run", "try"}
    BY DecrementFacts
  <2> QED
    BY <2>1, KeepPhase DEF refVars, gcVars
<1> QED
  BY <1>1, <1>2 DEF IInv

\* The last reference to a t_freed block goes: the block is empty.
LEMMA LastOne ==
  ASSUME IInv, TypeOK', work # << >>, NEW o \in Obj, Decrement(o), refc[o] = 1,
         kind[o] = "freed", Emptied(o),
         refc' = [refc EXCEPT ![o] = @ - 1], work' = Tail(work),
         UNCHANGED <<marked, roots, held, profiler, prof, gcVars>>
  PROVE  IInv'
<1>1. /\ phase \in {"run", "try"} /\ In(slot, work, o) = 0
      /\ Outside(held, prof, lost, roots, o) = 0
      /\ Decs(work', o) = 0 /\ Trying(work', o) = 0 /\ Frees(work', o) = 0
  BY DecrementFacts
<1>2. slot[o] = NoSlots
  BY DEF IInv, Accounts, Account
<1>3. slot' = slot
  BY <1>2 DEF Emptied, IInv, TypeOK
<1>4. lost' = lost
  <2>1. lost[o] = 0
    <3>1. held[o] \in Nat /\ prof[o] \in Nat /\ lost[o] \in Nat /\ One(o \in roots) \in Nat
      BY DEF IInv, TypeOK, One
    <3>2. Outside(held, prof, lost, roots, o) = 0
      BY <1>1
    <3> QED
      BY ONLY <3>1, <3>2 DEF Outside
  <2> QED
    BY <2>1 DEF Emptied, IInv, TypeOK
<1>5. \A x \in Obj : kind'[x] = IF x = o THEN "empty" ELSE kind[x]
  BY DEF Emptied, IInv, TypeOK
<1>6. Accounts'
  <2> SUFFICES ASSUME NEW x \in Obj PROVE Account(x)'
    BY DEF Accounts
  <2>1. Account(x)
    BY DEF IInv, Accounts
  <2>2. \A z : Frees(work', z) = Frees(work, z)
    BY DecrementFacts
  <2>3. In(slot', work', x) = In(slot, work, x)
    <3>1. \A p \in Obj, s \in Slots :
            (slot[p][s] = x /\ Frees(work, p) = 0) <=> (slot'[p][s] = x /\ Frees(work', p) = 0)
      BY <1>3, <2>2
    <3>2. From(slot', work', x) = From(slot, work, x)
      BY <3>1 DEF From
    <3> QED
      BY <3>2 DEF In
  <2>4. CASE x = o
    <3>1. refc'[o] = 0
      BY DEF IInv, TypeOK
    <3>2. In(slot', work', o) = 0 /\ Outside(held', prof', lost', roots', o) = 0
      BY <1>1, <1>4, <2>3, <2>4
    <3> QED
      BY <1>1, <1>2, <1>3, <1>5, <2>4, <3>1, <3>2 DEF Account, gcVars
  <2>5. CASE x # o
    <3>1. refc'[x] = refc[x] /\ kind'[x] = kind[x]
      BY <1>5, <2>5 DEF IInv, TypeOK
    <3>2. Decs(work, x) + Trying(work, x) = Decs(work', x) + Trying(work', x)
          /\ Trying(work', x) =< Trying(work, x)
          /\ Decs(work', x) \in Nat /\ Trying(work', x) \in Nat
      BY <2>5, DecrementFacts DEF One
    <3>3. /\ In(slot, work, x) \in Nat /\ Outside(held, prof, lost, roots, x) \in Nat
          /\ Decs(work, x) \in Nat /\ Trying(work, x) \in Nat
      BY Numbers DEF IInv
    <3>4. refc[x] = In(slot, work, x) + Outside(held, prof, lost, roots, x)
                      + Decs(work, x) + Trying(work, x)
          /\ (Trying(work, x) > 0 => kind[x] = "freed")
      BY <1>1, <2>1 DEF Account
    <3>5. refc[x] = In(slot, work, x) + Outside(held, prof, lost, roots, x)
                      + Decs(work', x) + Trying(work', x)
          /\ (Trying(work', x) > 0 => kind[x] = "freed")
      BY ONLY <3>2, <3>3, <3>4
    <3> QED
      BY <1>1, <1>3, <1>4, <2>1, <2>2, <2>3, <3>1, <3>5 DEF Account, gcVars
  <2> QED
    BY <2>4, <2>5
<1>7. PhaseInv'
  BY <1>1, <1>3, <1>4, <1>5, KeepPhase DEF gcVars
<1> QED
  BY <1>6, <1>7 DEF IInv

LEMMA TryFreedInv == ASSUME IInv, TypeOK', TryFreed PROVE IInv'
<1> DEFINE o == Head(work).obj
<1>1. /\ work # << >> /\ Head(work).op = "tryFreed" /\ work' = Tail(work)
      /\ refc' = [refc EXCEPT ![o] = @ - 1]
      /\ IF refc[o] = 1 THEN Emptied(o) ELSE UNCHANGED <<kind, slot, lost>>
      /\ UNCHANGED <<marked, roots, held, profiler, prof, gcVars>>
  BY DEF TryFreed
<1>2. o \in Obj /\ Head(work) = Pending("tryFreed", o)
  BY <1>1, HeadFacts DEF IInv
<1> HIDE DEF o
<1>3. Decrement(o)
  BY <1>2 DEF Decrement
<1>4. kind[o] = "freed"
  <2>1. Trying(work, o) = 1 + Trying(Tail(work), o) /\ Trying(Tail(work), o) \in Nat
    BY <1>1, <1>2, HeadFacts DEF IInv, One
  <2> QED
    BY <1>2, <2>1 DEF IInv, Accounts, Account
<1>5. CASE refc[o] = 1
  BY <1>1, <1>2, <1>3, <1>4, <1>5, LastOne
<1>6. CASE refc[o] # 1
  BY <1>1, <1>2, <1>3, <1>6, OneLess DEF refVars
<1> QED
  BY <1>5, <1>6

\* A count has reached zero in value_free: the fields are decremented, then the block
\* is given back.
LEMMA FreeO ==
  ASSUME IInv, TypeOK', work # << >>, NEW o \in Obj, Head(work) = Pending("dec", o),
         refc[o] = 1, kind[o] # "freed", refc' = [refc EXCEPT ![o] = @ - 1],
         work' = FreeFields(o) \o <<Pending("free", o)>> \o Tail(work),
         UNCHANGED <<kind, slot, marked, refVars, gcVars>>
  PROVE  IInv'
<1> DEFINE F == FreeFields(o)
           D == <<Pending("free", o)>>
           W == Tail(work)
<1>1. Decrement(o)
  BY DEF Decrement
<1>2. /\ phase \in {"run", "try"} /\ kind[o] # "empty" /\ Frees(work, o) = 0
  BY <1>1, DecrementFacts
<1>3. F \in Seq(Op) /\ D \in Seq(Op) /\ W \in Seq(Op)
  BY FreeFieldsFacts, HeadFacts, OpFacts DEF IInv
<1>4. \A e : Count(work', e) = Count(F, e) + One(Pending("free", o) = e) + Count(W, e)
  <2> TAKE e
  <2> DEFINE DW == D \o W
  <2>1. work' = F \o DW
    BY <1>3
  <2>2. Count(D, e) = One(Pending("free", o) = e)
    BY CountOne
  <2> HIDE DEF F, D, W
  <2>3. DW \in Seq(Op) /\ Count(DW, e) = Count(D, e) + Count(W, e)
    BY <1>3, CountConcat
  <2> HIDE DEF DW
  <2>4. Count(F \o DW, e) = Count(F, e) + Count(DW, e)
    BY <1>3, <2>3, CountConcat
  <2>5. Count(F, e) \in Nat /\ Count(D, e) \in Nat /\ Count(W, e) \in Nat
    BY <1>3, CountFacts
  <2> QED
    BY ONLY <2>1, <2>2, <2>3, <2>4, <2>5
<1>5. ASSUME NEW x \in Obj
      PROVE  /\ Decs(work', x) = Cardinality(FieldsTo(slot[o], x)) + Decs(W, x)
             /\ Frees(work', x) = One(x = o) + Frees(W, x)
             /\ Trying(work', x) = Trying(W, x)
             /\ Decs(W, x) \in Nat /\ Frees(W, x) \in Nat /\ Trying(W, x) \in Nat
  <2>1. Decs(F, x) = Cardinality(FieldsTo(slot[o], x)) /\ Frees(F, x) = 0 /\ Trying(F, x) = 0
    BY FreeFieldsFacts DEF IInv
  <2>2. /\ One(Pending("free", o) = Pending("dec", x)) = 0
        /\ One(Pending("free", o) = Pending("tryFreed", x)) = 0
        /\ One(Pending("free", o) = Pending("free", x)) = One(x = o)
    BY DEF One, Pending
  <2>3. Decs(W, x) \in Nat /\ Frees(W, x) \in Nat /\ Trying(W, x) \in Nat
    BY <1>3, CountFacts DEF Decs, Frees, Trying
  <2>4. Cardinality(FieldsTo(slot[o], x)) \in Nat /\ One(x = o) \in Nat
    BY FieldsToFinite DEF One
  <2> HIDE DEF F, W
  <2> QED
    BY <1>4, <2>1, <2>2, <2>3, <2>4 DEF Decs, Frees, Trying
<1>6. \A x : /\ Decs(work, x) = One(x = o) + Decs(W, x)
             /\ Frees(work, x) = Frees(W, x) /\ Trying(work, x) = Trying(W, x)
  <2> TAKE x
  <2>1. /\ (Head(work) = Pending("dec", x) <=> x = o)
        /\ Head(work) # Pending("free", x) /\ Head(work) # Pending("tryFreed", x)
    BY DEF Pending
  <2> QED
    BY <2>1, HeadFacts DEF IInv, One
<1> HIDE DEF F, D, W
<1>7. ASSUME NEW x \in Obj
      PROVE  In(slot, work, x) = In(slot', work', x) + Cardinality(FieldsTo(slot[o], x))
  <2>1. Frees(work', o) # 0
    BY <1>5 DEF One
  <2>2. \A p \in Obj \ {o} : Frees(work', p) = Frees(work, p)
    BY <1>5, <1>6 DEF One
  <2>3. /\ \A s \in Slots : ~(slot'[o][s] = x /\ Frees(work', o) = 0)
        /\ \A p \in Obj \ {o}, s \in Slots :
             (slot[p][s] = x /\ Frees(work, p) = 0) <=> (slot'[p][s] = x /\ Frees(work', p) = 0)
    BY <2>1, <2>2
  <2> DEFINE sl2 == slot'
             w2 == work'
  <2>4. /\ \A s \in Slots : ~(sl2[o][s] = x /\ Frees(w2, o) = 0)
        /\ \A p \in Obj \ {o}, s \in Slots :
             (slot[p][s] = x /\ Frees(work, p) = 0) <=> (sl2[p][s] = x /\ Frees(w2, p) = 0)
    BY <2>3
  <2> HIDE DEF sl2, w2
  <2>5. In(slot, work, x) = In(sl2, w2, x) + Cardinality(FieldsTo(slot[o], x))
    BY <1>2, <2>4, FromCut
  <2> QED
    BY <2>5 DEF sl2, w2
<1>8. Accounts'
  <2> SUFFICES ASSUME NEW x \in Obj PROVE Account(x)'
    BY DEF Accounts
  <2> DEFINE i == In(slot, work, x)
             j == In(slot', work', x)
             a == Outside(held, prof, lost, roots, x)
             c == Cardinality(FieldsTo(slot[o], x))
             d == Decs(W, x)
             t == Trying(W, x)
             n == One(x = o)
  <2>1. Account(x)
    BY DEF IInv, Accounts
  <2>2. i \in Nat /\ j \in Nat /\ a \in Nat /\ c \in Nat /\ refc[x] \in Int
    BY Numbers, FromFinite, FieldsToFinite DEF IInv
  <2>3. d \in Nat /\ t \in Nat /\ i = j + c
    BY <1>5, <1>7
  <2>4. n \in {0, 1} /\ (n = 1 <=> x = o) /\ refc'[x] = refc[x] - n
    <3>1. refc'[x] = (IF x = o THEN refc[x] - 1 ELSE refc[x])
      BY DEF IInv, TypeOK
    <3> QED
      BY <2>2, <3>1 DEF One
  <2>5. refc[x] = i + a + (n + d) + t
    BY <1>2, <1>6, <2>1 DEF Account
  <2>6. kind[x] = "empty" => refc[x] = 0 /\ i = 0 /\ Frees(work, x) = 0
    BY <2>1 DEF Account
  <2>7. Decs(work', x) = c + d /\ Trying(work', x) = t /\ Frees(work', x) = n + Frees(work, x)
    BY <1>5, <1>6
  <2>8. kind' = kind /\ slot' = slot /\ phase' = phase /\ cur' = cur /\ marked' = marked
        /\ Outside(held', prof', lost', roots', x) = a
    BY DEF refVars, gcVars
  <2>9. t > 0 => kind[x] = "freed"
    BY <1>6, <2>1 DEF Account
  <2> HIDE DEF i, j, a, c, d, t, n
  <2>10. refc'[x] = j + a + (c + d) + t
    BY ONLY <2>2, <2>3, <2>4, <2>5
  <2>11. kind[x] = "empty" => refc'[x] = 0 /\ j = 0 /\ n = 0
    BY <1>2, <2>2, <2>3, <2>4, <2>6
  <2>12. CASE x = o
    <3>1. n = 1 /\ refc'[x] = 0 /\ Frees(work', x) = 1
      BY <1>2, <2>4, <2>7, <2>12
    <3>2. kind[x] \in {"obj", "temp"}
      BY <1>2, <2>12 DEF IInv, TypeOK, Kinds
    <3> QED
      BY <1>2, <2>1, <2>7, <2>8, <2>9, <2>10, <3>1, <3>2 DEF Account, j
  <2>13. CASE x # o
    <3>1. n = 0 /\ refc'[x] = refc[x] /\ Frees(work', x) = Frees(work, x)
      <4>1. Frees(work, x) \in Nat
        BY Numbers DEF IInv
      <4> QED
        BY <2>2, <2>4, <2>7, <2>13, <4>1
    <3> QED
      BY <1>2, <2>1, <2>6, <2>7, <2>8, <2>9, <2>10, <2>11, <3>1 DEF Account, j
  <2> QED
    BY <2>12, <2>13
<1>9. PhaseInv'
  BY <1>2, KeepPhase DEF refVars, gcVars
<1> QED
  BY <1>8, <1>9 DEF IInv

LEMMA DecInv == ASSUME IInv, TypeOK', Dec PROVE IInv'
<1> DEFINE o == Head(work).obj
<1>1. /\ work # << >> /\ Head(work).op = "dec"
      /\ refc' = [refc EXCEPT ![o] = @ - 1]
      /\ IF refc[o] # 1
           THEN work' = Tail(work) /\ UNCHANGED <<kind, slot, lost>>
           ELSE IF kind[o] = "freed"
                  THEN work' = Tail(work) /\ Emptied(o)
                  ELSE /\ work' = FreeFields(o) \o <<Pending("free", o)>> \o Tail(work)
                       /\ UNCHANGED <<kind, slot, lost>>
      /\ UNCHANGED <<marked, roots, held, profiler, prof, gcVars>>
  BY DEF Dec, FreesOnlyBlock
<1>2. o \in Obj /\ Head(work) = Pending("dec", o)
  BY <1>1, HeadFacts DEF IInv
<1> HIDE DEF o
<1>3. Decrement(o)
  BY <1>2 DEF Decrement
<1>4. CASE refc[o] # 1
  BY <1>1, <1>2, <1>3, <1>4, OneLess DEF refVars
<1>5. CASE refc[o] = 1 /\ kind[o] = "freed"
  BY <1>1, <1>2, <1>3, <1>5, LastOne
<1>6. CASE refc[o] = 1 /\ kind[o] # "freed"
  BY <1>1, <1>2, <1>6, FreeO DEF refVars
<1> QED
  BY <1>4, <1>5, <1>6

LEMMA FreeBlockInv == ASSUME IInv, TypeOK', FreeBlock PROVE IInv'
<1> DEFINE o == Head(work).obj
           W == Tail(work)
<1>1. /\ work # << >> /\ Head(work).op = "free" /\ Emptied(o) /\ work' = W
      /\ UNCHANGED <<refc, marked, roots, held, profiler, prof, gcVars>>
  BY DEF FreeBlock
<1>2. o \in Obj /\ Head(work) = Pending("free", o)
  BY <1>1, HeadFacts DEF IInv
<1>3. \A x : /\ Frees(work, x) = One(x = o) + Frees(W, x) /\ Frees(W, x) \in Nat
             /\ Decs(work, x) = Decs(W, x) /\ Trying(work, x) = Trying(W, x)
  <2> TAKE x
  <2>1. /\ (Head(work) = Pending("free", x) <=> x = o)
        /\ Head(work) # Pending("dec", x) /\ Head(work) # Pending("tryFreed", x)
    BY <1>2 DEF Pending
  <2> QED
    BY <1>1, <2>1, HeadFacts DEF IInv, One
<1> HIDE DEF o, W
<1>4. phase \in {"run", "try"}
  BY <1>1 DEF IInv, PhaseInv
<1>5. /\ refc[o] = In(slot, work, o) + Outside(held, prof, lost, roots, o)
                     + Decs(work, o) + Trying(work, o)
      /\ Frees(work, o) =< 1
      /\ Frees(work, o) = 1 => refc[o] = 0 /\ kind[o] \in {"obj", "temp"}
  BY <1>2, <1>4 DEF IInv, Accounts, Account
<1>6. Frees(work, o) = 1 /\ Frees(work', o) = 0
  BY <1>1, <1>3, <1>5 DEF One
<1>7. /\ In(slot, work, o) = 0 /\ Outside(held, prof, lost, roots, o) = 0
      /\ Decs(work, o) = 0 /\ Trying(work, o) = 0 /\ refc[o] = 0
  BY <1>2, <1>5, <1>6, Numbers DEF IInv
<1>8. lost' = lost
  <2>1. lost[o] = 0
    <3>1. held[o] \in Nat /\ prof[o] \in Nat /\ lost[o] \in Nat /\ One(o \in roots) \in Nat
      BY <1>2 DEF IInv, TypeOK, One
    <3>2. Outside(held, prof, lost, roots, o) = 0
      BY <1>7
    <3> QED
      BY ONLY <3>1, <3>2 DEF Outside
  <2> QED
    BY <1>1, <2>1 DEF Emptied, IInv, TypeOK
<1>9. /\ \A x \in Obj : kind'[x] = IF x = o THEN "empty" ELSE kind[x]
      /\ \A x \in Obj : slot'[x] = IF x = o THEN NoSlots ELSE slot[x]
  BY <1>1 DEF Emptied, IInv, TypeOK
<1>10. \A x \in Obj \ {o} : Frees(work', x) = Frees(work, x)
  BY <1>1, <1>3 DEF One
<1>11. ASSUME NEW x \in Obj PROVE In(slot', work', x) = In(slot, work, x)
  <2>1. \A p \in Obj, s \in Slots :
          (slot[p][s] = x /\ Frees(work, p) = 0) <=> (slot'[p][s] = x /\ Frees(work', p) = 0)
    <3> TAKE p \in Obj, s \in Slots
    <3>1. CASE p = o
      BY <1>6, <1>9, <3>1 DEF NoSlots, Obj, Nil
    <3>2. CASE p # o
      BY <1>9, <1>10, <3>2
    <3> QED
      BY <3>1, <3>2
  <2>2. From(slot', work', x) = From(slot, work, x)
    BY <2>1 DEF From
  <2> QED
    BY <2>2 DEF In
<1>12. Accounts'
  <2> SUFFICES ASSUME NEW x \in Obj PROVE Account(x)'
    BY DEF Accounts
  <2>1. Account(x)
    BY DEF IInv, Accounts
  <2>2. /\ refc' = refc /\ phase' = phase /\ marked' = marked /\ cur' = cur
        /\ Outside(held', prof', lost', roots', x) = Outside(held, prof, lost, roots, x)
    BY <1>1, <1>8 DEF gcVars
  <2>3. /\ In(slot', work', x) = In(slot, work, x)
        /\ Decs(work', x) = Decs(work, x) /\ Trying(work', x) = Trying(work, x)
    BY <1>1, <1>3, <1>11
  <2>4. CASE x = o
    <3>1. kind'[x] = "empty" /\ slot'[x] = NoSlots
      BY <1>2, <1>9, <2>4
    <3> QED
      BY <1>4, <1>6, <1>7, <2>1, <2>2, <2>3, <2>4, <3>1 DEF Account
  <2>5. CASE x # o
    <3>1. kind'[x] = kind[x] /\ slot'[x] = slot[x] /\ Frees(work', x) = Frees(work, x)
      BY <1>9, <1>10, <2>5
    <3> QED
      BY <1>4, <2>1, <2>2, <2>3, <3>1 DEF Account
  <2> QED
    BY <2>4, <2>5
<1>13. PhaseInv'
  <2>1. phase = "try" => \A x \in marked : slot'[x] = slot[x]
    <3> SUFFICES ASSUME phase = "try", NEW x \in marked PROVE slot'[x] = slot[x]
      OBVIOUS
    <3>1. x \in Obj /\ Frees(work, x) = 0
      BY LiveSet DEF Marked
    <3> QED
      BY <1>6, <1>9, <3>1
  <2> QED
    BY <1>1, <1>4, <1>8, <1>9, <2>1, KeepPhase DEF gcVars
<1> QED
  BY <1>12, <1>13 DEF IInv

\* gc_tryFree makes a dead object into a t_freed block without fields that it still
\* refers to itself.
LEMMA TryFreeInv == ASSUME IInv, TypeOK', TryFree PROVE IInv'
<1>1. /\ phase = "try" /\ work = << >> /\ cur =< N /\ cur' = cur + 1
      /\ UNCHANGED <<marked, roots, held, profiler, prof, phase, top>>
  BY DEF TryFree
<1>2. cur \in Obj
  BY <1>1, GcAssumption DEF IInv, TypeOK, Obj
<1>3. \A x : Decs(work, x) = 0 /\ Trying(work, x) = 0 /\ Frees(work, x) = 0
  BY <1>1, IdleFacts
<1>4. \A x \in Obj : x < cur => x < cur'
  BY <1>1, <1>2 DEF Obj
<1>5. CASE Skipped(cur) /\ UNCHANGED <<heapVars, lost, work>>
  <2>1. Accounts'
    <3> SUFFICES ASSUME NEW x \in Obj PROVE Account(x)'
      BY DEF Accounts
    <3>1. Account(x)
      BY DEF IInv, Accounts
    <3> QED
      BY <1>1, <1>4, <1>5, <3>1 DEF Account, heapVars
  <2>2. cur \in marked \/ kind'[cur] # "obj"
    BY <1>5 DEF Skipped, heapVars
  <2>3. PhaseInv'
    BY <1>1, <1>2, <1>5, <2>2, KeepPhase DEF heapVars
  <2> QED
    BY <2>1, <2>3 DEF IInv
<1>6. CASE ~(Skipped(cur) /\ UNCHANGED <<heapVars, lost, work>>)
  <2> DEFINE o == cur
             F == FreeFields(o)
             D == <<Pending("tryFreed", o)>>
  <2>1. o \notin marked /\ kind[o] \notin {"empty", "temp"}
    BY <1>6 DEF TryFree, Skipped
  <2>2. kind[o] = "obj"
    <3>1. kind[o] # "freed"
      BY <1>2 DEF IInv, Accounts, Account, Obj
    <3> QED
      BY <1>2, <2>1, <3>1 DEF IInv, TypeOK, Kinds
  <2>3. /\ kind' = [kind EXCEPT ![o] = "freed"] /\ refc' = [refc EXCEPT ![o] = @ + 1]
        /\ slot' = [slot EXCEPT ![o] = NoSlots] /\ work' = F \o D /\ lost' = lost
    BY <1>6, <2>2 DEF TryFree, Skipped, Guard
  <2> HIDE DEF o
  <2>4. F \in Seq(Op) /\ D \in Seq(Op) /\ o \in Obj
    BY <1>2, FreeFieldsFacts, OpFacts DEF IInv, o
  <2>5. ASSUME NEW x \in Obj
        PROVE  /\ Decs(work', x) = Cardinality(FieldsTo(slot[o], x))
               /\ Frees(work', x) = 0 /\ Trying(work', x) = One(x = o)
    <3>1. Decs(F, x) = Cardinality(FieldsTo(slot[o], x)) /\ Frees(F, x) = 0 /\ Trying(F, x) = 0
      BY <2>4, FreeFieldsFacts DEF IInv
    <3>2. Cardinality(FieldsTo(slot[o], x)) \in Nat
      BY FieldsToFinite
    <3>3. Decs(D, x) = 0 /\ Frees(D, x) = 0 /\ Trying(D, x) = One(x = o)
      BY CountOne DEF Decs, Frees, Trying, One, Pending
    <3> HIDE DEF F, D
    <3>4. \A e : Count(F \o D, e) = Count(F, e) + Count(D, e)
      BY <2>4, CountConcat
    <3> QED
      BY <2>3, <3>1, <3>2, <3>3, <3>4 DEF Decs, Frees, Trying, One
  <2> HIDE DEF F, D
  <2>6. /\ \A x \in Obj : kind'[x] = IF x = o THEN "freed" ELSE kind[x]
        /\ \A x \in Obj : refc'[x] = refc[x] + One(x = o)
        /\ \A x \in Obj : slot'[x] = IF x = o THEN NoSlots ELSE slot[x]
    <3>1. \A x \in Obj : refc'[x] = IF x = o THEN refc[x] + 1 ELSE refc[x]
      BY <2>3 DEF IInv, TypeOK
    <3>2. \A x \in Obj : refc'[x] = refc[x] + One(x = o)
      BY <3>1 DEF One, IInv, TypeOK
    <3> QED
      BY <2>3, <3>2 DEF IInv, TypeOK
  <2>7. ASSUME NEW x \in Obj
        PROVE  In(slot, work, x) = In(slot', work', x) + Cardinality(FieldsTo(slot[o], x))
    <3>1. /\ \A s \in Slots : ~(slot'[o][s] = x /\ Frees(work', o) = 0)
          /\ \A p \in Obj \ {o}, s \in Slots :
               (slot[p][s] = x /\ Frees(work, p) = 0) <=> (slot'[p][s] = x /\ Frees(work', p) = 0)
      BY <1>3, <2>4, <2>5, <2>6 DEF NoSlots, Obj, Nil
    <3> DEFINE sl2 == slot'
               w2 == work'
    <3>2. /\ \A s \in Slots : ~(sl2[o][s] = x /\ Frees(w2, o) = 0)
          /\ \A p \in Obj \ {o}, s \in Slots :
               (slot[p][s] = x /\ Frees(work, p) = 0) <=> (sl2[p][s] = x /\ Frees(w2, p) = 0)
      BY <3>1
    <3> HIDE DEF sl2, w2
    <3>3. Frees(work, o) = 0
      BY <1>3
    <3>4. In(slot, work, x) = In(sl2, w2, x) + Cardinality(FieldsTo(slot[o], x))
      BY <2>4, <3>2, <3>3, FromCut
    <3> QED
      BY <3>4 DEF sl2, w2
  <2>8. Accounts'
    <3> SUFFICES ASSUME NEW x \in Obj PROVE Account(x)'
      BY DEF Accounts
    <3> DEFINE i == In(slot, work, x)
               j == In(slot', work', x)
               a == Outside(held, prof, lost, roots, x)
               c == Cardinality(FieldsTo(slot[o], x))
               n == One(x = o)
    <3>1. Account(x)
      BY DEF IInv, Accounts
    <3>2. i \in Nat /\ j \in Nat /\ a \in Nat /\ c \in Nat /\ refc[x] \in Int
      BY Numbers, FromFinite, FieldsToFinite DEF IInv
    <3>3. i = j + c /\ n \in {0, 1} /\ (n = 1 <=> x = o) /\ refc'[x] = refc[x] + n
      BY <2>6, <2>7 DEF One
    <3>4. refc[x] = i + a
      <4>1. refc[x] = i + a + Decs(work, x) + Trying(work, x)
        BY <1>1, <3>1 DEF Account
      <4> QED
        BY <1>3, <3>2, <4>1
    <3>5. Decs(work', x) = c /\ Trying(work', x) = n /\ Frees(work', x) = 0
      BY <2>5
    <3>6. Outside(held', prof', lost', roots', x) = a /\ phase' = phase /\ marked' = marked
      BY <1>1, <2>3
    <3>7. kind[x] = "empty" => refc[x] = 0 /\ i = 0
      BY <3>1 DEF Account
    <3> HIDE DEF i, j, a, c, n
    <3>8. refc'[x] = j + a + c + n /\ refc[x] >= 0
      BY ONLY <3>2, <3>3, <3>4
    <3>9. CASE x = o
      <4>1. kind'[x] = "freed" /\ slot'[x] = NoSlots /\ refc'[x] >= 1
        BY <2>6, <3>2, <3>3, <3>8, <3>9
      <4>2. x < cur' /\ x \notin marked
        BY <1>1, <1>2, <2>1, <3>9 DEF o, Obj
      <4> QED
        BY <1>1, <3>5, <3>6, <3>8, <4>1, <4>2 DEF Account, j
    <3>10. CASE x # o
      <4>1. kind'[x] = kind[x] /\ slot'[x] = slot[x] /\ refc'[x] = refc[x] /\ n = 0
        BY <2>6, <3>2, <3>3, <3>10
      <4>2. kind[x] = "empty" => refc'[x] = 0 /\ j = 0
        BY <3>2, <3>3, <3>7, <4>1
      <4> QED
        BY <1>1, <1>4, <3>1, <3>5, <3>6, <3>8, <4>1, <4>2 DEF Account, j
    <3> QED
      BY <3>9, <3>10
  <2>9. PhaseInv'
    <3>1. \A x \in marked : slot'[x] = slot[x]
      BY <2>1, <2>6 DEF IInv, TypeOK
    <3>2. kind'[cur] # "obj"
      BY <2>4, <2>6 DEF o
    <3>3. \A x \in Obj : kind'[x] = kind[x] \/ kind'[x] # "obj"
      BY <2>6
    <3> QED
      BY <1>1, <1>2, <2>3, <3>1, <3>2, <3>3, KeepPhase
  <2> QED
    BY <2>8, <2>9 DEF IInv
<1> QED
  BY <1>5, <1>6

-----------------------------------------------------------------------------
(* Types *)

LEMMA TypeProgram == ASSUME TypeOK, Program PROVE TypeOK'
<1> USE DEF heapVars, gcVars, refVars
<1>1. ASSUME NEW o \in Obj, NEW k \in {"obj", "temp"}, New(o, k) PROVE TypeOK'
  BY <1>1 DEF New, TypeOK, Kinds
<1>2. ASSUME NEW x \in Obj, Copy(x) \/ Load(x) PROVE TypeOK'
  <2>1. Inc(x) /\ UNCHANGED <<kind, slot, marked, roots, profiler, prof, lost, work, gcVars>>
    BY <1>2 DEF Copy, Load
  <2>2. refc' \in [Obj -> Int] /\ held' \in [Obj -> Nat]
    BY <2>1 DEF Inc, TypeOK
  <2> QED
    BY <2>1, <2>2 DEF TypeOK
<1>3. ASSUME NEW x \in Obj PROVE <<Pending("dec", x)>> \in Seq(Op) /\ << >> \in Seq(Op)
  BY OpFacts
<1>4. ASSUME NEW x \in Obj, Drop(x) \/ Unroot(x) PROVE TypeOK'
  <2>1. work' \in Seq(Op)
    BY <1>3, <1>4 DEF Drop, Unroot
  <2>2. held' \in [Obj -> Nat] /\ roots' \subseteq Obj
    <3>1. CASE Drop(x)
      <4>1. held \in [Obj -> Nat] /\ held[x] - 1 \in Nat
        BY <3>1 DEF Drop, TypeOK
      <4>2. held' = [held EXCEPT ![x] = @ - 1] /\ roots' = roots
        BY <3>1 DEF Drop
      <4> QED
        BY <4>1, <4>2 DEF TypeOK
    <3>2. CASE Unroot(x)
      BY <3>2 DEF Unroot, TypeOK
    <3> QED
      BY <1>4, <3>1, <3>2
  <2>3. UNCHANGED <<heapVars, marked, profiler, prof, lost, gcVars>>
    BY <1>4 DEF Drop, Unroot
  <2> QED
    BY <2>1, <2>2, <2>3 DEF TypeOK, Op
<1>5. ASSUME NEW x \in Obj, Root(x) PROVE TypeOK'
  BY <1>5 DEF Root, TypeOK
<1>6. ASSUME NEW o \in Obj, NEW x \in Obj, NEW s \in Slots, Store(o, s, x) PROVE TypeOK'
  <2>1. slot[o][s] \in Obj \cup {Nil}
    BY DEF TypeOK
  <2>2. work' \in Seq(Op)
    BY <1>3, <1>6, <2>1 DEF Store
  <2>3. held[x] - 1 \in Nat
    BY <1>6 DEF Store, TypeOK
  <2>4. slot' \in [Obj -> [Slots -> Obj \cup {Nil}]] /\ held' \in [Obj -> Nat]
    BY <1>6, <2>3 DEF Store, TypeOK
  <2>5. UNCHANGED <<kind, refc, marked, roots, profiler, prof, lost, gcVars>>
    BY <1>6 DEF Store
  <2> QED
    BY <2>2, <2>4, <2>5 DEF TypeOK, Op
<1>7. ASSUME NEW S \in SUBSET Obj, Forget(S) PROVE TypeOK'
  BY <1>7 DEF Forget, TypeOK
<1>8. ASSUME ProfilerStart PROVE TypeOK'
  BY <1>8 DEF ProfilerStart, TypeOK
<1>9. ASSUME NEW x \in Obj, Sample(x) PROVE TypeOK'
  BY <1>9 DEF Sample, TypeOK
<1>10. ASSUME ProfilerStop PROVE TypeOK'
  BY <1>10 DEF ProfilerStop, TypeOK
<1>11. ASSUME ProfilerFree PROVE TypeOK'
  <2>1. \A o \in Obj : lost[o] + prof[o] \in Nat
    BY DEF TypeOK
  <2> QED
    BY <1>11, <2>1 DEF ProfilerFree, TypeOK
<1>12. ASSUME NEW S \in SUBSET Obj, ProfilerResults(S) PROVE TypeOK'
  <2>1. \A o \in Obj : held[o] + One(o \in S) \in Nat /\ prof[o] - One(o \in S) \in Nat
    BY <1>12 DEF ProfilerResults, TypeOK, One
  <2> QED
    BY <1>12, <2>1 DEF ProfilerResults, TypeOK
<1>13. ASSUME NEW t \in BOOLEAN, Start(t) PROVE TypeOK'
  <2>1. top' \in BOOLEAN
    BY <1>13 DEF Start, AtTop
  <2>2. phase' \in Phases
    BY <1>13 DEF Start, Phases
  <2> QED
    BY <1>13, <2>1, <2>2 DEF Start, TypeOK
<1> QED
  BY <1>1, <1>2, <1>4, <1>5, <1>6, <1>7, <1>8, <1>9, <1>10, <1>11, <1>12, <1>13 DEF Program

LEMMA TypeSystem == ASSUME TypeOK, System PROVE TypeOK'
<1> USE DEF heapVars, gcVars, refVars
<1>1. ASSUME NEW o \in Obj, Emptied(o)
      PROVE  /\ kind' \in [Obj -> Kinds] /\ slot' \in [Obj -> [Slots -> Obj \cup {Nil}]]
             /\ lost' \in [Obj -> Nat]
  BY <1>1 DEF Emptied, TypeOK, Kinds, NoSlots
<1>2. work # << >> => Head(work).obj \in Obj /\ Tail(work) \in Seq(Op)
  BY HeadFacts
<1>3. ASSUME Dec PROVE TypeOK'
  <2> DEFINE o == Head(work).obj
  <2>1. o \in Obj /\ Tail(work) \in Seq(Op)
    BY <1>2, <1>3 DEF Dec
  <2>2. FreeFields(o) \in Seq(Op) /\ <<Pending("free", o)>> \in Seq(Op)
    BY <2>1, FreeFieldsFacts, OpFacts
  <2>3. FreeFields(o) \o <<Pending("free", o)>> \o Tail(work) \in Seq(Op)
    BY <2>1, <2>2
  <2>4. refc' \in [Obj -> Int] /\ UNCHANGED <<marked, roots, held, profiler, prof, gcVars>>
    <3>1. refc' = [refc EXCEPT ![o] = @ - 1]
          /\ UNCHANGED <<marked, roots, held, profiler, prof, gcVars>>
      BY <1>3 DEF Dec
    <3> QED
      BY <2>1, <3>1 DEF TypeOK
  <2>5. work' \in Seq(Op)
        /\ (Emptied(o) \/ UNCHANGED <<kind, slot, lost>>)
    BY <1>3, <2>1, <2>3 DEF Dec
  <2> HIDE DEF o
  <2>6. /\ kind' \in [Obj -> Kinds] /\ slot' \in [Obj -> [Slots -> Obj \cup {Nil}]]
        /\ lost' \in [Obj -> Nat]
    BY <1>1, <2>1, <2>5 DEF TypeOK
  <2> QED
    BY <2>4, <2>5, <2>6 DEF TypeOK, Op
<1>4. ASSUME FreeBlock PROVE TypeOK'
  BY <1>1, <1>2, <1>4 DEF FreeBlock, TypeOK, Op
<1>5. ASSUME TryFreed PROVE TypeOK'
  <2> DEFINE o == Head(work).obj
  <2>1. o \in Obj /\ work' \in Seq(Op)
    BY <1>2, <1>5 DEF TryFreed
  <2>2. /\ refc' = [refc EXCEPT ![o] = @ - 1]
        /\ UNCHANGED <<marked, roots, held, profiler, prof, gcVars>>
        /\ Emptied(o) \/ UNCHANGED <<kind, slot, lost>>
    BY <1>5 DEF TryFreed
  <2> HIDE DEF o
  <2>3. /\ kind' \in [Obj -> Kinds] /\ slot' \in [Obj -> [Slots -> Obj \cup {Nil}]]
        /\ lost' \in [Obj -> Nat]
    BY <1>1, <2>1, <2>2 DEF TypeOK
  <2>4. refc' \in [Obj -> Int]
    BY <2>1, <2>2 DEF TypeOK
  <2> QED
    BY <2>1, <2>2, <2>3, <2>4 DEF TypeOK, Op
<1>6. \A x \in Obj : Incoming(x) \in Int
  <2> TAKE x \in Obj
  <2> DEFINE P == {p \in Obj \X Slots : slot[p[1]][p[2]] = x}
  <2>1. P = From(slot, << >>, x)
    BY CountNone DEF From, Frees
  <2>2. Incoming(x) = In(slot, << >>, x)
    BY <2>1 DEF Incoming, In
  <2> HIDE DEF P
  <2> QED
    BY <2>2, FromFinite
<1>7. ASSUME DecAll PROVE TypeOK'
  <2>1. refc' \in [Obj -> Int]
    BY <1>6, <1>7 DEF DecAll, TypeOK
  <2> QED
    BY <1>7, <2>1 DEF DecAll, TypeOK, Phases
<1>8. \A S : Reach(S) \subseteq Obj
  BY DEF Reach
<1>9. ASSUME MarkHeld \/ MarkRoots PROVE TypeOK'
  <2>1. 1 \in 1 .. N + 1
    BY GcAssumption
  <2>2. marked' \subseteq Obj
    BY <1>8, <1>9 DEF MarkHeld, MarkRoots, Mark, TypeOK
  <2> QED
    BY <1>9, <2>1, <2>2 DEF MarkHeld, MarkRoots, TypeOK, Phases
<1>10. ASSUME IncAll PROVE TypeOK'
  <2>1. refc' \in [Obj -> Int]
    BY <1>6, <1>10 DEF IncAll, Subtracted, TypeOK
  <2> QED
    BY <1>10, <2>1 DEF IncAll, TypeOK, Phases
<1>11. ASSUME UnmarkAll \/ TriedAll PROVE TypeOK'
  BY <1>11 DEF UnmarkAll, TriedAll, TypeOK, Phases
<1>12. ASSUME TryFree PROVE TypeOK'
  <2>1. cur \in Obj /\ cur' \in 1 .. N + 1
    BY <1>12, GcAssumption DEF TryFree, TypeOK, Obj
  <2>2. FreeFields(cur) \in Seq(Op) /\ <<Pending("tryFreed", cur)>> \in Seq(Op)
    BY <2>1, FreeFieldsFacts, OpFacts
  <2>3. FreeFields(cur) \o <<Pending("tryFreed", cur)>> \in Seq(Op)
    BY <2>2
  <2>4. work \in Seq(Op)
    BY DEF TypeOK, Op
  <2>5. UNCHANGED <<marked, roots, held, profiler, prof, phase, top>>
    BY <1>12 DEF TryFree
  <2>6. \/ UNCHANGED <<heapVars, lost, work>>
        \/ Emptied(cur) /\ UNCHANGED <<refc, work>>
        \/ /\ kind' = [kind EXCEPT ![cur] = "freed"] /\ refc' = Guard(cur)
           /\ slot' = [slot EXCEPT ![cur] = NoSlots] /\ UNCHANGED lost
           /\ work' = FreeFields(cur) \o <<Pending("tryFreed", cur)>>
    BY <1>12 DEF TryFree
  <2>7. work' \in Seq(Op)
    BY <2>3, <2>4, <2>6
  <2>8. /\ kind' \in [Obj -> Kinds] /\ slot' \in [Obj -> [Slots -> Obj \cup {Nil}]]
        /\ lost' \in [Obj -> Nat] /\ refc' \in [Obj -> Int]
    <3>1. CASE UNCHANGED <<heapVars, lost, work>>
      BY <3>1 DEF TypeOK
    <3>2. CASE Emptied(cur) /\ UNCHANGED <<refc, work>>
      BY <1>1, <2>1, <3>2 DEF TypeOK
    <3>3. CASE /\ kind' = [kind EXCEPT ![cur] = "freed"] /\ refc' = Guard(cur)
               /\ slot' = [slot EXCEPT ![cur] = NoSlots] /\ UNCHANGED lost
      BY <2>1, <3>3 DEF TypeOK, Kinds, NoSlots, Guard
    <3> QED
      BY <2>6, <3>1, <3>2, <3>3
  <2> QED
    BY <2>1, <2>5, <2>7, <2>8 DEF TypeOK, Op
<1>13. ASSUME Merge PROVE TypeOK'
  <2>1. 1 \in 1 .. N + 1
    BY GcAssumption
  <2>2. phase' \in Phases
    BY <1>13 DEF Merge, Phases
  <2>3. kind' \in [Obj -> Kinds] /\ refc' \in [Obj -> Int] /\ lost' \in [Obj -> Nat]
    BY <1>13 DEF Merge, TypeOK, Kinds
  <2> QED
    BY <1>13, <2>1, <2>2, <2>3 DEF Merge, TypeOK
<1> QED
  BY <1>3, <1>4, <1>5, <1>7, <1>9, <1>10, <1>11, <1>12, <1>13 DEF System

-----------------------------------------------------------------------------
(* Theorems *)

LEMMA NextInv == IInv /\ [Next]_vars => IInv'
<1> SUFFICES ASSUME IInv, [Next]_vars PROVE IInv'
  OBVIOUS
<1>1. CASE Program
  <2>1. TypeOK'
    BY <1>1, TypeProgram DEF IInv
  <2> QED
    BY <1>1, <2>1, NewInv, CopyInv, LoadInv, DropInv, RootInv, UnrootInv, StoreInv, ForgetInv,
       ProfilerStartInv, SampleInv, ProfilerStopInv, ProfilerResultsInv, ProfilerFreeInv, StartInv DEF Program
<1>2. CASE System
  <2>1. TypeOK'
    BY <1>2, TypeSystem DEF IInv
  <2> QED
    BY <1>2, <2>1, DecInv, FreeBlockInv, TryFreedInv, DecAllInv, MarkHeldInv, IncAllInv,
       UnmarkAllInv, MarkRootsInv, TryFreeInv, TriedAllInv, MergeInv DEF System
<1>3. CASE UNCHANGED vars
  <2>1. TypeOK'
    BY <1>3 DEF vars, heapVars, refVars, gcVars, IInv, TypeOK
  <2>2. Accounts'
    BY <1>3 DEF vars, heapVars, refVars, gcVars, IInv, Accounts, Account
  <2>3. Marks(Trusted) => Marks(Trusted)'
    <3>1. slot' = slot /\ marked' = marked /\ UNCHANGED <<refVars, top>>
      BY <1>3 DEF vars, heapVars, gcVars
    <3> QED
      BY <3>1, TrustedStays, MarksStay
  <2>4. PhaseInv'
    <3>1. /\ phase' = phase /\ cur' = cur /\ top' = top /\ work' = work /\ kind' = kind
          /\ marked' = marked /\ held' = held /\ prof' = prof /\ profiler' = profiler
      BY <1>3 DEF vars, heapVars, refVars, gcVars
    <3>2. PhaseInv
      BY DEF IInv
    <3> QED
      BY <2>3, <3>1, <3>2 DEF PhaseInv, Marked
  <2> QED
    BY <2>1, <2>2, <2>4 DEF IInv
<1> QED
  BY <1>1, <1>2, <1>3 DEF Next

\* The accounts of all counts, and what the marks mean in each part of a collection,
\* are kept by every step of the program, of frees and of gc_run.
THEOREM AccountsBalance == Spec => []IInv
<1> QED
  BY InitInv, NextInv, PTL DEF Spec

LEMMA InUseMarked ==
  ASSUME IInv, phase \in {"try", "merge"} PROVE InUse \subseteq marked
<1> SUFFICES ASSUME NEW x \in InUse PROVE x \in marked
  OBVIOUS
<1>1. Trusted \subseteq marked
  BY DEF IInv, PhaseInv, Marked, Marks
<1>2. x \in Obj /\ held[x] \in Nat /\ prof[x] \in Nat /\ lost[x] \in Nat
  BY DEF IInv, TypeOK, InUse
<1>3. CASE top
  BY <1>1, <1>2, <1>3 DEF IInv, PhaseInv, InUse, Trusted
<1>4. CASE ~top
  <2>1. Outside(held, prof, lost, roots, x) > 0
    BY <1>2 DEF InUse, Outside, One
  <2> QED
    BY <1>1, <1>2, <1>4, <2>1 DEF Trusted
<1> QED
  BY <1>3, <1>4

\* Whatever can be reached from C code, from the profiler's buffer or from a root is
\* never freed, and never about to be: not by a count that drops to zero nor by a
\* collection of either kind, with all its parts interleaved with the frees it makes.
THEOREM LiveStaysKept == Spec => []LiveKept
<1>1. IInv => LiveKept
  <2> SUFFICES ASSUME IInv, NEW o \in Reach(InUse) PROVE kind[o] \in {"obj", "temp"}
    BY DEF LiveKept
  <2> DEFINE L == {x \in Obj : kind[x] # "empty" /\ Frees(work, x) = 0}
  <2>1. InUse \in SUBSET Obj /\ marked \in SUBSET Obj /\ L \in SUBSET Obj
    BY DEF IInv, TypeOK, InUse
  <2>2. Closed(L) /\ InUse \subseteq L
    BY LiveSet
  <2> HIDE DEF L
  <2>3. o \in L
    BY <2>1, <2>2, ReachFacts DEF IInv
  <2>4. o \in Obj /\ kind[o] # "empty"
    BY <2>3 DEF L
  <2>5. kind[o] # "freed"
    <3> SUFFICES ASSUME kind[o] = "freed" PROVE FALSE
      OBVIOUS
    <3>1. phase \in {"try", "merge"} /\ o \notin marked
      BY <2>4 DEF IInv, Accounts, Account
    <3>2. InUse \subseteq marked /\ Closed(marked)
      BY <3>1, InUseMarked DEF IInv, PhaseInv, Marked, Marks
    <3> QED
      BY <2>1, <3>1, <3>2, ReachFacts DEF IInv
  <2> QED
    BY <2>4, <2>5 DEF IInv, TypeOK, Kinds
<1> QED
  BY <1>1, AccountsBalance, PTL

\* Between the steps of the program a count is exactly the number of references: what a
\* collection subtracts it restores, and every free decrements each field once.
THEOREM RefcStaysExact == Spec => []RefcExact
<1>1. IInv => RefcExact
  <2> SUFFICES ASSUME IInv, Idle, NEW x \in Blocks
               PROVE  refc[x] = Incoming(x) + held[x] + prof[x] + lost[x] + One(x \in roots)
    BY DEF RefcExact
  <2>1. x \in Obj /\ phase = "run" /\ work = << >>
    BY DEF Blocks, Idle
  <2>2. Incoming(x) = In(slot, work, x)
    BY <2>1, IncomingFacts
  <2>3. Decs(work, x) = 0 /\ Trying(work, x) = 0
    BY <2>1, IdleFacts
  <2>4. refc[x] = In(slot, work, x) + Outside(held, prof, lost, roots, x)
                    + Decs(work, x) + Trying(work, x)
    BY <2>1 DEF IInv, Accounts, Account
  <2>5. In(slot, work, x) \in Nat /\ held[x] \in Nat /\ prof[x] \in Nat /\ lost[x] \in Nat
        /\ One(x \in roots) \in Nat
    BY <2>1, FromFinite DEF IInv, TypeOK, One
  <2> QED
    BY <2>2, <2>3, <2>4, <2>5 DEF Outside
<1> QED
  BY <1>1, AccountsBalance, PTL

\* No decrement or free is pending for an empty block, no count drops below zero, and a
\* collection inside a running program leaves no t_freed block to mm_freeFreedAndMerge.
THEOREM FreedStaysOnce == Spec => []FreedOnce
<1>1. IInv => NoDoubleFree
  <2> SUFFICES ASSUME IInv, NEW i \in DOMAIN work, kind[work[i].obj] = "empty" PROVE FALSE
    BY DEF NoDoubleFree
  <2> DEFINE d == work[i]
             x == d.obj
  <2>1. work \in Seq(Op) /\ i \in 1 .. Len(work)
    BY DEF IInv, TypeOK, Op
  <2>2. d \in Op
    BY <2>1
  <2>3. x \in Obj /\ (d = Pending("dec", x) \/ d = Pending("free", x) \/ d = Pending("tryFreed", x))
    BY <2>2 DEF Op, Pending
  <2> HIDE DEF x
  <2>4. Count(work, d) # 0
    BY <2>1, CountFacts
  <2> HIDE DEF d
  <2>5. Account(x) /\ kind[x] = "empty"
    BY <2>3 DEF IInv, Accounts, x, d
  <2>6. /\ In(slot, work, x) \in Nat /\ Outside(held, prof, lost, roots, x) \in Nat
        /\ Decs(work, x) \in Nat /\ Trying(work, x) \in Nat
    BY <2>3, Numbers DEF IInv
  <2>7. Decs(work, x) = 0 /\ Trying(work, x) = 0 /\ Frees(work, x) = 0
    <3>1. refc[x] = 0 /\ In(slot, work, x) = 0 /\ Frees(work, x) = 0
      BY <2>5 DEF Account
    <3>2. refc[x] = 0 + Outside(held, prof, lost, roots, x) + Decs(work, x) + Trying(work, x)
      BY <2>5, <3>1 DEF Account
    <3> QED
      BY <2>6, <3>1, <3>2
  <2> QED
    BY <2>3, <2>4, <2>7 DEF Decs, Frees, Trying
<1>2. IInv => CountsNonNegative
  <2> SUFFICES ASSUME IInv, NEW x \in Obj PROVE refc[x] >= 0
    BY DEF CountsNonNegative, Blocks
  <2>1. refc[x] = (IF phase \in {"mark", "inc"} THEN 0 ELSE In(slot, work, x))
                    + Outside(held, prof, lost, roots, x) + Decs(work, x) + Trying(work, x)
    BY DEF IInv, Accounts, Account
  <2> QED
    BY <2>1, Numbers DEF IInv
<1>3. IInv => CyclesUnravel
  <2> SUFFICES ASSUME IInv, phase = "merge", ~top, NEW x \in Obj, kind[x] = "freed"
               PROVE  FALSE
    BY DEF CyclesUnravel
  <2>1. In(slot, work, x) = 0 /\ Outside(held, prof, lost, roots, x) = 0
    BY MergeFacts DEF Outside, One
  <2>2. Decs(work, x) = 0 /\ Trying(work, x) = 0
    BY IdleFacts DEF IInv, PhaseInv
  <2> QED
    BY <2>1, <2>2 DEF IInv, Accounts, Account
<1>4. IInv => FreedOnce
  BY <1>1, <1>2, <1>3 DEF FreedOnce, IInv
<1> QED
  BY <1>4, AccountsBalance, PTL

\* A collection leaves no object behind that nothing refers to: one at top level keeps
\* what roots reach, one inside a program also what C code holds or a throw has lost.
THEOREM CollectionsAreComplete == Spec => Complete
<1>1. ASSUME IInv, [Next]_vars, phase = "merge" PROVE AfterGC(top)' \/ UNCHANGED vars
  <2> SUFFICES ASSUME Next PROVE AfterGC(top)'
    BY <1>1
  <2>1. Merge
    <3>1. work = << >>
      BY <1>1 DEF IInv, PhaseInv
    <3>2. ~Program
      BY <1>1 DEF Program, New, Copy, Load, Drop, Root, Unroot, Store, Forget, ProfilerStart,
                  Sample, ProfilerStop, ProfilerResults, ProfilerFree, Start, Idle
    <3> QED
      BY <1>1, <3>1, <3>2 DEF Next, System, Dec, FreeBlock, TryFreed, DecAll, MarkHeld, IncAll,
                              UnmarkAll, MarkRoots, TryFree, TriedAll
  <2> DEFINE S == IF top' THEN roots' ELSE InUse' \cup {x \in Obj : lost'[x] > 0}
  <2>2. Trusted \subseteq S
    <3> SUFFICES ASSUME NEW x \in Trusted PROVE x \in S
      OBVIOUS
    <3>1. top' = top /\ roots' = roots /\ held' = held /\ prof' = prof
      BY <2>1 DEF Merge
    <3>2. CASE top
      BY <3>1, <3>2 DEF Trusted
    <3>3. CASE ~top
      <4>1. x \in Obj /\ Outside(held, prof, lost, roots, x) > 0
        BY <3>3 DEF Trusted
      <4>2. held[x] \in Nat /\ prof[x] \in Nat /\ lost[x] \in Nat
        BY <1>1, <4>1 DEF IInv, TypeOK
      <4>3. lost'[x] = lost[x]
        <5>1. kind[x] = "freed" => lost[x] = 0
          BY <1>1, <3>3, <4>1, MergeFacts
        <5> QED
          BY <2>1, <4>1, <5>1 DEF Merge
      <4>4. held[x] + prof[x] > 0 \/ lost[x] > 0 \/ x \in roots
        BY <4>1, <4>2 DEF Outside, One
      <4> QED
        BY <3>1, <3>3, <4>1, <4>3, <4>4 DEF InUse
    <3> QED
      BY <3>2, <3>3
  <2>3. ASSUME NEW o \in Obj, kind'[o] = "obj"
        PROVE  \A T \in SUBSET Obj : S \subseteq T /\ Closed(T)' => o \in T
    <3>1. kind[o] = "obj"
      BY <2>1, <2>3 DEF Merge
    <3>2. o < cur
      BY <1>1, GcAssumption DEF IInv, PhaseInv, Obj
    <3>3. o \in marked /\ Marks(Trusted)
      BY <1>1, <3>1, <3>2 DEF IInv, PhaseInv, Marked
    <3>4. ASSUME NEW T \in SUBSET Obj, S \subseteq T, Closed(T)' PROVE o \in T
      <4>1. slot' = slot
        BY <2>1 DEF Merge
      <4>2. Closed(T)
        BY <3>4, <4>1 DEF Closed, Children
      <4> HIDE DEF S
      <4> QED
        BY <2>2, <3>3, <3>4, <4>2 DEF Marks
    <3> QED
      BY <3>4
  <2>4. \A o \in Obj : kind'[o] = "obj" =>
          \A T \in SUBSET Obj : S \subseteq T /\ Closed(T)' => o \in T
    BY <2>3
  <2> QED
    BY <2>4 DEF AfterGC, Reach
<1>2. IInv /\ [Next]_vars => [phase = "merge" => AfterGC(top)']_vars
  BY <1>1
<1> QED
  BY <1>2, AccountsBalance, PTL DEF Spec, Complete

=============================================================================
