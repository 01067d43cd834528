---------------------------- MODULE BuddyProofs ----------------------------
(***************************************************************************)
(* Proofs about Buddy, for every number of buckets, both size functions,   *)
(* every limit and every address mmap may return.                          *)
(***************************************************************************)
EXTENDS Buddy, WellFoundedInduction, TLAPS

-----------------------------------------------------------------------------
(* Sizes *)

\* Every non-empty set of natural numbers has a least element.
LEMMA LeastElement ==
  ASSUME NEW N \in SUBSET Nat, N # {}
  PROVE  \E m \in N : \A k \in N : m =< k
<1>1. PICK m \in N : \A k \in N : <<k, m>> \notin OpToRel(<, Nat)
  BY WFMin, NatLessThanWellFounded, Zenon
<1>2. \A k \in N : ~(k < m)
  BY <1>1, Zenon DEF OpToRel
<1>3. m \in Nat /\ \A k \in N : k \in Nat
  OBVIOUS
<1> QED
  BY <1>2, <1>3

\* Every size is positive, and a larger block holds two of any smaller size.
LEMMA SizeFacts ==
  /\ \A b \in Buckets : Size[b] \in Nat /\ Size[b] > 0
  /\ \A b, k \in Buckets : k < b => 2 * Size[k] =< Size[b]
  /\ \A b, k \in Buckets : k =< b => Size[k] =< Size[b]
<1>1. \A b \in Buckets : Size[b] \in Nat /\ Size[b] > 0
  BY SizeAssumption
<1>2. ASSUME NEW b \in Buckets, NEW k \in Buckets, k < b, ~(2 * Size[k] =< Size[b])
      PROVE  FALSE
  <2> DEFINE Less == {m \in Buckets : k < m /\ ~(2 * Size[k] =< Size[m])}
  <2>1. Less \in SUBSET Nat /\ b \in Less
    BY <1>2, BucketAssumption DEF Buckets
  <2>2. PICK m \in Less : \A n \in Less : m =< n
    <3> HIDE DEF Less
    <3> QED
      BY <2>1, LeastElement
  <2>3. m \in Buckets /\ m - 1 \in Buckets /\ m - 1 >= k /\ m - 1 \notin Less
    BY <2>2, BucketAssumption DEF Buckets
  <2>4. Size[m] = 2 * Size[m - 1]
    <3>1. PICK n \in Buckets : n = m - 1 /\ n + 1 = m
      BY <2>3, BucketAssumption DEF Buckets
    <3> QED
      BY <3>1, <2>3, SizeAssumption
  <2>5. m - 1 = k \/ 2 * Size[k] =< Size[m - 1]
    BY <2>3, BucketAssumption DEF Buckets
  <2> QED
    BY <2>2, <2>3, <2>4, <2>5, <1>1
<1>3. \A b, k \in Buckets : k =< b => Size[k] =< Size[b]
  BY <1>1, <1>2, BucketAssumption DEF Buckets
<1> QED
  BY <1>1, <1>2, <1>3

\* Distinct buckets have distinct sizes.
LEMMA SizeInjective ==
  \A b, k \in Buckets : Size[b] = Size[k] => b = k
BY SizeFacts, BucketAssumption DEF Buckets

-----------------------------------------------------------------------------
(* Splitting *)

\* What splitTo and the allocL after it do to the blocks: c becomes a block of
\* bucket to, each cut-off half is one of its own bucket, the rest stays.
LEMMA SplitShape ==
  ASSUME NEW c \in Nat, NEW from \in Buckets, NEW to \in Buckets, to =< from,
         NEW hs, NEW ts, NEW old,
         hs \in [DOMAIN hs -> Buckets], DOMAIN hs \subseteq Nat,
         ts \in [DOMAIN hs -> Types],
         Halves(c, from, to) \cap DOMAIN hs = {},
         SplitAndTake(c, from, to, old, hs, ts)
  PROVE  /\ heads' = DOMAIN hs \cup Halves(c, from, to) \cup {c}
         /\ heads' \subseteq Nat
         /\ mmInfo' \in [heads' -> Buckets]
         /\ type' \in [heads' -> Types]
         /\ mmInfo'[c] = to /\ type'[c] = "used"
         /\ \A a \in DOMAIN hs : a # c => mmInfo'[a] = hs[a] /\ type'[a] = ts[a]
         /\ \A k \in to .. from - 1 : /\ c + Size[k] \in heads'
                                      /\ mmInfo'[c + Size[k]] = k
                                      /\ type'[c + Size[k]] = "empty"
<1> DEFINE H == DOMAIN hs \cup Halves(c, from, to) \cup {c}
<1>0. to .. from - 1 \subseteq Buckets
  BY BucketAssumption DEF Buckets
<1>1. heads' = H
  BY DEF SplitAndTake, heads
<1>2. Halves(c, from, to) \subseteq Nat
  BY <1>0, SizeFacts DEF Halves
<1>3. \A k \in to .. from - 1 : c + Size[k] # c
  BY <1>0, SizeFacts
<1>4. ASSUME NEW h \in Halves(c, from, to)
      PROVE  /\ HalfBucket(h, c, from, to) \in to .. from - 1
             /\ h = c + Size[HalfBucket(h, c, from, to)]
  BY DEF Halves, HalfBucket
<1>5. \A k \in to .. from - 1 : HalfBucket(c + Size[k], c, from, to) = k
  <2> SUFFICES ASSUME NEW k \in to .. from - 1
               PROVE  HalfBucket(c + Size[k], c, from, to) = k
    OBVIOUS
  <2>1. c + Size[k] \in Halves(c, from, to)
    BY DEF Halves
  <2> DEFINE m == HalfBucket(c + Size[k], c, from, to)
  <2>2. m \in to .. from - 1 /\ c + Size[k] = c + Size[m]
    BY <2>1, <1>4
  <2> HIDE DEF m
  <2>3. Size[k] = Size[m]
    BY <2>2, <1>0, SizeFacts
  <2> QED
    BY <2>2, <2>3, <1>0, SizeInjective DEF m
<1>6. mmInfo' = [a \in H |-> IF a = c THEN to
                             ELSE IF a \in DOMAIN hs THEN hs[a]
                             ELSE HalfBucket(a, c, from, to)]
  BY DEF SplitAndTake
<1>7. type' = [a \in H |-> IF a = c THEN "used"
                           ELSE IF a \in DOMAIN hs THEN ts[a]
                           ELSE "empty"]
  BY DEF SplitAndTake
<1>8. \A a \in H : a # c /\ a \notin DOMAIN hs => a \in Halves(c, from, to)
  OBVIOUS
<1>9. mmInfo' \in [H -> Buckets]
  BY <1>0, <1>4, <1>6, <1>8
<1>10. type' \in [H -> Types]
  BY <1>7 DEF Types
<1>11. ASSUME NEW k \in to .. from - 1
       PROVE  /\ c + Size[k] \in H
              /\ mmInfo'[c + Size[k]] = k
              /\ type'[c + Size[k]] = "empty"
  <2>1. c + Size[k] \in Halves(c, from, to)
    BY DEF Halves
  <2> QED
    BY <2>1, <1>3, <1>5, <1>6, <1>7
<1> QED
  BY <1>1, <1>2, <1>6, <1>7, <1>9, <1>10, <1>11

\* The pieces of a split lie within the block that was split, follow one
\* another, and the last ends where that block ended.
LEMMA SplitPieces ==
  ASSUME NEW c \in Nat, NEW from \in Buckets, NEW to \in Buckets, to =< from
  PROVE  /\ \A k \in to .. from - 1 :
              /\ c + Size[to] =< c + Size[k]
              /\ c + Size[k] + Size[k] =< c + Size[from]
              /\ \/ k + 1 \in to .. from - 1 /\ c + Size[k] + Size[k] = c + Size[k + 1]
                 \/ c + Size[k] + Size[k] = c + Size[from]
         /\ \A k, m \in to .. from - 1 : k < m => c + Size[k] + Size[k] =< c + Size[m]
         /\ \/ to = from
            \/ to \in to .. from - 1
         /\ c + Size[to] =< c + Size[from]
<1>0. to .. from - 1 \subseteq Buckets /\ to \in Int /\ from \in Int
  BY BucketAssumption DEF Buckets
<1>1. ASSUME NEW k \in to .. from - 1
      PROVE  /\ Size[to] =< Size[k]
             /\ 2 * Size[k] =< Size[from]
             /\ \/ k + 1 \in to .. from - 1 /\ 2 * Size[k] = Size[k + 1]
                \/ 2 * Size[k] = Size[from]
  <2>1. k + 1 \in Buckets
    BY <1>0, BucketAssumption DEF Buckets
  <2>2. Size[k + 1] = 2 * Size[k]
    BY <1>0, <2>1, SizeAssumption
  <2>3. to =< k /\ k < from
    BY <1>0
  <2>4. Size[to] =< Size[k] /\ 2 * Size[k] =< Size[from]
    BY <1>0, <2>3, SizeFacts
  <2>5. k + 1 \in to .. from - 1 \/ k + 1 = from
    BY <1>0
  <2> QED
    BY <2>2, <2>4, <2>5
<1>2. \A k, m \in to .. from - 1 : k < m => 2 * Size[k] =< Size[m]
  BY <1>0, SizeFacts
<1>3. Size[to] =< Size[from]
  BY SizeFacts
<1>4. \A k \in to .. from - 1 : Size[k] \in Nat
  BY <1>0, SizeFacts
<1>5. Size[to] \in Nat /\ Size[from] \in Nat
  BY SizeFacts
<1>6. to = from \/ to \in to .. from - 1
  BY <1>0
<1>7. ASSUME NEW k \in to .. from - 1
      PROVE  /\ c + Size[to] =< c + Size[k]
             /\ c + Size[k] + Size[k] =< c + Size[from]
             /\ \/ k + 1 \in to .. from - 1 /\ c + Size[k] + Size[k] = c + Size[k + 1]
                \/ c + Size[k] + Size[k] = c + Size[from]
  BY <1>1, <1>4, <1>5
<1>8. \A k, m \in to .. from - 1 : k < m => c + Size[k] + Size[k] =< c + Size[m]
  BY <1>2, <1>4
<1>9. c + Size[to] =< c + Size[from]
  BY <1>3, <1>5
<1> QED
  BY <1>6, <1>7, <1>8, <1>9

\* A split inside a region [c, c + Size[from]) that no other block reaches into
\* keeps blocks apart, and tiles the region.
LEMMA SplitLayout ==
  ASSUME NEW c \in Nat, NEW from \in Buckets, NEW to \in Buckets, to =< from,
         NEW hs, NEW ts, NEW old,
         hs \in [DOMAIN hs -> Buckets], DOMAIN hs \subseteq Nat,
         ts \in [DOMAIN hs -> Types],
         \A a, b \in DOMAIN hs : a < b => a + Size[hs[a]] =< b,
         \A a \in DOMAIN hs : \/ a = c
                              \/ a + Size[hs[a]] =< c
                              \/ c + Size[from] =< a,
         SplitAndTake(c, from, to, old, hs, ts)
  PROVE  /\ Halves(c, from, to) \cap DOMAIN hs = {}
         /\ NoOverlap'
         /\ \A a \in heads' : \/ a \in DOMAIN hs \ {c} /\ a + Size[mmInfo'[a]] = a + Size[hs[a]]
                              \/ /\ c =< a /\ a + Size[mmInfo'[a]] =< c + Size[from]
                                 /\ a + Size[mmInfo'[a]] \in heads' \/ a + Size[mmInfo'[a]] = c + Size[from]
<1>0. to .. from - 1 \subseteq Buckets
  BY BucketAssumption DEF Buckets
<1>p. /\ \A k \in to .. from - 1 :
              /\ c + Size[to] =< c + Size[k]
              /\ c + Size[k] + Size[k] =< c + Size[from]
              /\ \/ k + 1 \in to .. from - 1 /\ c + Size[k] + Size[k] = c + Size[k + 1]
                 \/ c + Size[k] + Size[k] = c + Size[from]
      /\ \A k, m \in to .. from - 1 : k < m => c + Size[k] + Size[k] =< c + Size[m]
      /\ to = from \/ to \in to .. from - 1
      /\ c + Size[to] =< c + Size[from]
  BY SplitPieces
<1>1. \A k \in to .. from - 1 : /\ Size[k] \in Nat
                                /\ c < c + Size[k]
                                /\ c + Size[k] < c + Size[from]
  <2> SUFFICES ASSUME NEW k \in to .. from - 1
               PROVE  /\ Size[k] \in Nat
                      /\ c < c + Size[k]
                      /\ c + Size[k] < c + Size[from]
    OBVIOUS
  <2>1. Size[k] \in Nat /\ Size[k] > 0 /\ Size[from] \in Nat
    BY <1>0, SizeFacts
  <2> QED
    BY <2>1, <1>p
<1>2. Halves(c, from, to) \cap DOMAIN hs = {}
  BY <1>1, SizeFacts DEF Halves
<1>3. /\ heads' = DOMAIN hs \cup Halves(c, from, to) \cup {c}
      /\ heads' \subseteq Nat
      /\ mmInfo' \in [heads' -> Buckets]
      /\ mmInfo'[c] = to
      /\ \A a \in DOMAIN hs : a # c => mmInfo'[a] = hs[a]
      /\ \A k \in to .. from - 1 : /\ c + Size[k] \in heads'
                                   /\ mmInfo'[c + Size[k]] = k
  BY <1>2, SplitShape
<1>4. ASSUME NEW a \in heads'
      PROVE  \/ a \in DOMAIN hs \ {c} /\ a + Size[mmInfo'[a]] = a + Size[hs[a]]
             \/ a = c /\ a + Size[mmInfo'[a]] = c + Size[to]
             \/ \E k \in to .. from - 1 : /\ a = c + Size[k]
                                          /\ a + Size[mmInfo'[a]] = c + Size[k] + Size[k]
  BY <1>3 DEF Halves
<1>5. \/ c + Size[to] \in heads'
      \/ c + Size[to] = c + Size[from]
  BY <1>3, <1>p
<1>6. ASSUME NEW a \in heads'
      PROVE  \/ a \in DOMAIN hs \ {c} /\ a + Size[mmInfo'[a]] = a + Size[hs[a]]
             \/ /\ c =< a /\ a + Size[mmInfo'[a]] =< c + Size[from]
                /\ a + Size[mmInfo'[a]] \in heads' \/ a + Size[mmInfo'[a]] = c + Size[from]
  <2>1. CASE a \in DOMAIN hs \ {c} /\ a + Size[mmInfo'[a]] = a + Size[hs[a]]
    BY <2>1
  <2>2. CASE a = c /\ a + Size[mmInfo'[a]] = c + Size[to]
    BY <2>2, <1>5, <1>p
  <2>3. CASE \E k \in to .. from - 1 : /\ a = c + Size[k]
                                       /\ a + Size[mmInfo'[a]] = c + Size[k] + Size[k]
    BY <2>3, <1>1, <1>3, <1>p
  <2> QED
    BY <1>4, <2>1, <2>2, <2>3
<1>7. ASSUME NEW a \in heads', NEW b \in heads', a < b
      PROVE  a + Size[mmInfo'[a]] =< b
  <2> DEFINE Old(x) == x \in DOMAIN hs \ {c}
  <2>0. /\ a \in Nat /\ b \in Nat /\ a \in heads' /\ b \in heads' /\ a < b
        /\ \A k \in Buckets : Size[k] \in Nat /\ Size[k] > 0
    BY <1>3, <1>7, SizeFacts
  <2>1. CASE Old(a) /\ Old(b)
    BY <2>0, <2>1, <1>3
  <2>2. CASE Old(a) /\ ~Old(b)
    <3>1. c =< b /\ b < c + Size[from]
      BY <2>0, <2>2, <1>1, <1>4
    <3>2. a + Size[hs[a]] =< c \/ c + Size[from] =< a
      BY <2>2
    <3>3. mmInfo'[a] = hs[a] /\ Size[hs[a]] \in Nat
      BY <2>0, <2>2, <1>3
    <3> QED
      BY <2>0, <3>1, <3>2, <3>3
  <2>3. CASE ~Old(a) /\ Old(b)
    <3>1. c =< a /\ a + Size[mmInfo'[a]] =< c + Size[from]
      BY <2>0, <2>3, <1>6
    <3>2. b + Size[hs[b]] =< c \/ c + Size[from] =< b
      BY <2>3
    <3>3. Size[hs[b]] \in Nat /\ Size[hs[b]] > 0
      BY <2>0, <2>3
    <3>4. Size[mmInfo'[a]] \in Nat /\ Size[from] \in Nat
      BY <2>0, <1>3
    <3> QED
      BY <2>0, <3>1, <3>2, <3>3, <3>4
  <2>4. CASE ~Old(a) /\ ~Old(b)
    <3>1. c =< a
      BY <2>0, <2>4, <1>6
    <3>2. PICK m \in to .. from - 1 : b = c + Size[m]
      BY <1>4, <2>0, <2>4, <3>1
    <3>3. CASE a = c
      BY <2>0, <3>2, <3>3, <1>3, <1>p
    <3>4. CASE a # c
      <4>1. PICK k \in to .. from - 1 : /\ a = c + Size[k]
                                       /\ a + Size[mmInfo'[a]] = c + Size[k] + Size[k]
        BY <1>4, <2>0, <2>4, <3>4
      <4>2. Size[k] < Size[m] /\ Size[k] \in Nat /\ Size[m] \in Nat
        BY <2>0, <3>2, <4>1, <1>1
      <4>3. k < m
        BY <4>2, <1>0, SizeFacts, BucketAssumption DEF Buckets
      <4> QED
        BY <3>2, <4>1, <4>3, <1>p
    <3> QED
      BY <3>3, <3>4
  <2> QED
    BY <2>1, <2>2, <2>3, <2>4
<1>8. NoOverlap'
  BY <1>3, <1>7 DEF NoOverlap, End, heads
<1> QED
  BY <1>2, <1>6, <1>8

-----------------------------------------------------------------------------
(* Free lists *)

\* FreeListsSound for one list s of bucket b, in a heap of blocks mm of types ty
SoundList(s, b, mm, ty) ==
  /\ s \in Seq(Nat)
  /\ \A i \in 1 .. Len(s) : s[i] \in DOMAIN mm /\ ty[s[i]] = "empty" /\ mm[s[i]] = b
  /\ \A i, j \in 1 .. Len(s) : s[i] = s[j] => i = j

\* stated of any lists and blocks, to be used before and after a step
LEMMA SoundLists ==
  ASSUME NEW bs \in [Buckets -> Seq(Nat)], NEW mm, NEW ty
  PROVE  (\A b \in Buckets :
            /\ \A a \in {bs[b][i] : i \in DOMAIN bs[b]} :
                 a \in DOMAIN mm /\ ty[a] = "empty" /\ mm[a] = b
            /\ \A i, j \in DOMAIN bs[b] : bs[b][i] = bs[b][j] => i = j)
         <=> \A b \in Buckets : SoundList(bs[b], b, mm, ty)
<1>1. \A b \in Buckets : /\ bs[b] \in Seq(Nat)
                         /\ DOMAIN bs[b] = 1 .. Len(bs[b])
  OBVIOUS
<1> DEFINE R(b) == {bs[b][i] : i \in DOMAIN bs[b]}
           Of(b) == /\ \A a \in R(b) : a \in DOMAIN mm /\ ty[a] = "empty" /\ mm[a] = b
                    /\ \A i, j \in DOMAIN bs[b] : bs[b][i] = bs[b][j] => i = j
<1>2. ASSUME NEW b \in Buckets
      PROVE  Of(b) <=> SoundList(bs[b], b, mm, ty)
  <2>1. \A a : a \in R(b) <=> \E i \in 1 .. Len(bs[b]) : a = bs[b][i]
    BY <1>1
  <2> HIDE DEF R
  <2>2. (\A a \in R(b) : a \in DOMAIN mm /\ ty[a] = "empty" /\ mm[a] = b)
        <=> \A i \in 1 .. Len(bs[b]) : /\ bs[b][i] \in DOMAIN mm
                                        /\ ty[bs[b][i]] = "empty" /\ mm[bs[b][i]] = b
    <3> DEFINE P(a) == a \in DOMAIN mm /\ ty[a] = "empty" /\ mm[a] = b
    <3> HIDE DEF P
    <3>1. (\A a \in R(b) : P(a)) <=> \A i \in 1 .. Len(bs[b]) : P(bs[b][i])
      BY <2>1, Zenon
    <3> QED
      BY <3>1, Zenon DEF P
  <2>3. Of(b) <=> /\ \A a \in R(b) : a \in DOMAIN mm /\ ty[a] = "empty" /\ mm[a] = b
                  /\ \A i, j \in 1 .. Len(bs[b]) : bs[b][i] = bs[b][j] => i = j
    BY <1>1, Zenon
  <2> HIDE DEF Of
  <2> QED
    BY <1>1, <2>2, <2>3, Zenon DEF SoundList
<1> HIDE DEF Of
<1>3. (\A b \in Buckets : Of(b)) <=> \A b \in Buckets : SoundList(bs[b], b, mm, ty)
  BY <1>2
<1> QED
  BY <1>3 DEF Of

\* FreeListsSound, list by list, of this state.
LEMMA SoundNow ==
  ASSUME buckets \in [Buckets -> Seq(Nat)]
  PROVE  FreeListsSound <=> \A b \in Buckets : SoundList(buckets[b], b, mmInfo, type)
BY SoundLists DEF FreeListsSound, Listed, heads

\* FreeListsSound, list by list, of the next state.
LEMMA SoundNext ==
  ASSUME buckets' \in [Buckets -> Seq(Nat)]
  PROVE  FreeListsSound' <=> \A b \in Buckets : SoundList(buckets'[b], b, mmInfo', type')
BY SoundLists DEF FreeListsSound, Listed, heads

\* Push puts one block before the others and adds nothing else.
LEMMA PushFacts ==
  ASSUME NEW s \in Seq(Nat), NEW a \in Nat
  PROVE  /\ Push(s, a) \in Seq(Nat)
         /\ Len(Push(s, a)) = Len(s) + 1
         /\ Push(s, a)[1] = a
         /\ \A i \in 2 .. Len(s) + 1 : Push(s, a)[i] = s[i - 1]
BY DEF Push

\* Taking the first element off a list keeps the others in their order.
LEMMA TailFacts ==
  ASSUME NEW s \in Seq(Nat), s # << >>
  PROVE  /\ Tail(s) \in Seq(Nat)
         /\ Len(s) \in Nat /\ Len(s) > 0
         /\ Head(s) = s[1] /\ Head(s) \in Nat
         /\ Len(Tail(s)) = Len(s) - 1
         /\ \A i \in 1 .. Len(s) - 1 : Tail(s)[i] = s[i + 1]
OBVIOUS

\* A list stays sound when its blocks stay as they are.
LEMMA SoundKept ==
  ASSUME NEW s, NEW b, NEW mm, NEW ty, NEW mm2, NEW ty2,
         SoundList(s, b, mm, ty),
         \A i \in 1 .. Len(s) : /\ s[i] \in DOMAIN mm2
                                /\ ty2[s[i]] = "empty"
                                /\ mm2[s[i]] = mm[s[i]]
  PROVE  SoundList(s, b, mm2, ty2)
BY DEF SoundList

\* Pushing an empty block of the list's bucket that is not on it keeps it sound.
LEMMA SoundPush ==
  ASSUME NEW s, NEW b, NEW mm, NEW ty, NEW a \in Nat,
         SoundList(s, b, mm, ty),
         a \in DOMAIN mm, ty[a] = "empty", mm[a] = b,
         \A i \in 1 .. Len(s) : s[i] # a
  PROVE  SoundList(Push(s, a), b, mm, ty)
<1> DEFINE t == Push(s, a)
<1>0. s \in Seq(Nat) /\ Len(s) \in Nat
  BY DEF SoundList
<1>1. /\ t \in Seq(Nat) /\ Len(t) = Len(s) + 1 /\ t[1] = a
      /\ \A i \in 2 .. Len(s) + 1 : t[i] = s[i - 1]
  BY <1>0, PushFacts
<1> HIDE DEF t
<1>2. \A i \in 1 .. Len(t) : i = 1 \/ (i - 1 \in 1 .. Len(s) /\ t[i] = s[i - 1])
  BY <1>0, <1>1
<1>3. ASSUME NEW i \in 1 .. Len(t)
      PROVE  t[i] \in DOMAIN mm /\ ty[t[i]] = "empty" /\ mm[t[i]] = b
  <2>1. CASE t[i] = a
    BY <2>1
  <2>2. CASE i - 1 \in 1 .. Len(s) /\ t[i] = s[i - 1]
    BY <2>2 DEF SoundList
  <2> QED
    BY <1>1, <1>2, <2>1, <2>2
<1>4. ASSUME NEW i \in 1 .. Len(t), NEW j \in 1 .. Len(t), t[i] = t[j]
      PROVE  i = j
  <2>1. CASE i = 1 /\ j = 1
    BY <2>1
  <2>2. CASE i # 1 /\ j # 1
    <3>1. s[i - 1] = s[j - 1] /\ i - 1 \in 1 .. Len(s) /\ j - 1 \in 1 .. Len(s)
      BY <1>2, <1>4, <2>2
    <3>2. i - 1 = j - 1
      BY <3>1 DEF SoundList
    <3> QED
      BY <3>2, <1>0, <1>1
  <2>3. CASE (i = 1) # (j = 1)
    BY <1>1, <1>2, <1>4, <2>3
  <2> QED
    BY <2>1, <2>2, <2>3
<1> QED
  BY <1>1, <1>3, <1>4 DEF SoundList, t

\* Taking the first block off a list leaves it sound and the block not on it.
LEMMA SoundPop ==
  ASSUME NEW s, NEW b, NEW mm, NEW ty, s # << >>,
         SoundList(s, b, mm, ty)
  PROVE  /\ SoundList(Tail(s), b, mm, ty)
         /\ Head(s) \in DOMAIN mm /\ Head(s) \in Nat
         /\ ty[Head(s)] = "empty" /\ mm[Head(s)] = b
         /\ \A i \in 1 .. Len(Tail(s)) : /\ Tail(s)[i] # Head(s)
                                         /\ \E j \in 1 .. Len(s) : Tail(s)[i] = s[j]
<1>0. s \in Seq(Nat)
  BY DEF SoundList
<1>1. /\ Tail(s) \in Seq(Nat)
      /\ Len(s) \in Nat /\ Len(s) > 0
      /\ Head(s) = s[1] /\ Head(s) \in Nat
      /\ Len(Tail(s)) = Len(s) - 1
      /\ \A i \in 1 .. Len(s) - 1 : Tail(s)[i] = s[i + 1]
  BY <1>0, TailFacts
<1> DEFINE t == Tail(s)
<1> HIDE DEF t
<1>2. \A i \in 1 .. Len(t) : i + 1 \in 1 .. Len(s) /\ t[i] = s[i + 1] /\ i + 1 # 1
  BY <1>1 DEF t
<1>3. 1 \in 1 .. Len(s)
  BY <1>1
<1>4. \A i \in 1 .. Len(t) : t[i] \in DOMAIN mm /\ ty[t[i]] = "empty" /\ mm[t[i]] = b
  BY <1>2 DEF SoundList
<1>5. ASSUME NEW i \in 1 .. Len(t), NEW j \in 1 .. Len(t), t[i] = t[j]
      PROVE  i = j
  <2>1. i + 1 = j + 1
    BY <1>2, <1>5 DEF SoundList
  <2> QED
    BY <2>1, <1>1 DEF t
<1>6. \A i \in 1 .. Len(t) : t[i] # s[1]
  BY <1>2, <1>3 DEF SoundList
<1>7. SoundList(t, b, mm, ty)
  BY <1>1, <1>4, <1>5 DEF SoundList, t
<1>8. s[1] \in DOMAIN mm /\ ty[s[1]] = "empty" /\ mm[s[1]] = b
  BY <1>3 DEF SoundList
<1> QED
  BY <1>1, <1>2, <1>6, <1>7, <1>8 DEF t

-----------------------------------------------------------------------------
(* The invariant, initially and across the steps *)

\* The empty heap satisfies the invariant.
LEMMA InitInv == Init => IInv
<1> SUFFICES ASSUME Init PROVE IInv
  OBVIOUS
<1>1. heads = {} /\ Arenas = {} /\ al = << >>
  BY DEF Init, heads, Arenas
<1>2. \A b \in Buckets : buckets[b] = << >>
  BY DEF Init
<1>3. TypeOK
  <2>1. mmInfo \in [heads -> Buckets] /\ heads \subseteq Nat /\ type \in [heads -> Types]
    BY <1>1 DEF Init, heads
  <2>2. buckets \in [Buckets -> Seq(Nat)] /\ ctrs \in [Buckets -> Int]
    BY DEF Init
  <2>3. al \in Seq([p : Nat, sz : Nat])
    BY <1>1
  <2>4. req \in Buckets /\ gcDepth \in {0, 1}
    BY BucketAssumption, HeapAssumption DEF Init, Buckets
  <2>5. scan \in [arena : Nat, at : Nat, empty : Nat]
    BY DEF Init, NoScan
  <2> QED
    BY <2>1, <2>2, <2>3, <2>4, <2>5 DEF Init, TypeOK, HeapTypes, CallTypes, PCs, Causes
<1>4. NoOverlap /\ BlocksInArenas /\ ArenasApart /\ Tiled
  BY <1>1 DEF NoOverlap, BlocksInArenas, ArenasApart, Tiled, Gap, Init
<1>5. ScanOK /\ ListsBehind
  BY DEF Init, ScanOK, ListsBehind
<1>6. FreeListsSound
  BY <1>2 DEF FreeListsSound, Listed
<1> QED
  BY <1>3, <1>4, <1>5, <1>6 DEF IInv

\* A step outside the merge that moves no block and no arena.
LEMMA QuietLayout ==
  ASSUME IInv, UNCHANGED <<mmInfo, al>>, ~Merging, ~Merging'
  PROVE  NoOverlap' /\ BlocksInArenas' /\ ArenasApart' /\ Tiled' /\ ScanOK' /\ ListsBehind'
<1>1. heads' = heads /\ Arenas' = Arenas
  BY DEF heads, Arenas
<1>2. pc # "carve" /\ pc' # "carve"
  BY DEF Merging
<1>3. NoOverlap'
  BY <1>1 DEF IInv, NoOverlap, End
<1>4. BlocksInArenas' /\ ArenasApart'
  BY <1>1 DEF IInv, BlocksInArenas, ArenasApart, End, ArenaEnd
<1>5. Tiled'
  BY <1>1, <1>2 DEF IInv, Tiled, Gap, End, ArenaEnd
<1>6. ScanOK' /\ ListsBehind'
  BY DEF Merging, ScanOK, ListsBehind
<1> QED
  BY <1>3, <1>4, <1>5, <1>6

\* mm_free and the collector's use of it
LEMMA FreeLinkStep ==
  ASSUME IInv, NEW a \in heads, FreeLink(a)
  PROVE  /\ mmInfo' \in [heads' -> Buckets] /\ heads' \subseteq Nat
         /\ type' \in [heads' -> Types]
         /\ buckets' \in [Buckets -> Seq(Nat)]
         /\ ctrs' \in [Buckets -> Int]
         /\ FreeListsSound'
<1>0. TypeOK /\ FreeListsSound
  BY DEF IInv
<1>1. heads' = heads /\ mmInfo' = mmInfo /\ a \in Nat /\ mmInfo[a] \in Buckets
  BY <1>0 DEF FreeLink, Uncount, heads, TypeOK, HeapTypes, CallTypes
<1>2. type' = [type EXCEPT ![a] = "empty"] /\ type[a] # "empty"
  BY DEF FreeLink
<1>3. buckets' = [buckets EXCEPT ![mmInfo[a]] = Push(buckets[mmInfo[a]], a)]
  BY DEF FreeLink
<1>4. \A b \in Buckets : SoundList(buckets[b], b, mmInfo, type)
  BY <1>0, SoundNow DEF TypeOK, HeapTypes, CallTypes
<1>5. type' \in [heads' -> Types] /\ type' \in [heads -> Types]
  BY <1>0, <1>1, <1>2 DEF TypeOK, HeapTypes, CallTypes, Types
<1>6. Push(buckets[mmInfo[a]], a) \in Seq(Nat)
  BY <1>0, <1>1, PushFacts DEF TypeOK, HeapTypes, CallTypes
<1>7. buckets' \in [Buckets -> Seq(Nat)]
  BY <1>0, <1>3, <1>6 DEF TypeOK, HeapTypes, CallTypes
<1>8. ctrs' \in [Buckets -> Int]
  BY <1>0, <1>1 DEF FreeLink, Uncount, TypeOK, HeapTypes, CallTypes
<1>9. ASSUME NEW b \in Buckets
      PROVE  SoundList(buckets'[b], b, mmInfo', type')
  <2>1. \A i \in 1 .. Len(buckets[b]) : /\ buckets[b][i] # a
                                        /\ type'[buckets[b][i]] = "empty"
                                        /\ buckets[b][i] \in DOMAIN mmInfo'
    <3>1. SUFFICES ASSUME NEW i \in 1 .. Len(buckets[b])
                   PROVE  /\ buckets[b][i] # a
                          /\ type'[buckets[b][i]] = "empty"
                          /\ buckets[b][i] \in DOMAIN mmInfo'
      OBVIOUS
    <3>2. buckets[b][i] \in heads /\ type[buckets[b][i]] = "empty"
      BY <1>4 DEF SoundList, heads
    <3>3. type \in [heads -> Types]
      BY <1>0 DEF TypeOK, HeapTypes
    <3> QED
      BY <1>1, <1>2, <3>2, <3>3 DEF heads
  <2>2. SoundList(buckets[b], b, mmInfo', type')
    BY <1>1, <1>4, <2>1, SoundKept
  <2>3. CASE b = mmInfo[a]
    <3>1. a \in DOMAIN mmInfo' /\ type'[a] = "empty" /\ mmInfo'[a] = b
      BY <1>0, <1>1, <1>2, <2>3 DEF TypeOK, HeapTypes, CallTypes, heads
    <3>2. SoundList(Push(buckets[b], a), b, mmInfo', type')
      BY <1>1, <2>1, <2>2, <3>1, SoundPush
    <3> QED
      BY <1>0, <1>1, <1>3, <2>3, <3>2 DEF TypeOK, HeapTypes, CallTypes
  <2>4. CASE b # mmInfo[a]
    BY <1>0, <1>3, <2>2, <2>4 DEF TypeOK, HeapTypes, CallTypes
  <2> QED
    BY <2>3, <2>4
<1>10. FreeListsSound'
  BY <1>7, <1>9, SoundNext
<1> QED
  BY <1>0, <1>1, <1>5, <1>7, <1>8, <1>10 DEF TypeOK, HeapTypes, CallTypes

\* taking the first block of the requested list
LEMMA AllocLStep ==
  ASSUME IInv, AllocL
  PROVE  /\ type' \in [heads' -> Types]
         /\ buckets' \in [Buckets -> Seq(Nat)]
         /\ ctrs' \in [Buckets -> Int]
         /\ FreeListsSound'
<1>0. TypeOK /\ FreeListsSound /\ req \in Buckets
  BY DEF IInv, TypeOK, HeapTypes, CallTypes
<1> DEFINE h == Head(buckets[req])
<1>1. /\ heads' = heads /\ mmInfo' = mmInfo
      /\ buckets[req] # << >>
      /\ buckets' = [buckets EXCEPT ![req] = Tail(buckets[req])]
      /\ type' = [type EXCEPT ![h] = "used"]
      /\ ctrs' = [ctrs EXCEPT ![req] = ctrs[req] + 1]
  BY DEF AllocL, heads
<1>2. \A b \in Buckets : SoundList(buckets[b], b, mmInfo, type)
  BY <1>0, SoundNow DEF TypeOK, HeapTypes, CallTypes
<1>3. /\ SoundList(Tail(buckets[req]), req, mmInfo, type)
      /\ h \in heads /\ mmInfo[h] = req
      /\ \A i \in 1 .. Len(Tail(buckets[req])) : Tail(buckets[req])[i] # h
  BY <1>0, <1>1, <1>2, SoundPop DEF heads
<1> HIDE DEF h
<1>4. type' \in [heads -> Types]
  BY <1>0, <1>1 DEF TypeOK, HeapTypes, CallTypes, Types
<1>5. Tail(buckets[req]) \in Seq(Nat)
  BY <1>3 DEF SoundList
<1>6. buckets' \in [Buckets -> Seq(Nat)]
  BY <1>0, <1>1, <1>5 DEF TypeOK, HeapTypes, CallTypes
<1>7. ctrs' \in [Buckets -> Int]
  BY <1>0, <1>1 DEF TypeOK, HeapTypes, CallTypes
<1>8. ASSUME NEW b \in Buckets
      PROVE  SoundList(buckets'[b], b, mmInfo', type')
  <2>1. SoundList(buckets'[b], b, mmInfo, type)
    BY <1>0, <1>1, <1>2, <1>3 DEF TypeOK, HeapTypes, CallTypes
  <2>2. \A i \in 1 .. Len(buckets'[b]) : buckets'[b][i] # h
    <3>1. CASE b = req
      BY <3>1, <1>0, <1>1, <1>3 DEF TypeOK, HeapTypes, CallTypes
    <3>2. CASE b # req
      BY <3>2, <2>1, <1>3 DEF SoundList
    <3> QED
      BY <3>1, <3>2
  <2>3. \A i \in 1 .. Len(buckets'[b]) : /\ buckets'[b][i] \in DOMAIN mmInfo'
                                         /\ type'[buckets'[b][i]] = "empty"
                                         /\ mmInfo'[buckets'[b][i]] = mmInfo[buckets'[b][i]]
    BY <2>1, <2>2, <1>0, <1>1 DEF SoundList, TypeOK, HeapTypes, CallTypes, heads
  <2> QED
    BY <2>1, <2>3, SoundKept
<1>9. FreeListsSound'
  BY <1>6, <1>8, SoundNext
<1> QED
  BY <1>1, <1>4, <1>6, <1>7, <1>9

\* The lists after a split: every cut-off half is new on its list.
LEMMA SplitLists ==
  ASSUME NEW c \in Nat, NEW from \in Buckets, NEW to \in Buckets, to =< from,
         NEW hs, NEW ts, NEW old,
         hs \in [DOMAIN hs -> Buckets], DOMAIN hs \subseteq Nat,
         ts \in [DOMAIN hs -> Types],
         Halves(c, from, to) \cap DOMAIN hs = {},
         old \in [Buckets -> Seq(Nat)],
         \A b \in Buckets : SoundList(old[b], b, hs, ts),
         \A b \in Buckets : \A i \in 1 .. Len(old[b]) : old[b][i] # c,
         SplitAndTake(c, from, to, old, hs, ts)
  PROVE  /\ buckets' \in [Buckets -> Seq(Nat)]
         /\ FreeListsSound'
<1>1. /\ \A a \in DOMAIN hs : a # c => mmInfo'[a] = hs[a] /\ type'[a] = ts[a]
      /\ \A k \in to .. from - 1 : /\ c + Size[k] \in heads'
                                   /\ mmInfo'[c + Size[k]] = k
                                   /\ type'[c + Size[k]] = "empty"
      /\ DOMAIN hs \subseteq heads'
      /\ heads' \subseteq Nat
  <2>1. /\ heads' = DOMAIN hs \cup Halves(c, from, to) \cup {c}
        /\ heads' \subseteq Nat
        /\ \A a \in DOMAIN hs : a # c => mmInfo'[a] = hs[a] /\ type'[a] = ts[a]
        /\ \A k \in to .. from - 1 : /\ c + Size[k] \in heads'
                                     /\ mmInfo'[c + Size[k]] = k
                                     /\ type'[c + Size[k]] = "empty"
    BY ONLY SplitShape, c \in Nat, from \in Buckets, to \in Buckets, to =< from,
            hs \in [DOMAIN hs -> Buckets], DOMAIN hs \subseteq Nat,
            ts \in [DOMAIN hs -> Types], Halves(c, from, to) \cap DOMAIN hs = {},
            SplitAndTake(c, from, to, old, hs, ts)
  <2> QED
    BY <2>1
<1>2. buckets' = [k \in Buckets |-> IF k \in to .. from - 1
                                    THEN Push(old[k], c + Size[k])
                                    ELSE old[k]]
  BY DEF SplitAndTake
<1>3. ASSUME NEW b \in Buckets
      PROVE  /\ buckets'[b] \in Seq(Nat)
             /\ SoundList(buckets'[b], b, mmInfo', type')
  <2>1. \A i \in 1 .. Len(old[b]) : old[b][i] \in DOMAIN hs /\ old[b][i] # c
    BY DEF SoundList
  <2>2. SoundList(old[b], b, mmInfo', type')
    <3>1. \A i \in 1 .. Len(old[b]) : /\ old[b][i] \in DOMAIN mmInfo'
                                      /\ type'[old[b][i]] = "empty"
                                      /\ mmInfo'[old[b][i]] = hs[old[b][i]]
      BY <1>1, <2>1 DEF SoundList, heads
    <3>2. SoundList(old[b], b, hs, ts)
      OBVIOUS
    <3> QED
      BY <3>1, <3>2, SoundKept
  <2>3. CASE b \in to .. from - 1
    <3>1. c + Size[b] \in heads' /\ mmInfo'[c + Size[b]] = b /\ type'[c + Size[b]] = "empty"
      BY <1>1, <2>3
    <3>2. c + Size[b] \notin DOMAIN hs
      BY <2>3 DEF Halves
    <3>3. \A i \in 1 .. Len(old[b]) : old[b][i] # c + Size[b]
      BY <2>1, <3>2
    <3>4. c + Size[b] \in Nat /\ c + Size[b] \in DOMAIN mmInfo'
      BY <1>1, <3>1 DEF heads
    <3>5. SoundList(Push(old[b], c + Size[b]), b, mmInfo', type')
      BY <2>2, <3>1, <3>3, <3>4, SoundPush
    <3>6. buckets'[b] = Push(old[b], c + Size[b])
      BY <1>2, <2>3
    <3> QED
      BY <3>5, <3>6 DEF SoundList
  <2>4. CASE b \notin to .. from - 1
    BY <1>2, <2>2, <2>4 DEF SoundList
  <2> QED
    BY <2>3, <2>4
<1>4. buckets' \in [Buckets -> Seq(Nat)]
  BY <1>2, <1>3
<1> QED
  BY <1>3, <1>4, SoundNext

\* The start, size and end of an arena are numbers.
LEMMA ArenaTypes ==
  ASSUME TypeOK
  PROVE  \A i \in Arenas : al[i].p \in Nat /\ al[i].sz \in Nat /\ ArenaEnd(i) \in Nat
<1> DEFINE Arena == [p : Nat, sz : Nat]
<1>1. al \in Seq(Arena)
  BY DEF TypeOK, HeapTypes, CallTypes
<1> HIDE DEF Arena
<1>2. \A i \in Arenas : al[i] \in Arena
  BY <1>1 DEF Arenas
<1> QED
  BY <1>2 DEF ArenaEnd, Arena

\* allocS, splitting a larger block, preserves the layout and the lists.
LEMMA AllocSStep ==
  ASSUME IInv, AllocS
  PROVE  /\ mmInfo' \in [heads' -> Buckets] /\ heads' \subseteq Nat
         /\ type' \in [heads' -> Types]
         /\ buckets' \in [Buckets -> Seq(Nat)]
         /\ ctrs' \in [Buckets -> Int]
         /\ FreeListsSound' /\ NoOverlap' /\ BlocksInArenas' /\ Tiled'
<1>0. TypeOK /\ FreeListsSound /\ NoOverlap /\ BlocksInArenas /\ Tiled /\ req \in Buckets
  BY DEF IInv, TypeOK, HeapTypes, CallTypes
<1>1. PICK from \in Buckets :
        /\ SplitSource(from)
        /\ SplitAndTake(Head(buckets[from]), from, req,
                        [buckets EXCEPT ![from] = Tail(buckets[from])], mmInfo, type)
  BY DEF AllocS
<1> DEFINE c == Head(buckets[from])
           old == [buckets EXCEPT ![from] = Tail(buckets[from])]
<1>2. buckets[from] # << >> /\ req =< from
  BY <1>0, <1>1, BucketAssumption DEF SplitSource, Buckets
<1>3. \A b \in Buckets : SoundList(buckets[b], b, mmInfo, type)
  BY <1>0, SoundNow DEF TypeOK, HeapTypes, CallTypes
<1>4. /\ SoundList(Tail(buckets[from]), from, mmInfo, type)
      /\ c \in heads /\ c \in Nat /\ mmInfo[c] = from /\ type[c] = "empty"
      /\ \A i \in 1 .. Len(Tail(buckets[from])) : Tail(buckets[from])[i] # c
  BY <1>2, <1>3, SoundPop DEF heads
<1> HIDE DEF c
<1>5. SplitAndTake(c, from, req, old, mmInfo, type)
  BY <1>1 DEF c
<1>6. /\ mmInfo \in [DOMAIN mmInfo -> Buckets] /\ DOMAIN mmInfo \subseteq Nat
      /\ type \in [DOMAIN mmInfo -> Types]
  BY <1>0 DEF TypeOK, HeapTypes, CallTypes, heads
<1>7. \A a, b \in DOMAIN mmInfo : a < b => a + Size[mmInfo[a]] =< b
  BY <1>0 DEF NoOverlap, heads, End
<1>8. \A a \in DOMAIN mmInfo : \/ a = c
                               \/ a + Size[mmInfo[a]] =< c
                               \/ c + Size[from] =< a
  BY <1>4, <1>6, <1>7 DEF heads
<1>9. /\ Halves(c, from, req) \cap DOMAIN mmInfo = {}
      /\ NoOverlap'
      /\ \A a \in heads' : \/ a \in heads \ {c} /\ a + Size[mmInfo'[a]] = a + Size[mmInfo[a]]
                           \/ /\ c =< a /\ a + Size[mmInfo'[a]] =< c + Size[from]
                              /\ \/ a + Size[mmInfo'[a]] \in heads'
                                 \/ a + Size[mmInfo'[a]] = c + Size[from]
  <2> HIDE DEF old
  <2> QED
    BY <1>0, <1>2, <1>4, <1>5, <1>6, <1>7, <1>8, SplitLayout DEF heads
<1>h. c \in Nat /\ req \in Buckets /\ req =< from
  BY <1>0, <1>2, <1>4
<1>n. Halves(c, from, req) \cap DOMAIN mmInfo = {}
  BY <1>9
<1>10. /\ mmInfo' \in [heads' -> Buckets] /\ heads' \subseteq Nat
       /\ type' \in [heads' -> Types]
       /\ heads \subseteq heads'
  <2> HIDE DEF old
  <2>1. /\ heads' = DOMAIN mmInfo \cup Halves(c, from, req) \cup {c}
        /\ heads' \subseteq Nat
        /\ mmInfo' \in [heads' -> Buckets]
        /\ type' \in [heads' -> Types]
    BY <1>h, <1>n, <1>5, <1>6, SplitShape
  <2> QED
    BY <2>1 DEF heads
<1>11. old \in [Buckets -> Seq(Nat)]
  BY <1>0, <1>4 DEF TypeOK, HeapTypes, CallTypes, SoundList
<1>12. ASSUME NEW b \in Buckets
       PROVE  /\ SoundList(old[b], b, mmInfo, type)
              /\ \A i \in 1 .. Len(old[b]) : old[b][i] # c
  <2>1. CASE b = from
    BY <2>1, <1>0, <1>4 DEF TypeOK, HeapTypes, CallTypes
  <2>2. CASE b # from
    <3>1. old[b] = buckets[b] /\ SoundList(buckets[b], b, mmInfo, type)
      BY <2>2, <1>0, <1>3 DEF TypeOK, HeapTypes, CallTypes
    <3> QED
      BY <3>1, <2>2, <1>4 DEF SoundList
  <2> QED
    BY <2>1, <2>2
<1> HIDE DEF old
<1>l. /\ \A b \in Buckets : SoundList(old[b], b, mmInfo, type)
      /\ \A b \in Buckets : \A i \in 1 .. Len(old[b]) : old[b][i] # c
  BY <1>12
<1>13. buckets' \in [Buckets -> Seq(Nat)] /\ FreeListsSound'
  BY <1>h, <1>n, <1>l, <1>5, <1>6, <1>11, SplitLists
<1>14. ctrs' \in [Buckets -> Int]
  BY <1>0, <1>5 DEF SplitAndTake, TypeOK, HeapTypes, CallTypes
<1>15. al' = al /\ Arenas' = Arenas /\ pc # "carve" /\ pc' # "carve"
  BY DEF AllocS, arenaVars, Arenas, Return, Over
<1>16. \A a \in heads : Size[mmInfo[a]] \in Nat
  BY <1>6, SizeFacts DEF heads
<1>17. ASSUME NEW a \in heads'
       PROVE  \E i \in Arenas : al[i].p =< a /\ a + Size[mmInfo'[a]] =< ArenaEnd(i)
  <2>1. CASE a \in heads \ {c} /\ a + Size[mmInfo'[a]] = a + Size[mmInfo[a]]
    BY <2>1, <1>0 DEF BlocksInArenas, End
  <2>2. CASE c =< a /\ a + Size[mmInfo'[a]] =< c + Size[from]
    <3>1. PICK i \in Arenas : al[i].p =< c /\ c + Size[from] =< ArenaEnd(i)
      BY <1>0, <1>4 DEF BlocksInArenas, End
    <3>2. al[i].p \in Nat /\ ArenaEnd(i) \in Nat
      BY <1>0, ArenaTypes
    <3>3. a \in Nat /\ Size[mmInfo'[a]] \in Nat /\ Size[from] \in Nat
      BY <1>10, <1>17, SizeFacts
    <3> QED
      BY <2>2, <3>1, <3>2, <3>3, <1>h
  <2> QED
    BY <1>9, <1>17, <2>1, <2>2
<1>18. BlocksInArenas'
  BY <1>15, <1>17 DEF BlocksInArenas, End, ArenaEnd
<1>19. ASSUME NEW a \in heads'
       PROVE  \/ a + Size[mmInfo'[a]] \in heads'
              \/ \E i \in Arenas : a + Size[mmInfo'[a]] = ArenaEnd(i)
  <2>1. \A x \in heads : \/ x + Size[mmInfo[x]] \in heads'
                         \/ \E i \in Arenas : x + Size[mmInfo[x]] = ArenaEnd(i)
    BY <1>0, <1>10, <1>15 DEF Tiled, Gap, End
  <2> QED
    BY <2>1, <1>4, <1>9, <1>19
<1>20. Tiled'
  BY <1>0, <1>10, <1>15, <1>19 DEF Tiled, Gap, End, ArenaEnd
<1> QED
  BY <1>9, <1>10, <1>13, <1>14, <1>18, <1>20

\* Appending an arena keeps the others and adds one.
LEMMA AppendArena ==
  ASSUME TypeOK, NEW p \in Nat, NEW sz \in Nat,
         al' = Append(al, [p |-> p, sz |-> sz])
  PROVE  /\ al' \in Seq([p : Nat, sz : Nat])
         /\ Len(al) + 1 \in Arenas' /\ Len(al) + 1 \notin Arenas
         /\ Arenas' = Arenas \cup {Len(al) + 1}
         /\ \A i \in Arenas : al'[i] = al[i]
         /\ al'[Len(al) + 1].p = p /\ al'[Len(al) + 1].sz = sz
<1> DEFINE Arena == [p : Nat, sz : Nat]
           new == [p |-> p, sz |-> sz]
<1>1. al \in Seq(Arena)
  BY DEF TypeOK, HeapTypes, CallTypes
<1>2. new \in Arena /\ new.p = p /\ new.sz = sz
  OBVIOUS
<1> HIDE DEF Arena, new
<1>3. al' = Append(al, new)
  BY DEF new
<1>4. /\ al' \in Seq(Arena) /\ Len(al) \in Nat
      /\ DOMAIN al = 1 .. Len(al) /\ DOMAIN al' = 1 .. Len(al) + 1
      /\ \A i \in 1 .. Len(al) : al'[i] = al[i]
      /\ al'[Len(al) + 1] = new
  BY <1>1, <1>2, <1>3
<1>5. Arenas = 1 .. Len(al) /\ Arenas' = 1 .. Len(al) + 1
  BY <1>4 DEF Arenas
<1> QED
  BY <1>2, <1>4, <1>5 DEF Arena

\* allocateMore, obtaining an arena and splitting it, preserves them.
LEMMA MmapStep ==
  ASSUME IInv, NEW p \in Bases, Mmap(p)
  PROVE  /\ mmInfo' \in [heads' -> Buckets] /\ heads' \subseteq Nat
         /\ type' \in [heads' -> Types]
         /\ buckets' \in [Buckets -> Seq(Nat)]
         /\ ctrs' \in [Buckets -> Int]
         /\ al' \in Seq([p : Nat, sz : Nat]) /\ heapAlloc' \in Nat
         /\ FreeListsSound' /\ NoOverlap' /\ BlocksInArenas' /\ ArenasApart' /\ Tiled'
<1> DEFINE from == ArenaBucket
           sz == Size[from]
<1>0. /\ TypeOK /\ FreeListsSound /\ NoOverlap /\ BlocksInArenas /\ ArenasApart
      /\ Tiled /\ req \in Buckets
  BY DEF IInv, TypeOK, HeapTypes, CallTypes
<1>1. /\ Fresh(p, sz)
      /\ al' = Append(al, [p |-> p, sz |-> sz])
      /\ heapAlloc' = heapAlloc + sz
      /\ SplitAndTake(p, from, req, buckets, mmInfo, type)
      /\ pc # "carve" /\ pc' # "carve"
  BY DEF Mmap, NeedMore, Return, Over
<1>2. from \in Buckets /\ req =< from
  BY <1>0, BucketAssumption DEF ArenaBucket, Buckets
<1> HIDE DEF from
<1>3. p \in Nat /\ sz \in Nat /\ sz > 0
  BY <1>2, HeapAssumption, SizeFacts
<1> HIDE DEF sz
<1>n. PICK n : n = Len(al) + 1
  OBVIOUS
<1>4. /\ al' \in Seq([p : Nat, sz : Nat])
      /\ n \in Arenas' /\ n \notin Arenas
      /\ Arenas' = Arenas \cup {n}
      /\ \A i \in Arenas : al'[i] = al[i]
      /\ al'[n].p = p /\ al'[n].sz = sz
  BY <1>0, <1>1, <1>3, <1>n, AppendArena
<1>5. \A i \in Arenas : al[i].p \in Nat /\ al[i].sz \in Nat /\ ArenaEnd(i) \in Nat
  BY <1>0, ArenaTypes
<1>6. \A i \in Arenas : p + sz < al[i].p \/ ArenaEnd(i) < p
  BY <1>1 DEF Fresh, Arenas
<1>7. /\ mmInfo \in [DOMAIN mmInfo -> Buckets] /\ DOMAIN mmInfo \subseteq Nat
      /\ type \in [DOMAIN mmInfo -> Types]
  BY <1>0 DEF TypeOK, HeapTypes, CallTypes, heads
<1>8. ASSUME NEW a \in heads
      PROVE  /\ a \in Nat /\ Size[mmInfo[a]] \in Nat /\ Size[mmInfo[a]] > 0
             /\ a + Size[mmInfo[a]] < p \/ p + sz < a
  <2>1. a \in Nat /\ Size[mmInfo[a]] \in Nat /\ Size[mmInfo[a]] > 0
    BY <1>7, <1>8, SizeFacts DEF heads
  <2>2. PICK i \in Arenas : al[i].p =< a /\ a + Size[mmInfo[a]] =< ArenaEnd(i)
    BY <1>0, <1>8 DEF BlocksInArenas, End
  <2> QED
    BY <1>3, <1>5, <1>6, <2>1, <2>2
<1>9. p \notin heads
  BY <1>3, <1>8
<1>10. \A a, b \in DOMAIN mmInfo : a < b => a + Size[mmInfo[a]] =< b
  BY <1>0 DEF NoOverlap, heads, End
<1>11. \A a \in DOMAIN mmInfo : \/ a = p
                                \/ a + Size[mmInfo[a]] =< p
                                \/ p + Size[from] =< a
  BY <1>3, <1>8 DEF heads, sz
<1>12. /\ Halves(p, from, req) \cap DOMAIN mmInfo = {}
       /\ NoOverlap'
       /\ \A a \in heads' :
            \/ a \in heads \ {p} /\ a + Size[mmInfo'[a]] = a + Size[mmInfo[a]]
            \/ /\ p =< a /\ a + Size[mmInfo'[a]] =< p + Size[from]
               /\ \/ a + Size[mmInfo'[a]] \in heads'
                  \/ a + Size[mmInfo'[a]] = p + Size[from]
  BY <1>0, <1>1, <1>2, <1>3, <1>7, <1>10, <1>11, SplitLayout DEF heads
<1>v. Halves(p, from, req) \cap DOMAIN mmInfo = {}
  BY <1>12
<1>s. SplitAndTake(p, from, req, buckets, mmInfo, type)
  BY <1>1
<1>13. /\ heads' = DOMAIN mmInfo \cup Halves(p, from, req) \cup {p}
       /\ heads' \subseteq Nat
       /\ mmInfo' \in [heads' -> Buckets]
       /\ type' \in [heads' -> Types]
  BY <1>0, <1>2, <1>3, <1>7, <1>v, <1>s, SplitShape
<1>14. heads \subseteq heads' /\ p \in heads'
  BY <1>13 DEF heads
<1>15. buckets \in [Buckets -> Seq(Nat)]
  BY <1>0 DEF TypeOK, HeapTypes, CallTypes
<1>16. \A b \in Buckets : SoundList(buckets[b], b, mmInfo, type)
  BY <1>0, <1>15, SoundNow
<1>17. \A b \in Buckets : \A i \in 1 .. Len(buckets[b]) : buckets[b][i] # p
  BY <1>9, <1>16 DEF SoundList, heads
<1>18. buckets' \in [Buckets -> Seq(Nat)] /\ FreeListsSound'
  BY <1>0, <1>2, <1>3, <1>7, <1>v, <1>s, <1>15, <1>16, <1>17, SplitLists
<1>19. ctrs' \in [Buckets -> Int] /\ heapAlloc' \in Nat
  BY <1>0, <1>1, <1>3 DEF SplitAndTake, TypeOK, HeapTypes, CallTypes
<1>20. /\ \A i \in Arenas : al'[i].p = al[i].p /\ ArenaEnd(i)' = ArenaEnd(i)
       /\ ArenaEnd(n)' = p + sz
  BY <1>4 DEF ArenaEnd
<1>21. ArenasApart'
  <2> SUFFICES ASSUME NEW i \in Arenas', NEW j \in Arenas', i # j
               PROVE  ArenaEnd(i)' < al'[j].p \/ ArenaEnd(j)' < al'[i].p
    BY DEF ArenasApart
  <2>1. CASE i \in Arenas /\ j \in Arenas
    BY <1>0, <1>20, <2>1 DEF ArenasApart
  <2>2. CASE i = n \/ j = n
    BY <1>4, <1>6, <1>20, <2>2
  <2> QED
    BY <1>4, <2>1, <2>2
<1>22. ASSUME NEW a \in heads'
       PROVE  \E i \in Arenas' : al'[i].p =< a /\ a + Size[mmInfo'[a]] =< ArenaEnd(i)'
  <2>1. CASE a \in heads \ {p} /\ a + Size[mmInfo'[a]] = a + Size[mmInfo[a]]
    <3>1. PICK i \in Arenas : al[i].p =< a /\ a + Size[mmInfo[a]] =< ArenaEnd(i)
      BY <1>0, <2>1 DEF BlocksInArenas, End
    <3> QED
      BY <1>4, <1>20, <2>1, <3>1
  <2>2. CASE p =< a /\ a + Size[mmInfo'[a]] =< p + Size[from]
    BY <1>4, <1>20, <2>2 DEF sz
  <2> QED
    BY <1>12, <1>22, <2>1, <2>2
<1>23. BlocksInArenas'
  BY <1>22 DEF BlocksInArenas, End
<1>24. ASSUME NEW a \in heads'
       PROVE  \/ a + Size[mmInfo'[a]] \in heads'
              \/ \E i \in Arenas' : a + Size[mmInfo'[a]] = ArenaEnd(i)'
  <2>1. CASE a \in heads \ {p} /\ a + Size[mmInfo'[a]] = a + Size[mmInfo[a]]
    <3>1. \/ a + Size[mmInfo[a]] \in heads
          \/ \E i \in Arenas : a + Size[mmInfo[a]] = ArenaEnd(i)
      BY <1>0, <1>1, <2>1 DEF Tiled, Gap, End
    <3> QED
      BY <1>4, <1>14, <1>20, <2>1, <3>1
  <2>2. CASE \/ a + Size[mmInfo'[a]] \in heads'
             \/ a + Size[mmInfo'[a]] = p + Size[from]
    BY <1>4, <1>20, <2>2 DEF sz
  <2> QED
    BY <1>12, <1>24, <2>1, <2>2
<1>25. \A i \in Arenas' : al'[i].p \in heads'
  BY <1>0, <1>1, <1>4, <1>14, <1>20 DEF Tiled, Gap
<1>26. Tiled'
  BY <1>1, <1>24, <1>25 DEF Tiled, Gap, End
<1> QED
  BY <1>4, <1>12, <1>13, <1>18, <1>19, <1>21, <1>23, <1>26

-----------------------------------------------------------------------------
(* The merge *)

\* what every step of the merge reads off the invariant
LEMMA HeapFacts ==
  ASSUME IInv
  PROVE  /\ TypeOK /\ NoOverlap /\ BlocksInArenas /\ ArenasApart /\ Tiled /\ FreeListsSound
         /\ \A a \in heads : /\ a \in Nat /\ mmInfo[a] \in Buckets
                             /\ Size[mmInfo[a]] \in Nat /\ Size[mmInfo[a]] > 0
                             /\ End(a) = a + Size[mmInfo[a]] /\ End(a) \in Nat /\ a < End(a)
         /\ \A i \in Arenas : al[i].p \in Nat /\ al[i].sz \in Nat /\ ArenaEnd(i) \in Nat
         /\ scan.arena \in Nat /\ scan.at \in Nat /\ scan.empty \in Nat
         /\ GapStart = scan.at - scan.empty /\ GapStart \in Int
         /\ \A b \in Buckets : SoundList(buckets[b], b, mmInfo, type)
<1>1. TypeOK /\ NoOverlap /\ BlocksInArenas /\ ArenasApart /\ Tiled /\ FreeListsSound
  BY DEF IInv
<1>2. ASSUME NEW a \in heads
      PROVE  /\ a \in Nat /\ mmInfo[a] \in Buckets
             /\ Size[mmInfo[a]] \in Nat /\ Size[mmInfo[a]] > 0
             /\ End(a) = a + Size[mmInfo[a]] /\ End(a) \in Nat /\ a < End(a)
  <2>1. a \in Nat /\ mmInfo[a] \in Buckets
    BY <1>1, <1>2 DEF TypeOK, HeapTypes, CallTypes
  <2>2. Size[mmInfo[a]] \in Nat /\ Size[mmInfo[a]] > 0
    BY <2>1, SizeFacts
  <2> QED
    BY <2>1, <2>2 DEF End
<1>3. scan.arena \in Nat /\ scan.at \in Nat /\ scan.empty \in Nat
  BY <1>1 DEF TypeOK, HeapTypes, CallTypes
<1>4. GapStart = scan.at - scan.empty /\ GapStart \in Int
  BY <1>3 DEF GapStart
<1>5. \A b \in Buckets : SoundList(buckets[b], b, mmInfo, type)
  BY <1>1, SoundNow DEF TypeOK, HeapTypes, CallTypes
<1> QED
  BY <1>1, <1>2, <1>3, <1>4, <1>5, ArenaTypes

\* No block reaches across the start of an arena, and a block that ends where
\* some arena ends lies in that arena.
LEMMA ArenaBorders ==
  ASSUME IInv, NEW i \in Arenas, NEW a \in heads
  PROVE  /\ End(a) =< al[i].p \/ al[i].p =< a
         /\ InArena(a, i) => End(a) =< ArenaEnd(i)
         /\ InArena(a, i) => \A j \in Arenas : End(a) = ArenaEnd(j) => i = j
<1>1. PICK k \in Arenas : al[k].p =< a /\ End(a) =< ArenaEnd(k)
  BY HeapFacts DEF BlocksInArenas
<1>2. \A j \in Arenas : j # k => ArenaEnd(j) < al[k].p \/ ArenaEnd(k) < al[j].p
  BY HeapFacts DEF ArenasApart
<1>3. /\ a \in Nat /\ End(a) \in Nat /\ a < End(a)
      /\ \A j \in Arenas : al[j].p \in Nat /\ ArenaEnd(j) \in Nat /\ al[j].p =< ArenaEnd(j)
  BY HeapFacts DEF ArenaEnd
<1>4. InArena(a, i) => i = k
  BY <1>1, <1>2, <1>3 DEF InArena
<1>5. End(a) =< al[i].p \/ al[i].p =< a
  BY <1>1, <1>2, <1>3
<1>6. \A j \in Arenas : End(a) = ArenaEnd(j) => j = k
  BY <1>1, <1>2, <1>3
<1> QED
  BY <1>1, <1>4, <1>5, <1>6

\* The block the cursor stands on ends in its arena, at a block or at the end.
LEMMA CursorBlock ==
  ASSUME IInv, pc = "merge", ~AtEnd
  PROVE  /\ scan.at \in heads /\ scan.arena \in Arenas
         /\ End(scan.at) =< ArenaEnd(scan.arena)
         /\ End(scan.at) \in heads \/ End(scan.at) = ArenaEnd(scan.arena)
<1>1. /\ scan.at \in heads /\ scan.arena \in Arenas
      /\ al[scan.arena].p =< GapStart /\ scan.empty =< scan.at
      /\ scan.at =< ArenaEnd(scan.arena)
  BY DEF IInv, ScanOK
<1>2. /\ scan.at \in Nat /\ scan.empty \in Nat /\ ArenaEnd(scan.arena) \in Nat
      /\ al[scan.arena].p \in Nat /\ GapStart = scan.at - scan.empty
  BY <1>1, HeapFacts
<1>3. InArena(scan.at, scan.arena)
  BY <1>1, <1>2 DEF InArena, AtEnd
<1>4. /\ End(scan.at) =< ArenaEnd(scan.arena)
      /\ \A j \in Arenas : End(scan.at) = ArenaEnd(j) => scan.arena = j
  BY <1>1, <1>3, ArenaBorders
<1>5. \/ End(scan.at) \in heads
      \/ \E j \in Arenas : End(scan.at) = ArenaEnd(j)
  BY <1>1, HeapFacts DEF Tiled, Gap
<1> QED
  BY <1>1, <1>4, <1>5

\* the walk starts an arena that no list reaches into
LEMMA StartArenaStep ==
  ASSUME IInv, NEW i \in Arenas, StartArena(i), pc' = "merge", ~Gap,
         UNCHANGED <<mmInfo, al>>,
         \A b \in Buckets : \A k \in DOMAIN buckets'[b] :
           \A j \in Arenas : j >= i => ~InArena(buckets'[b][k], j)
  PROVE  /\ scan' \in [arena : Nat, at : Nat, empty : Nat]
         /\ ScanOK' /\ ListsBehind'
<1>1. scan' = [arena |-> i, at |-> al[i].p, empty |-> 0]
  BY DEF StartArena
<1>2. /\ i \in Nat /\ al[i].p \in Nat /\ ArenaEnd(i) \in Nat /\ al[i].sz \in Nat
      /\ ArenaEnd(i) = al[i].p + al[i].sz
  <2>1. i \in Nat
    <3>1. al \in Seq([p : Nat, sz : Nat])
      BY HeapFacts DEF TypeOK, HeapTypes
    <3>2. Arenas = 1 .. Len(al) /\ Len(al) \in Nat
      BY <3>1 DEF Arenas
    <3> QED
      BY <3>2
  <2> QED
    BY <2>1, HeapFacts DEF ArenaEnd
<1>3. scan' \in [arena : Nat, at : Nat, empty : Nat]
  BY <1>1, <1>2
<1>4. /\ heads' = heads /\ Arenas' = Arenas /\ GapStart' = al[i].p
      /\ scan'.arena = i /\ scan'.at = al[i].p /\ scan'.empty = 0
  BY <1>1, <1>2 DEF heads, Arenas, GapStart
<1>5. al[i].p \in heads
  BY HeapFacts DEF Tiled
<1>6. \A a \in heads : End(a) =< al[i].p \/ al[i].p =< a
  BY ArenaBorders
<1>7. al'[scan'.arena].p = al[i].p /\ ArenaEnd(scan.arena)' = ArenaEnd(i)
  BY <1>4 DEF ArenaEnd
<1>8. ScanOK'
  BY <1>2, <1>4, <1>5, <1>6, <1>7 DEF ScanOK, End
<1>9. ListsBehind'
  <2>0. \A j \in Arenas : j > i => j >= i
    BY <1>2, HeapFacts DEF TypeOK, HeapTypes, CallTypes, Arenas
  <2>1. ASSUME NEW a, Ahead(a)'
        PROVE  \E j \in Arenas : j >= i /\ InArena(a, j)
    <3>1. CASE al[i].p =< a /\ a < ArenaEnd(i)
      BY <3>1, <1>2 DEF InArena
    <3>2. CASE \E j \in Arenas : j > i /\ InArena(a, j)
      BY <3>2, <2>0
    <3> QED
      BY <2>1, <3>1, <3>2, <1>4, <1>7 DEF Ahead, InArena, ArenaEnd
  <2> QED
    BY <2>1 DEF ListsBehind
<1> QED
  BY <1>3, <1>8, <1>9

\* The merge taking an empty or dead block into its run preserves the invariant.
LEMMA MergeEmptyStep ==
  ASSUME IInv, MergeEmpty
  PROVE  /\ type' \in [heads' -> Types] /\ ctrs' \in [Buckets -> Int]
         /\ scan' \in [arena : Nat, at : Nat, empty : Nat]
         /\ FreeListsSound' /\ NoOverlap' /\ BlocksInArenas' /\ ArenasApart' /\ Tiled'
         /\ ScanOK' /\ ListsBehind'
<1> DEFINE c == scan.at
<1>0. pc = "merge" /\ ~AtEnd /\ pc' = "merge"
  BY DEF MergeEmpty
<1>1. /\ c \in heads /\ scan.arena \in Arenas
      /\ End(c) =< ArenaEnd(scan.arena)
      /\ End(c) \in heads \/ End(c) = ArenaEnd(scan.arena)
  BY <1>0, CursorBlock
<1>2. /\ UNCHANGED <<mmInfo, al, buckets>> /\ heads' = heads /\ Arenas' = Arenas
      /\ type' = [type EXCEPT ![c] = "empty"]
      /\ scan' = [scan EXCEPT !.at = End(c), !.empty = scan.empty + Size[mmInfo[c]]]
  BY DEF MergeEmpty, arenaVars, heads, Arenas
<1>3. /\ scan'.arena = scan.arena /\ scan'.at = End(c)
      /\ scan'.empty = scan.empty + Size[mmInfo[c]]
      /\ scan' \in [arena : Nat, at : Nat, empty : Nat]
  <2>1. scan \in [arena : Nat, at : Nat, empty : Nat]
    BY HeapFacts DEF TypeOK, HeapTypes, CallTypes
  <2>2. PICK e \in Nat, n \in Nat : e = End(c) /\ n = scan.empty + Size[mmInfo[c]]
    BY <1>1, HeapFacts
  <2>3. scan' = [scan EXCEPT !.at = e, !.empty = n]
    BY <1>2, <2>2
  <2> QED
    BY <2>1, <2>2, <2>3
<1>4. GapStart' = GapStart
  BY <1>1, <1>3, HeapFacts DEF GapStart
<1>5. type' \in [heads' -> Types] /\ ctrs' \in [Buckets -> Int]
  <2>1. type \in [heads -> Types] /\ ctrs \in [Buckets -> Int] /\ mmInfo \in [heads -> Buckets]
    BY HeapFacts DEF TypeOK, HeapTypes
  <2>2. type' \in [heads' -> Types]
    BY <2>1, <1>1, <1>2 DEF Types
  <2>3. ctrs' = [ctrs EXCEPT ![mmInfo[c]] = ctrs[mmInfo[c]] - 1] \/ ctrs' = ctrs
    BY DEF MergeEmpty, Uncount
  <2>4. ctrs' \in [Buckets -> Int]
    BY <2>1, <2>3, <1>1
  <2> QED
    BY <2>2, <2>4
<1>6. FreeListsSound'
  <2>1. ASSUME NEW b \in Buckets
        PROVE  SoundList(buckets'[b], b, mmInfo', type')
    <3>1. SoundList(buckets[b], b, mmInfo, type)
      BY HeapFacts
    <3>2. \A i \in 1 .. Len(buckets[b]) : /\ buckets[b][i] \in DOMAIN mmInfo'
                                          /\ type'[buckets[b][i]] = "empty"
                                          /\ mmInfo'[buckets[b][i]] = mmInfo[buckets[b][i]]
      BY <1>2, <3>1, HeapFacts DEF SoundList, TypeOK, HeapTypes, CallTypes, heads
    <3>3. SoundList(buckets[b], b, mmInfo', type')
      BY <3>1, <3>2, SoundKept
    <3> QED
      BY <1>2, <3>3
  <2> QED
    BY <1>2, <2>1, HeapFacts, SoundNext DEF TypeOK, HeapTypes, CallTypes
<1>7. NoOverlap' /\ BlocksInArenas' /\ ArenasApart'
  BY <1>2, HeapFacts DEF NoOverlap, BlocksInArenas, ArenasApart, End, ArenaEnd
<1>8. Tiled'
  BY <1>0, <1>2, HeapFacts DEF Tiled, Gap, End, ArenaEnd
<1>9. AtEnd' <=> End(c) = ArenaEnd(scan.arena)
  BY <1>2, <1>3 DEF AtEnd, ArenaEnd
<1>10. ScanOK'
  <2>1. /\ scan.empty =< c /\ al[scan.arena].p =< GapStart
        /\ \A a \in heads : End(a) =< GapStart \/ GapStart =< a
    BY <1>0 DEF IInv, ScanOK
  <2>2. scan'.empty =< scan'.at
    BY <1>1, <1>3, <2>1, HeapFacts
  <2>3. scan'.at =< ArenaEnd(scan.arena)' /\ ArenaEnd(scan.arena)' = ArenaEnd(scan.arena)
    BY <1>1, <1>2, <1>3 DEF ArenaEnd
  <2>4. \A a \in heads' : End(a)' = End(a)
    BY <1>2 DEF End
  <2> QED
    BY <1>0, <1>1, <1>2, <1>3, <1>4, <1>9, <2>1, <2>2, <2>3, <2>4 DEF ScanOK
<1>11. ListsBehind'
  <2>1. \A a : Ahead(a)' <=> Ahead(a)
    BY <1>2, <1>3, <1>4 DEF Ahead, InArena, ArenaEnd
  <2> QED
    BY <1>0, <1>2, <2>1 DEF IInv, ListsBehind
<1> QED
  BY <1>3, <1>5, <1>6, <1>7, <1>8, <1>10, <1>11

\* The merge stepping over a block in use preserves the invariant.
LEMMA MergeUsedStep ==
  ASSUME IInv, MergeUsed
  PROVE  /\ scan' \in [arena : Nat, at : Nat, empty : Nat]
         /\ FreeListsSound' /\ NoOverlap' /\ BlocksInArenas' /\ ArenasApart' /\ Tiled'
         /\ ScanOK' /\ ListsBehind'
<1> DEFINE c == scan.at
<1>0. pc = "merge" /\ ~AtEnd /\ pc' = "merge" /\ scan.empty = 0
  BY DEF MergeUsed
<1>1. /\ c \in heads /\ scan.arena \in Arenas
      /\ End(c) =< ArenaEnd(scan.arena)
      /\ End(c) \in heads \/ End(c) = ArenaEnd(scan.arena)
  BY <1>0, CursorBlock
<1>2. /\ UNCHANGED <<mmInfo, type, al, buckets>> /\ heads' = heads /\ Arenas' = Arenas
      /\ scan' = [scan EXCEPT !.at = End(c)]
  BY DEF MergeUsed, arenaVars, blockVars, heads, Arenas
<1>3. /\ scan'.arena = scan.arena /\ scan'.at = End(c) /\ scan'.empty = 0
      /\ scan' \in [arena : Nat, at : Nat, empty : Nat]
  <2>1. scan \in [arena : Nat, at : Nat, empty : Nat]
    BY HeapFacts DEF TypeOK, HeapTypes, CallTypes
  <2>2. End(c) \in Nat
    BY <1>1, HeapFacts
  <2> QED
    BY <1>0, <1>2, <2>1, <2>2
<1>4. GapStart' = End(c) /\ GapStart = c /\ c < End(c) /\ End(c) \in Nat /\ c \in Nat
  BY <1>0, <1>1, <1>3, HeapFacts DEF GapStart
<1>5. FreeListsSound' /\ NoOverlap' /\ BlocksInArenas' /\ ArenasApart'
  BY <1>2, HeapFacts DEF FreeListsSound, Listed, NoOverlap, BlocksInArenas, ArenasApart,
                         End, ArenaEnd
<1>6. Tiled'
  BY <1>0, <1>2, HeapFacts DEF Tiled, Gap, End, ArenaEnd
<1>7. AtEnd' <=> End(c) = ArenaEnd(scan.arena)
  BY <1>2, <1>3 DEF AtEnd, ArenaEnd
<1>8. ScanOK'
  <2>1. al[scan.arena].p =< c /\ al[scan.arena].p \in Nat
    BY <1>0, <1>1, <1>4, HeapFacts DEF IInv, ScanOK
  <2>2. scan'.at =< ArenaEnd(scan.arena)' /\ ArenaEnd(scan.arena)' = ArenaEnd(scan.arena)
    BY <1>1, <1>2, <1>3 DEF ArenaEnd
  <2>3. \A a \in heads' : End(a)' = End(a)
    BY <1>2 DEF End
  <2>4. ASSUME NEW a \in heads
        PROVE  End(a) =< End(c) \/ End(c) =< a
    <3>1. a < c => End(a) =< c
      BY <1>1, HeapFacts DEF NoOverlap
    <3>2. c < a => End(c) =< a
      BY <1>1, HeapFacts DEF NoOverlap
    <3> QED
      BY <3>1, <3>2, <1>4, HeapFacts
  <2>5. al[scan.arena].p =< End(c) /\ 0 =< End(c)
    BY <1>4, <2>1
  <2> QED
    BY <1>0, <1>1, <1>2, <1>3, <1>4, <1>7, <2>2, <2>3, <2>4, <2>5 DEF ScanOK
<1>9. ListsBehind'
  <2>1. ASSUME NEW b \in Buckets, NEW i \in DOMAIN buckets[b], Ahead(buckets[b][i])'
        PROVE  Ahead(buckets[b][i])
    <3>1. buckets[b][i] \in Nat
      BY <2>1, HeapFacts DEF SoundList
    <3> QED
      BY <2>1, <3>1, <1>2, <1>3, <1>4 DEF Ahead, InArena, ArenaEnd
  <2> QED
    BY <1>0, <1>2, <2>1 DEF IInv, ListsBehind
<1> QED
  BY <1>3, <1>5, <1>6, <1>8, <1>9

\* Dropping the headers of a finished run preserves the invariant: what is
\* left without headers is exactly the run.
LEMMA RunEndsStep ==
  ASSUME IInv, RunEnds
  PROVE  /\ mmInfo' \in [heads' -> Buckets] /\ heads' \subseteq Nat
         /\ type' \in [heads' -> Types]
         /\ FreeListsSound' /\ NoOverlap' /\ BlocksInArenas' /\ ArenasApart' /\ Tiled'
         /\ ScanOK' /\ ListsBehind'
<1> DEFINE g == scan.at - scan.empty
           Kept == {a \in heads : Outside(a)}
<1>0. pc = "merge" /\ pc' = "carve" /\ scan.empty > 0
  BY DEF RunEnds
<1>1. /\ mmInfo' = [a \in Kept |-> mmInfo[a]] /\ type' = [a \in Kept |-> type[a]]
      /\ heads' = Kept /\ Arenas' = Arenas /\ UNCHANGED <<al, buckets, scan>>
  BY DEF RunEnds, Restrict, arenaVars, heads, Arenas
<1>2. /\ scan.arena \in Arenas /\ scan.empty =< scan.at
      /\ al[scan.arena].p =< g /\ scan.at =< ArenaEnd(scan.arena)
      /\ scan.at \in heads \/ AtEnd
      /\ \A a \in heads : End(a) =< g \/ g =< a
  BY <1>0 DEF IInv, ScanOK, GapStart
<1>3. /\ GapStart' = g /\ GapStart = g /\ g \in Nat /\ scan.at \in Nat /\ g < scan.at
  BY <1>0, <1>1, <1>2, HeapFacts DEF GapStart
<1> HIDE DEF g
<1>4. \A a \in heads : a \in Kept <=> a < g \/ scan.at =< a
  BY DEF Outside, g
<1>5. ASSUME NEW a \in Kept
      PROVE  /\ a \in heads /\ mmInfo'[a] = mmInfo[a] /\ type'[a] = type[a]
             /\ End(a)' = End(a)
             /\ End(a) =< g \/ scan.at =< a
  <2>1. a \in heads /\ mmInfo'[a] = mmInfo[a] /\ type'[a] = type[a]
    BY <1>1
  <2>2. End(a)' = End(a)
    BY <2>1 DEF End
  <2> QED
    BY <2>1, <2>2, <1>2, <1>3, <1>4, HeapFacts
<1>6. /\ mmInfo' \in [heads' -> Buckets] /\ heads' \subseteq Nat
      /\ type' \in [heads' -> Types]
  <2>1. \A a \in Kept : a \in Nat /\ mmInfo[a] \in Buckets /\ type[a] \in Types
    BY HeapFacts DEF TypeOK, HeapTypes, CallTypes
  <2> QED
    BY <1>1, <2>1
<1>7. NoOverlap'
  BY <1>1, <1>5, HeapFacts DEF NoOverlap
<1>8. BlocksInArenas' /\ ArenasApart'
  BY <1>1, <1>5, HeapFacts DEF BlocksInArenas, ArenasApart, ArenaEnd
<1>9. ASSUME NEW a \in Kept
      PROVE  \/ End(a) \in Kept
             \/ \E i \in Arenas : End(a) = ArenaEnd(i)
             \/ End(a) = g
  <2>1. CASE End(a) \in heads
    BY <2>1, <1>3, <1>4, <1>5, HeapFacts
  <2>2. CASE \E i \in Arenas : End(a) = ArenaEnd(i)
    BY <2>2
  <2> QED
    BY <1>0, <1>5, <2>1, <2>2, HeapFacts DEF Tiled, Gap
<1>10. ASSUME NEW i \in Arenas
       PROVE  al[i].p \in Kept \/ al[i].p = g
  <2>1. al[i].p \in heads
    BY <1>0, HeapFacts DEF Tiled, Gap
  <2>2. CASE i = scan.arena
    BY <2>1, <2>2, <1>2, <1>3, <1>4, HeapFacts
  <2>3. CASE i # scan.arena
    <3>1. ArenaEnd(i) < al[scan.arena].p \/ ArenaEnd(scan.arena) < al[i].p
      BY <2>3, <1>2, HeapFacts DEF ArenasApart
    <3>2. al[i].p =< ArenaEnd(i)
      BY HeapFacts DEF ArenaEnd
    <3> QED
      BY <2>1, <3>1, <3>2, <1>2, <1>3, <1>4, HeapFacts
  <2> QED
    BY <2>2, <2>3
<1>11. scan.at \in Kept \/ AtEnd
  BY <1>2, <1>3, <1>4
<1>12. AtEnd' <=> AtEnd
  BY <1>1 DEF AtEnd, ArenaEnd
<1>13. Tiled'
  <2>1. \A a \in heads' : \/ End(a)' \in heads'
                          \/ \E i \in Arenas' : End(a)' = ArenaEnd(i)'
                          \/ Gap' /\ End(a)' = GapStart'
    BY <1>0, <1>1, <1>3, <1>5, <1>9 DEF Gap, ArenaEnd
  <2>2. \A i \in Arenas' : al'[i].p \in heads' \/ (Gap' /\ al'[i].p = GapStart')
    BY <1>0, <1>1, <1>3, <1>10 DEF Gap
  <2>3. scan'.at \in heads' \/ AtEnd'
    BY <1>1, <1>11, <1>12
  <2> QED
    BY <2>1, <2>2, <2>3 DEF Tiled
<1>14. ScanOK'
  <2>1. ArenaEnd(scan.arena)' = ArenaEnd(scan.arena)
    BY <1>1 DEF ArenaEnd
  <2>2. \A a \in heads' : End(a)' =< g \/ scan.at =< a
    BY <1>1, <1>5
  <2>3. \A a \in heads' : End(a)' =< g \/ g =< a
    BY <1>1, <1>3, <1>6, <2>2
  <2> QED
    BY <1>0, <1>1, <1>2, <1>3, <1>11, <1>12, <2>1, <2>2, <2>3 DEF ScanOK
<1>15. ASSUME NEW b \in Buckets, NEW i \in 1 .. Len(buckets[b])
       PROVE  buckets[b][i] \in Kept
  <2>1. buckets[b][i] \in heads /\ buckets[b][i] \in Nat /\ i \in DOMAIN buckets[b]
    BY HeapFacts DEF SoundList, heads
  <2>2. ~Ahead(buckets[b][i])
    BY <1>0, <2>1 DEF IInv, ListsBehind
  <2> QED
    BY <2>1, <2>2, <1>2, <1>3, <1>4, HeapFacts DEF Ahead
<1>16. FreeListsSound'
  <2>1. ASSUME NEW b \in Buckets
        PROVE  SoundList(buckets'[b], b, mmInfo', type')
    <3>1. SoundList(buckets[b], b, mmInfo, type)
      BY HeapFacts
    <3>2. \A i \in 1 .. Len(buckets[b]) : /\ buckets[b][i] \in DOMAIN mmInfo'
                                          /\ type'[buckets[b][i]] = "empty"
                                          /\ mmInfo'[buckets[b][i]] = mmInfo[buckets[b][i]]
      BY <1>1, <1>5, <1>15, <3>1 DEF SoundList
    <3>3. SoundList(buckets[b], b, mmInfo', type')
      BY <3>1, <3>2, SoundKept
    <3> QED
      BY <1>1, <3>3
  <2> QED
    BY <1>1, <2>1, HeapFacts, SoundNext DEF TypeOK, HeapTypes, CallTypes
<1>17. ListsBehind'
  <2>1. \A a : Ahead(a)' <=> Ahead(a)
    BY <1>1, <1>3 DEF Ahead, InArena, ArenaEnd
  <2> QED
    BY <1>0, <1>1, <2>1 DEF IInv, ListsBehind
<1> QED
  BY <1>6, <1>7, <1>8, <1>13, <1>14, <1>16, <1>17

\* Carving one block off the run preserves the invariant: it fits, and
\* lies between what was carved before and what is left.
LEMMA CarveStep ==
  ASSUME IInv, Carve
  PROVE  /\ mmInfo' \in [heads' -> Buckets] /\ heads' \subseteq Nat
         /\ type' \in [heads' -> Types]
         /\ buckets' \in [Buckets -> Seq(Nat)]
         /\ scan' \in [arena : Nat, at : Nat, empty : Nat] /\ pc' \in PCs
         /\ FreeListsSound' /\ NoOverlap' /\ BlocksInArenas' /\ ArenasApart' /\ Tiled'
         /\ ScanOK' /\ ListsBehind'
<1>0. pc = "carve"
  BY DEF Carve
<1>1. PICK c : c = scan.at - scan.empty
  OBVIOUS
<1>2. PICK b \in Buckets :
        /\ LowestBit(b, scan.empty)
        /\ mmInfo' = [a \in heads \cup {c} |-> IF a = c THEN b ELSE mmInfo[a]]
        /\ type' = [a \in heads \cup {c} |-> IF a = c THEN "empty" ELSE type[a]]
        /\ buckets' = [buckets EXCEPT ![b] = Push(buckets[b], c)]
        /\ scan' = [scan EXCEPT !.empty = scan.empty - Size[b]]
        /\ pc' = IF scan.empty = Size[b] THEN "merge" ELSE "carve"
  BY <1>1 DEF Carve
<1>3. /\ scan.arena \in Arenas /\ scan.empty =< scan.at /\ scan.empty > 0
      /\ al[scan.arena].p =< c /\ scan.at =< ArenaEnd(scan.arena)
      /\ scan.at \in heads \/ AtEnd
      /\ \A a \in heads : End(a) =< c \/ scan.at =< a
  BY <1>0, <1>1 DEF IInv, ScanOK, GapStart
<1>4. /\ GapStart = c /\ c \in Nat /\ scan.at \in Nat /\ scan.empty \in Nat /\ c < scan.at
      /\ scan.at = c + scan.empty
      /\ Size[b] \in Nat /\ Size[b] > 0 /\ Size[b] =< scan.empty
  <2>1. Size[b] \in Nat /\ Size[b] > 0
    BY SizeFacts
  <2>2. Size[b] =< scan.empty
    BY <1>2 DEF LowestBit
  <2>3. scan.at \in Nat /\ scan.empty \in Nat /\ GapStart = scan.at - scan.empty
    BY HeapFacts
  <2> QED
    BY <1>1, <1>3, <2>1, <2>2, <2>3
<1>5. /\ scan'.arena = scan.arena /\ scan'.at = scan.at
      /\ scan'.empty = scan.empty - Size[b]
      /\ scan' \in [arena : Nat, at : Nat, empty : Nat]
  <2>1. scan \in [arena : Nat, at : Nat, empty : Nat]
    BY HeapFacts DEF TypeOK, HeapTypes, CallTypes
  <2>2. PICK n \in Nat : n = scan.empty - Size[b]
    BY <1>4
  <2>3. scan' = [scan EXCEPT !.empty = n]
    BY <1>2, <2>2
  <2> QED
    BY <2>1, <2>2, <2>3
<1>6. GapStart' = c + Size[b] /\ GapStart' =< scan.at
  BY <1>4, <1>5 DEF GapStart
<1>7. /\ heads' = heads \cup {c} /\ c \notin heads
      /\ UNCHANGED al /\ Arenas' = Arenas
      /\ mmInfo'[c] = b /\ type'[c] = "empty"
      /\ \A a \in heads : mmInfo'[a] = mmInfo[a] /\ type'[a] = type[a]
  <2>1. c \notin heads
    BY <1>3, <1>4, HeapFacts
  <2>2. heads' = heads \cup {c}
    BY <1>2 DEF heads
  <2>3. UNCHANGED al /\ Arenas' = Arenas
    BY DEF Carve, arenaVars, Arenas
  <2> QED
    BY <1>2, <2>1, <2>2, <2>3
<1>8. /\ mmInfo' \in [heads' -> Buckets] /\ heads' \subseteq Nat
      /\ type' \in [heads' -> Types]
  <2>1. \A a \in heads : a \in Nat /\ mmInfo[a] \in Buckets /\ type[a] \in Types
    BY HeapFacts DEF TypeOK, HeapTypes, CallTypes
  <2>2. "empty" \in Types
    BY DEF Types
  <2> QED
    BY <1>2, <1>4, <1>7, <2>1, <2>2
<1>9. /\ \A a \in heads : End(a)' = End(a)
      /\ End(c)' = c + Size[b]
  BY <1>7 DEF End
<1>10. NoOverlap'
  <2> SUFFICES ASSUME NEW x \in heads', NEW y \in heads', x < y
               PROVE  End(x)' =< y
    BY DEF NoOverlap
  <2>1. CASE x \in heads /\ y \in heads
    BY <2>1, <1>9, HeapFacts DEF NoOverlap
  <2>2. CASE x \in heads /\ y = c
    BY <2>2, <1>3, <1>4, <1>9, HeapFacts
  <2>3. CASE x = c /\ y \in heads
    BY <2>3, <1>3, <1>4, <1>9, HeapFacts
  <2> QED
    BY <2>1, <2>2, <2>3, <1>7, <1>4
<1>11. \A i \in Arenas : ArenaEnd(i)' = ArenaEnd(i)
  BY <1>7 DEF ArenaEnd
<1>12. BlocksInArenas' /\ ArenasApart'
  <2>1. al[scan.arena].p =< c /\ End(c)' =< ArenaEnd(scan.arena)
    BY <1>3, <1>4, <1>9, HeapFacts
  <2>2. BlocksInArenas'
    BY <2>1, <1>3, <1>7, <1>9, <1>11, HeapFacts DEF BlocksInArenas
  <2> QED
    BY <2>2, <1>7, <1>11, HeapFacts DEF ArenasApart
<1>13. AtEnd' <=> AtEnd
  BY <1>5, <1>7 DEF AtEnd, ArenaEnd
<1>14. \/ pc' = "carve" /\ scan.empty # Size[b]
       \/ pc' = "merge" /\ scan.empty = Size[b]
  BY <1>2
<1>15. Tiled'
  <2>1. \A a \in heads : \/ End(a)' \in heads'
                         \/ \E i \in Arenas' : End(a)' = ArenaEnd(i)'
    BY <1>4, <1>7, <1>9, <1>11, HeapFacts DEF Tiled
  <2>2. \/ End(c)' \in heads'
        \/ \E i \in Arenas' : End(c)' = ArenaEnd(i)'
        \/ Gap' /\ End(c)' = GapStart'
    <3>1. CASE pc' = "carve"
      BY <3>1, <1>6, <1>9 DEF Gap
    <3>2. CASE scan.empty = Size[b]
      BY <3>2, <1>3, <1>4, <1>7, <1>9, <1>11 DEF AtEnd
    <3> QED
      BY <1>14, <3>1, <3>2
  <2>3. \A i \in Arenas' : al'[i].p \in heads'
    BY <1>4, <1>7, HeapFacts DEF Tiled
  <2>4. scan'.at \in heads' \/ AtEnd'
    BY <1>3, <1>5, <1>7, <1>13
  <2> QED
    BY <2>1, <2>2, <2>3, <2>4, <1>7 DEF Tiled
<1>16. ScanOK'
  <2>1. ArenaEnd(scan.arena)' = ArenaEnd(scan.arena)
    BY <1>5, <1>7 DEF ArenaEnd
  <2>2. al'[scan'.arena].p =< GapStart' /\ scan'.empty =< scan'.at
    BY <1>3, <1>4, <1>5, <1>6, <1>7, HeapFacts
  <2>3. ASSUME NEW a \in heads'
        PROVE  End(a)' =< GapStart' \/ scan.at =< a
    <3>1. CASE a = c
      BY <3>1, <1>4, <1>6, <1>9
    <3>2. CASE a \in heads
      BY <3>2, <1>3, <1>4, <1>6, <1>9, HeapFacts
    <3> QED
      BY <3>1, <3>2, <1>7
  <2>4. ASSUME NEW a \in heads'
        PROVE  End(a)' =< GapStart' \/ GapStart' =< a
    BY <2>3, <1>4, <1>6, <1>8
  <2>5. pc' = "carve" => scan'.empty > 0
    BY <1>4, <1>5, <1>14
  <2> QED
    BY <1>3, <1>5, <1>7, <1>13, <2>1, <2>2, <2>3, <2>4, <2>5 DEF ScanOK
<1>17. buckets' \in [Buckets -> Seq(Nat)]
  <2>1. Push(buckets[b], c) \in Seq(Nat)
    BY <1>4, HeapFacts, PushFacts DEF TypeOK, HeapTypes, CallTypes
  <2> QED
    BY <1>2, <2>1, HeapFacts DEF TypeOK, HeapTypes, CallTypes
<1>18. \A k \in Buckets : buckets'[k] = IF k = b THEN Push(buckets[b], c) ELSE buckets[k]
  BY <1>2, HeapFacts DEF TypeOK, HeapTypes, CallTypes
<1>19. ASSUME NEW k \in Buckets
       PROVE  SoundList(buckets'[k], k, mmInfo', type')
  <2>1. SoundList(buckets[k], k, mmInfo, type)
    BY HeapFacts
  <2>2. \A i \in 1 .. Len(buckets[k]) : /\ buckets[k][i] \in DOMAIN mmInfo'
                                        /\ type'[buckets[k][i]] = "empty"
                                        /\ mmInfo'[buckets[k][i]] = mmInfo[buckets[k][i]]
                                        /\ buckets[k][i] # c
    BY <1>7, <2>1 DEF SoundList, heads
  <2>3. SoundList(buckets[k], k, mmInfo', type')
    BY <2>1, <2>2, SoundKept
  <2>4. CASE k = b
    <3>1. c \in DOMAIN mmInfo' /\ type'[c] = "empty" /\ mmInfo'[c] = k /\ c \in Nat
      BY <2>4, <1>4, <1>7 DEF heads
    <3>2. SoundList(Push(buckets[k], c), k, mmInfo', type')
      BY <2>2, <2>3, <3>1, SoundPush
    <3> QED
      BY <2>4, <3>2, <1>18
  <2> QED
    BY <2>3, <2>4, <1>18
<1>20. FreeListsSound'
  BY <1>17, <1>19, SoundNext
<1>21. ListsBehind'
  <2>1. ~Ahead(c)'
    <3>1. ~(GapStart' =< c)
      BY <1>4, <1>6
    <3>2. ASSUME NEW j \in Arenas, j > scan.arena, InArena(c, j)
          PROVE  FALSE
      <4>1. ArenaEnd(j) < al[scan.arena].p \/ ArenaEnd(scan.arena) < al[j].p
        BY <3>2, <1>3, HeapFacts DEF ArenasApart
      <4>2. al[j].p =< c /\ c < ArenaEnd(j)
        BY <3>2 DEF InArena
      <4> QED
        BY <4>1, <4>2, <1>3, <1>4, HeapFacts
    <3> QED
      BY <3>1, <3>2, <1>5, <1>7 DEF Ahead, InArena, ArenaEnd
  <2>2. ASSUME NEW x \in Nat, Ahead(x)'
        PROVE  Ahead(x)
    <3>1. GapStart =< GapStart' /\ GapStart \in Int /\ GapStart' \in Int
      BY <1>4, <1>6
    <3>2. CASE GapStart' =< x /\ x < ArenaEnd(scan.arena)
      BY <3>1, <3>2 DEF Ahead
    <3>3. CASE \E j \in Arenas : j > scan.arena /\ InArena(x, j)
      BY <3>3 DEF Ahead
    <3> QED
      BY <2>2, <3>2, <3>3, <1>5, <1>7 DEF Ahead, InArena, ArenaEnd
  <2>3. ASSUME NEW k \in Buckets, NEW i \in 1 .. Len(buckets[k]), NEW x, x = buckets[k][i]
        PROVE  ~Ahead(x)'
    <3>1. x \in Nat /\ i \in DOMAIN buckets[k]
      BY <2>3, HeapFacts DEF SoundList
    <3>2. ~Ahead(x)
      BY <1>0, <2>3, <3>1 DEF IInv, ListsBehind
    <3> QED
      BY <2>2, <3>1, <3>2
  <2>4. ASSUME NEW k \in Buckets, NEW i \in DOMAIN buckets'[k], NEW x, x = buckets'[k][i]
        PROVE  ~Ahead(x)'
    <3>1. CASE k # b
      <4>1. buckets'[k] = buckets[k] /\ i \in 1 .. Len(buckets[k])
        BY <2>4, <3>1, <1>18, HeapFacts DEF SoundList
      <4> QED
        BY <2>3, <2>4, <4>1
    <3>2. CASE k = b
      <4>1. /\ buckets[b] \in Seq(Nat) /\ Len(buckets[b]) \in Nat
            /\ buckets'[k] = Push(buckets[b], c)
        BY <3>2, <1>18, HeapFacts DEF SoundList
      <4>2. /\ Push(buckets[b], c) \in Seq(Nat)
            /\ Len(Push(buckets[b], c)) = Len(buckets[b]) + 1
            /\ Push(buckets[b], c)[1] = c
            /\ \A j \in 2 .. Len(buckets[b]) + 1 : Push(buckets[b], c)[j] = buckets[b][j - 1]
        BY <4>1, <1>4, PushFacts
      <4>3. i \in 1 .. Len(buckets[b]) + 1
        BY <2>4, <4>1, <4>2
      <4>4. CASE i = 1
        BY <2>1, <2>4, <4>1, <4>2, <4>4
      <4>5. CASE i # 1
        <5>1. i \in 2 .. Len(buckets[b]) + 1 /\ i - 1 \in 1 .. Len(buckets[b])
          BY <4>1, <4>3, <4>5
        <5>2. x = buckets[b][i - 1]
          BY <2>4, <4>1, <4>2, <5>1
        <5> QED
          BY <2>3, <5>1, <5>2
      <4> QED
        BY <4>4, <4>5
    <3> QED
      BY <3>1, <3>2
  <2> QED
    BY <2>4 DEF ListsBehind
<1> QED
  BY <1>5, <1>8, <1>10, <1>12, <1>14, <1>15, <1>16, <1>17, <1>20, <1>21 DEF PCs

\* the steps that change only what no other conjunct of the invariant reads
LEMMA SameBlocks ==
  ASSUME IInv, UNCHANGED <<mmInfo, type, buckets>>
  PROVE  /\ mmInfo' \in [heads' -> Buckets] /\ heads' \subseteq Nat
         /\ type' \in [heads' -> Types]
         /\ buckets' \in [Buckets -> Seq(Nat)]
         /\ FreeListsSound'
BY DEF IInv, TypeOK, HeapTypes, CallTypes, heads, FreeListsSound, Listed

\* The end of a collection moves no block.
LEMMA GCDoneStep ==
  ASSUME IInv, GCDone
  PROVE  /\ ~Merging' /\ pc' \in PCs /\ scan' \in [arena : Nat, at : Nat, empty : Nat]
         /\ collected' \in BOOLEAN
         /\ TypeOK /\ UNCHANGED <<req, ctrs>> => retry' \in BOOLEAN /\ allocMoreRec' \in BOOLEAN
BY DEF GCDone, Retry, Merging, PCs, NoScan, IInv, TypeOK, HeapTypes, CallTypes, Causes

\* The walk leaving an arena preserves the invariant.
LEMMA ArenaDoneStep ==
  ASSUME IInv, ArenaDone
  PROVE  /\ scan' \in [arena : Nat, at : Nat, empty : Nat]
         /\ FreeListsSound' /\ NoOverlap' /\ BlocksInArenas' /\ ArenasApart' /\ Tiled'
         /\ ScanOK' /\ ListsBehind'
<1>0. /\ pc = "merge" /\ AtEnd /\ scan.empty = 0
      /\ UNCHANGED <<mmInfo, type, buckets, al>>
  BY DEF ArenaDone, blockVars, arenaVars
<1>1. heads' = heads /\ Arenas' = Arenas /\ ~Gap
  BY <1>0 DEF heads, Arenas, Gap
<1>2. FreeListsSound'
  BY <1>0, SameBlocks
<1>3. NoOverlap' /\ BlocksInArenas' /\ ArenasApart'
  BY <1>0, <1>1, HeapFacts DEF NoOverlap, BlocksInArenas, ArenasApart, End, ArenaEnd
<1>4. pc' # "carve" => Tiled'
  BY <1>0, <1>1, HeapFacts DEF Tiled, Gap, End, ArenaEnd
<1>5. CASE scan.arena < Len(al)
  <2>1. pc' = "merge" /\ StartArena(scan.arena + 1)
    BY <1>0, <1>5 DEF ArenaDone
  <2>2. PICK i : i = scan.arena + 1
    OBVIOUS
  <2>a. /\ scan.arena \in Nat /\ Len(al) \in Nat /\ Arenas = 1 .. Len(al)
    BY HeapFacts DEF TypeOK, HeapTypes, CallTypes, Arenas
  <2>3. i \in Arenas /\ \A j \in Arenas : j >= i => j > scan.arena
    BY <1>5, <2>2, <2>a
  <2>4. \A b \in Buckets : \A k \in DOMAIN buckets'[b] :
          \A j \in Arenas : j >= i => ~InArena(buckets'[b][k], j)
    BY <1>0, <2>3 DEF IInv, ListsBehind, Ahead
  <2>5. StartArena(i)
    BY <2>1, <2>2
  <2>6. /\ scan' \in [arena : Nat, at : Nat, empty : Nat]
        /\ ScanOK' /\ ListsBehind'
    BY <1>0, <1>1, <2>1, <2>3, <2>4, <2>5, StartArenaStep
  <2> QED
    BY <1>2, <1>3, <1>4, <2>1, <2>6
<1>6. CASE ~(scan.arena < Len(al))
  <2>1. GCDone
    BY <1>6 DEF ArenaDone
  <2>2. ~Merging' /\ scan' \in [arena : Nat, at : Nat, empty : Nat]
    BY <2>1, GCDoneStep
  <2>3. ScanOK' /\ ListsBehind' /\ pc' # "carve"
    BY <2>2 DEF ScanOK, ListsBehind, Merging
  <2> QED
    BY <1>2, <1>3, <1>4, <2>2, <2>3
<1> QED
  BY <1>5, <1>6

\* Dropping all lists and starting the walk preserves the invariant.
LEMMA MergeBeginStep ==
  ASSUME IInv, MergeBegin
  PROVE  /\ buckets' \in [Buckets -> Seq(Nat)]
         /\ scan' \in [arena : Nat, at : Nat, empty : Nat]
         /\ FreeListsSound' /\ NoOverlap' /\ BlocksInArenas' /\ ArenasApart' /\ Tiled'
         /\ ScanOK' /\ ListsBehind'
<1>0. /\ pc = "collect" /\ UNCHANGED <<mmInfo, type, al>>
      /\ buckets' = [b \in Buckets |-> << >>]
  BY DEF MergeBegin, DropLists, arenaVars
<1>1. heads' = heads /\ Arenas' = Arenas /\ ~Gap
  BY <1>0 DEF heads, Arenas, Gap
<1>2. /\ buckets' \in [Buckets -> Seq(Nat)] /\ FreeListsSound'
      /\ \A b \in Buckets : DOMAIN buckets'[b] = {}
  BY <1>0 DEF FreeListsSound, Listed
<1>3. NoOverlap' /\ BlocksInArenas' /\ ArenasApart'
  BY <1>0, <1>1, HeapFacts DEF NoOverlap, BlocksInArenas, ArenasApart, End, ArenaEnd
<1>4. pc' # "carve" => Tiled'
  BY <1>0, <1>1, HeapFacts DEF Tiled, Gap, End, ArenaEnd
<1>5. CASE al # << >>
  <2>1. pc' = "merge" /\ StartArena(1)
    BY <1>5 DEF MergeBegin, DropLists
  <2>2. 1 \in Arenas
    BY <1>5, HeapFacts DEF TypeOK, HeapTypes, CallTypes, Arenas
  <2>3. /\ scan' \in [arena : Nat, at : Nat, empty : Nat]
        /\ ScanOK' /\ ListsBehind'
    BY <1>0, <1>1, <1>2, <2>1, <2>2, StartArenaStep
  <2> QED
    BY <1>2, <1>3, <1>4, <2>1, <2>3
<1>6. CASE al = << >>
  <2>1. GCDone
    BY <1>6 DEF MergeBegin
  <2>2. ~Merging' /\ scan' \in [arena : Nat, at : Nat, empty : Nat]
    BY <2>1, GCDoneStep
  <2>3. ScanOK' /\ ListsBehind' /\ pc' # "carve"
    BY <2>2 DEF ScanOK, ListsBehind, Merging
  <2> QED
    BY <1>2, <1>3, <1>4, <2>2, <2>3
<1> QED
  BY <1>5, <1>6

-----------------------------------------------------------------------------
(* Every step keeps the invariant *)

\* Every step keeps the types of the variables about calls.
LEMMA CallTypesStep ==
  ASSUME TypeOK, Next
  PROVE  CallTypes'
<1> USE DEF TypeOK, CallTypes
<1>1. ASSUME NEW b \in Buckets, Request(b) PROVE CallTypes'
  BY <1>1 DEF Request, gcVars, PCs
<1>2. ASSUME NEW a \in heads, Free(a) \/ GCFree(a) \/ GCMark(a) PROVE CallTypes'
  BY <1>2 DEF Free, GCFree, GCMark, gcVars, callVars, histVars
<1>3. CASE CollectNow \/ SwitchGC \/ Signal
  <2>1. CASE CollectNow
    BY <2>1 DEF CollectNow, gcVars, histVars, PCs, Causes
  <2>2. CASE SwitchGC
    <3>1. gcDepth' \in {0, 1}
      BY <2>2, HeapAssumption DEF SwitchGC
    <3> QED
      BY <2>2, <3>1 DEF SwitchGC, callVars, histVars
  <2>3. CASE Signal
    BY <2>3 DEF Signal, callVars, histVars
  <2> QED
    BY <1>3, <2>1, <2>2, <2>3
<1>4. CASE AllocL \/ AllocS \/ \E p \in Bases : Mmap(p)
  BY <1>4 DEF AllocL, AllocS, Mmap, Return, Over, gcVars, PCs
<1>5. CASE ThrowInterrupted \/ ThrowOOM \/ MmapFails
  BY <1>5 DEF ThrowInterrupted, ThrowOOM, MmapFails, Over, gcVars, PCs
<1>6. CASE MaybeGC \/ ForceGC
  BY <1>6 DEF MaybeGC, ForceGC, gcVars, histVars, PCs, Causes
<1>7. ASSUME GCDone, UNCHANGED <<gcDepth, interrupted, req, cause, cut>> PROVE CallTypes'
  BY <1>7 DEF GCDone, Retry, PCs
<1>8. CASE MergeBegin \/ ArenaDone
  <2>1. UNCHANGED <<gcDepth, interrupted, req, cause, cut>>
    BY <1>8 DEF MergeBegin, ArenaDone
  <2>2. CASE GCDone
    BY <1>7, <2>1, <2>2
  <2>3. CASE ~GCDone
    BY <1>8, <2>1, <2>3 DEF MergeBegin, ArenaDone, PCs
  <2> QED
    BY <2>2, <2>3
<1>9. CASE MergeEmpty \/ MergeUsed \/ RunEnds \/ Carve
  BY <1>9 DEF MergeEmpty, MergeUsed, RunEnds, Carve, gcVars, histVars, PCs
<1> QED
  BY <1>1, <1>2, <1>3, <1>4, <1>5, <1>6, <1>8, <1>9 DEF Next, Serve, Collect

\* The invariant across a step that leaves the blocks, the lists and the
\* arenas alone and is not part of the merge.
LEMMA StillStep ==
  ASSUME IInv, CallTypes', UNCHANGED <<blockVars, arenaVars, scan>>, ~Merging, ~Merging'
  PROVE  IInv'
<1>1. UNCHANGED <<mmInfo, type, buckets, ctrs, al, heapAlloc, scan>> /\ heads' = heads
  BY DEF blockVars, arenaVars, heads
<1>2. HeapTypes'
  BY <1>1 DEF IInv, TypeOK, HeapTypes
<1>3. FreeListsSound'
  BY <1>1, SameBlocks
<1>4. NoOverlap' /\ BlocksInArenas' /\ ArenasApart' /\ Tiled' /\ ScanOK' /\ ListsBehind'
  BY <1>1, QuietLayout
<1> QED
  BY <1>2, <1>3, <1>4 DEF IInv, TypeOK

\* The invariant is inductive: every step of the allocator preserves it.
LEMMA StepInv == IInv /\ [Next]_vars => IInv'
<1> SUFFICES ASSUME IInv, [Next]_vars PROVE IInv'
  OBVIOUS
<1>0. TypeOK /\ HeapTypes
  BY DEF IInv, TypeOK
<1>u. CASE UNCHANGED vars
  <2>1. /\ UNCHANGED <<mmInfo, type, buckets, ctrs, al, heapAlloc, scan, pc>>
        /\ UNCHANGED <<allocMoreRec, gcDepth, interrupted, req, retry, cause, collected, cut>>
    BY <1>u DEF vars, blockVars, arenaVars, gcVars, callVars, histVars
  <2> QED
    BY <2>1 DEF IInv, TypeOK, HeapTypes, CallTypes, heads, NoOverlap, BlocksInArenas,
                ArenasApart, Tiled, ScanOK, FreeListsSound, Listed, ListsBehind, Ahead,
                End, Arenas, ArenaEnd, InArena, Gap, GapStart, AtEnd
<1>n. CASE Next
  <2>0. CallTypes'
    BY <1>0, <1>n, CallTypesStep
  <2>1. ASSUME NEW b \in Buckets, Request(b) PROVE IInv'
    BY <2>0, <2>1, StillStep DEF Request, Merging
  <2>2. ASSUME NEW a \in heads, Free(a) \/ GCFree(a) PROVE IInv'
    <3>1. /\ FreeLink(a) /\ UNCHANGED <<mmInfo, al, heapAlloc, scan>>
          /\ ~Merging /\ ~Merging'
      BY <2>2 DEF Free, GCFree, FreeLink, arenaVars, callVars, Merging
    <3>2. /\ mmInfo' \in [heads' -> Buckets] /\ heads' \subseteq Nat
          /\ type' \in [heads' -> Types]
          /\ buckets' \in [Buckets -> Seq(Nat)]
          /\ ctrs' \in [Buckets -> Int]
          /\ FreeListsSound'
      BY <2>2, <3>1, FreeLinkStep
    <3>3. HeapTypes'
      BY <1>0, <3>1, <3>2 DEF HeapTypes
    <3> QED
      BY <2>0, <3>1, <3>2, <3>3, QuietLayout DEF IInv, TypeOK
  <2>3. ASSUME NEW a \in heads, GCMark(a) PROVE IInv'
    <3>1. /\ UNCHANGED <<mmInfo, buckets, ctrs, al, heapAlloc, scan>> /\ heads' = heads
          /\ type[a] = "used" /\ type' = [type EXCEPT ![a] = "freed"]
          /\ ~Merging /\ ~Merging'
      BY <2>3 DEF GCMark, arenaVars, callVars, Merging, heads
    <3>2. HeapTypes'
      BY <1>0, <3>1 DEF HeapTypes, Types
    <3>3. \A x \in heads : type[x] = "empty" => type'[x] = "empty"
      BY <1>0, <3>1 DEF HeapTypes
    <3>4. FreeListsSound'
      BY <3>1, <3>3 DEF IInv, FreeListsSound, Listed
    <3> QED
      BY <2>0, <3>1, <3>2, <3>4, QuietLayout DEF IInv, TypeOK
  <2>4. CASE CollectNow \/ SwitchGC \/ Signal
    <3>1. UNCHANGED <<blockVars, arenaVars, scan>>
      BY <2>4 DEF CollectNow, SwitchGC, Signal, callVars
    <3>2. CASE ~Merging /\ ~Merging'
      BY <2>0, <3>1, <3>2, StillStep
    <3>3. CASE ~(~Merging /\ ~Merging')
      <4>1. UNCHANGED <<mmInfo, type, buckets, ctrs, al, heapAlloc, scan, pc>>
        BY <2>4, <3>1, <3>3 DEF CollectNow, SwitchGC, Signal, callVars, Merging,
                                blockVars, arenaVars
      <4> QED
        BY <2>0, <4>1 DEF IInv, TypeOK, HeapTypes, heads, NoOverlap, BlocksInArenas,
              ArenasApart, Tiled, ScanOK, FreeListsSound, Listed, ListsBehind, Ahead,
              End, Arenas, ArenaEnd, InArena, Gap, GapStart, AtEnd
    <3> QED
      BY <3>2, <3>3
  <2>5. CASE AllocL
    <3>1. /\ UNCHANGED <<mmInfo, al, heapAlloc, scan>> /\ heads' = heads
          /\ ~Merging /\ ~Merging'
      BY <2>5 DEF AllocL, arenaVars, Return, Over, Merging, heads
    <3>2. /\ type' \in [heads' -> Types]
          /\ buckets' \in [Buckets -> Seq(Nat)]
          /\ ctrs' \in [Buckets -> Int]
          /\ FreeListsSound'
      BY <2>5, AllocLStep
    <3>3. HeapTypes'
      BY <1>0, <3>1, <3>2 DEF HeapTypes
    <3> QED
      BY <2>0, <3>1, <3>2, <3>3, QuietLayout DEF IInv, TypeOK
  <2>6. CASE AllocS
    <3>1. UNCHANGED <<al, heapAlloc, scan>> /\ pc' = "idle"
      BY <2>6 DEF AllocS, arenaVars, Return, Over
    <3>2. /\ mmInfo' \in [heads' -> Buckets] /\ heads' \subseteq Nat
          /\ type' \in [heads' -> Types]
          /\ buckets' \in [Buckets -> Seq(Nat)]
          /\ ctrs' \in [Buckets -> Int]
          /\ FreeListsSound' /\ NoOverlap' /\ BlocksInArenas' /\ Tiled'
      BY <2>6, AllocSStep
    <3>3. HeapTypes'
      BY <1>0, <3>1, <3>2 DEF HeapTypes
    <3>4. ArenasApart' /\ ScanOK' /\ ListsBehind'
      BY <3>1 DEF IInv, ArenasApart, ArenaEnd, Arenas, ScanOK, ListsBehind
    <3> QED
      BY <2>0, <3>2, <3>3, <3>4 DEF IInv, TypeOK
  <2>7. CASE ThrowInterrupted \/ MaybeGC \/ ForceGC \/ ThrowOOM \/ MmapFails
    <3>1. UNCHANGED <<blockVars, arenaVars, scan>> /\ ~Merging /\ ~Merging'
      BY <2>7 DEF ThrowInterrupted, MaybeGC, ForceGC, ThrowOOM, MmapFails, NeedMore, Over,
                  Merging
    <3> QED
      BY <2>0, <3>1, StillStep
  <2>8. ASSUME NEW p \in Bases, Mmap(p) PROVE IInv'
    <3>1. UNCHANGED scan /\ pc' = "idle"
      BY <2>8 DEF Mmap, Return, Over
    <3>2. /\ mmInfo' \in [heads' -> Buckets] /\ heads' \subseteq Nat
          /\ type' \in [heads' -> Types]
          /\ buckets' \in [Buckets -> Seq(Nat)]
          /\ ctrs' \in [Buckets -> Int]
          /\ al' \in Seq([p : Nat, sz : Nat]) /\ heapAlloc' \in Nat
          /\ FreeListsSound' /\ NoOverlap' /\ BlocksInArenas' /\ ArenasApart' /\ Tiled'
      BY <2>8, MmapStep
    <3>3. HeapTypes'
      BY <1>0, <3>1, <3>2 DEF HeapTypes
    <3>4. ScanOK' /\ ListsBehind'
      BY <3>1 DEF ScanOK, ListsBehind
    <3> QED
      BY <2>0, <3>2, <3>3, <3>4 DEF IInv, TypeOK
  <2>9. CASE MergeBegin
    <3>1. UNCHANGED <<mmInfo, type, ctrs, al, heapAlloc>> /\ heads' = heads
      BY <2>9 DEF MergeBegin, arenaVars, heads
    <3> QED
      BY <1>0, <2>0, <2>9, <3>1, MergeBeginStep DEF IInv, TypeOK, HeapTypes
  <2>10. CASE MergeEmpty
    <3>1. UNCHANGED <<mmInfo, buckets, al, heapAlloc>> /\ heads' = heads
      BY <2>10 DEF MergeEmpty, arenaVars, heads
    <3> QED
      BY <1>0, <2>0, <2>10, <3>1, MergeEmptyStep DEF IInv, TypeOK, HeapTypes
  <2>11. CASE MergeUsed
    <3>1. UNCHANGED <<mmInfo, type, buckets, ctrs, al, heapAlloc>> /\ heads' = heads
      BY <2>11 DEF MergeUsed, blockVars, arenaVars, heads
    <3> QED
      BY <1>0, <2>0, <2>11, <3>1, MergeUsedStep DEF IInv, TypeOK, HeapTypes
  <2>12. CASE RunEnds
    <3>1. UNCHANGED <<buckets, ctrs, al, heapAlloc, scan>>
      BY <2>12 DEF RunEnds, arenaVars
    <3> QED
      BY <1>0, <2>0, <2>12, <3>1, RunEndsStep DEF IInv, TypeOK, HeapTypes
  <2>13. CASE Carve
    <3>1. UNCHANGED <<ctrs, al, heapAlloc>>
      BY <2>13 DEF Carve, arenaVars
    <3> QED
      BY <1>0, <2>0, <2>13, <3>1, CarveStep DEF IInv, TypeOK, HeapTypes
  <2>14. CASE ArenaDone
    <3>1. UNCHANGED <<mmInfo, type, buckets, ctrs, al, heapAlloc>> /\ heads' = heads
      BY <2>14 DEF ArenaDone, blockVars, arenaVars, heads
    <3> QED
      BY <1>0, <2>0, <2>14, <3>1, ArenaDoneStep DEF IInv, TypeOK, HeapTypes
  <2> QED
    BY <1>n, <2>1, <2>2, <2>3, <2>4, <2>5, <2>6, <2>7, <2>8, <2>9, <2>10, <2>11, <2>12,
       <2>13, <2>14 DEF Next, Serve, Collect
<1> QED
  BY <1>u, <1>n

-----------------------------------------------------------------------------
(* The theorems *)

\* The inductive invariant holds in every reachable state.
LEMMA Inductive == Spec => []IInv
BY InitInv, StepInv, PTL DEF Spec

\* Every variable keeps its type.
THEOREM TypeCorrect == Spec => []TypeOK
<1>1. IInv => TypeOK
  BY DEF IInv
<1> QED
  BY <1>1, Inductive, PTL

\* Blocks never overlap: whatever is requested, freed and collected, no object
\* shares a byte with another or with a free block.
THEOREM BlocksApart == Spec => []NoOverlap
<1>1. IInv => NoOverlap
  BY DEF IInv
<1> QED
  BY <1>1, Inductive, PTL

\* The blocks tile the arenas, so the walks over the heap (the collector's
\* phases and the merge) never read a header where there is none.
THEOREM WalkSafe == Spec => []Tiled
<1>1. IInv => Tiled
  BY DEF IInv
<1> QED
  BY <1>1, Inductive, PTL

\* The free lists hold distinct empty blocks of their own bucket, so a request
\* is never answered with memory in use.
THEOREM ListsCorrect == Spec => []FreeListsSound
<1>1. IInv => FreeListsSound
  BY DEF IInv
<1> QED
  BY <1>1, Inductive, PTL

=============================================================================
