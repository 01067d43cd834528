---------------------------- MODULE HashMapProofs ----------------------------
(***************************************************************************)
(* Proofs about the hash map (module HashMap) and the cache of imports     *)
(* that is one (module Imports), for every set of keys and every hashing.  *)
(*                                                                         *)
(* A table is proved about without its lists: which places are taken       *)
(* (Packed, Closed) and which indices and hashes they hold (Names).        *)
(* Inserting, taking out, growing and renumbering each keep both; then     *)
(* come the lists (Kept, RankIn), the map as a record (Sound), the         *)
(* invariant MapInv, the map as an ordered map, and the cache.             *)
(***************************************************************************)
EXTENDS Imports, FiniteSetTheorems, WellFoundedInduction, TLAPS

-----------------------------------------------------------------------------
(* Least and greatest elements, induction and recursion *)

\* Every non-empty set of natural numbers has a least element.
LEMMA LeastElement ==
  ASSUME NEW N \in SUBSET Nat, N # {}
  PROVE  Min(N) \in N /\ \A k \in N : Min(N) <= k
<1>1. PICK m \in N : \A k \in N : <<k, m>> \notin OpToRel(<, Nat)
  BY WFMin, NatLessThanWellFounded, Zenon
<1>2. \A k \in N : ~(k < m)
  BY <1>1, Zenon DEF OpToRel
<1>3. m \in Nat /\ \A k \in N : k \in Nat
  OBVIOUS
<1>4. \A k \in N : m <= k
  BY <1>2, <1>3
<1> QED
  BY <1>4, Zenon DEF Min

\* What holds of 0, and of n + 1 whenever it holds of n, holds of every number.
LEMMA Induction ==
  ASSUME NEW N \in SUBSET Nat, 0 \in N, \A n \in N : n + 1 \in N
  PROVE  N = Nat
<1> SUFFICES ASSUME N # Nat PROVE FALSE
  OBVIOUS
<1> DEFINE Out == Nat \ N
           m == Min(Out)
<1>1. Out \in SUBSET Nat /\ Out # {}
  OBVIOUS
<1>2. m \in Out /\ \A k \in Out : m <= k
  BY <1>1, LeastElement, Zenon
<1> HIDE DEF m
<1>3. m \in Nat /\ m # 0
  BY <1>2
<1>4. m - 1 \in Nat /\ m - 1 \in N
  BY <1>2, <1>3
<1>5. (m - 1) + 1 \in N
  BY <1>4
<1> QED
  BY <1>2, <1>3, <1>5

\* The greatest element of a set of numbers up to n.
LEMMA GreatestElement ==
  ASSUME NEW n \in Nat, NEW N \in SUBSET (0 .. n), N # {}
  PROVE  Max(N) \in N /\ \A k \in N : k <= Max(N)
<1> DEFINE R == {n - k : k \in N}
           m == Min(R)
<1>a. \A k \in N : n - k \in Nat
  OBVIOUS
<1>1. R \in SUBSET Nat /\ R # {}
  BY <1>a
<1>2. m \in R /\ \A k \in R : m <= k
  BY <1>1, LeastElement, Zenon
<1> HIDE DEF m
<1>3. PICK x \in N : m = n - x
  BY <1>2
<1>4. \A k \in N : m <= n - k
  BY <1>2
<1>5. \A k \in N : x >= k
  BY <1>3, <1>4
<1>6. Max(N) \in N /\ \A k \in N : Max(N) >= k
  BY <1>5, Zenon DEF Max
<1> QED
  BY <1>6

\* f begins with base and goes on by step.
Follows(f, base, step) == f[0] = base /\ \A n \in Nat : f[n + 1] = step[n][f[n]]

LEMMA Recursion ==
  ASSUME NEW S, NEW base \in S, NEW step \in [Nat -> [S -> S]]
  PROVE  \E f \in [Nat -> S] : Follows(f, base, step)
<1> DEFINE Good(m, f) == f[0] = base /\ \A n \in Nat : n < m => f[n + 1] = step[n][f[n]]
           Has == {m \in Nat : \E f \in [Nat -> S] : Good(m, f)}
           f(m) == CHOOSE g \in [Nat -> S] : Good(m, g)
           F == [m \in Nat |-> f(m)[m]]
<1>1. 0 \in Has
  <2>1. [n \in Nat |-> base] \in [Nat -> S] /\ Good(0, [n \in Nat |-> base])
    OBVIOUS
  <2> QED
    BY <2>1
<1>2. ASSUME NEW m \in Has PROVE m + 1 \in Has
  <2>1. PICK g \in [Nat -> S] : Good(m, g)
    OBVIOUS
  <2> DEFINE h == [g EXCEPT ![m + 1] = step[m][g[m]]]
  <2>2. h \in [Nat -> S] /\ \A n \in Nat : n # m + 1 => h[n] = g[n]
    OBVIOUS
  <2>3. h[m + 1] = step[m][g[m]] /\ h[0] = base /\ h[m] = g[m]
    BY <2>1, <2>2
  <2> HIDE DEF h
  <2>4. ASSUME NEW n \in Nat, n < m + 1 PROVE h[n + 1] = step[n][h[n]]
    <3>1. CASE n = m
      BY <3>1, <2>3
    <3>2. CASE n # m
      <4>1. n < m /\ n # m + 1 /\ n + 1 # m + 1
        BY <2>4, <3>2
      <4> QED
        BY <4>1, <2>1, <2>2
    <3> QED
      BY <3>1, <3>2
  <2>5. Good(m + 1, h)
    BY <2>3, <2>4
  <2> QED
    BY <2>2, <2>5
<1>3. Has = Nat
  <2> HIDE DEF Has
  <2>1. Has \in SUBSET Nat
    BY DEF Has
  <2> QED
    BY <1>1, <1>2, <2>1, Induction
<1>4. ASSUME NEW m \in Nat PROVE f(m) \in [Nat -> S] /\ Good(m, f(m))
  <2>1. \E g \in [Nat -> S] : Good(m, g)
    BY <1>3
  <2> QED
    BY <2>1, Zenon
<1>5. ASSUME NEW m \in Nat, NEW g \in [Nat -> S], NEW h \in [Nat -> S], Good(m, g), Good(m, h)
      PROVE  \A n \in Nat : n <= m => g[n] = h[n]
  <2> DEFINE Same == {n \in Nat : n <= m => g[n] = h[n]}
  <2>1. 0 \in Same
    BY <1>5
  <2>2. ASSUME NEW n \in Same PROVE n + 1 \in Same
    <3> SUFFICES ASSUME n + 1 <= m PROVE g[n + 1] = h[n + 1]
      OBVIOUS
    <3>1. n \in Nat /\ n < m /\ g[n] = h[n]
      OBVIOUS
    <3> QED
      BY <3>1, <1>5
  <2>3. Same = Nat
    BY <2>1, <2>2, Induction
  <2> QED
    BY <2>3
<1> HIDE DEF f, Good, Has
<1>6. F \in [Nat -> S]
  BY <1>4
<1>7. F[0] = base
  BY <1>4 DEF Good
<1>8. ASSUME NEW n \in Nat PROVE F[n + 1] = step[n][F[n]]
  <2>1. Good(n + 1, f(n + 1)) /\ f(n + 1) \in [Nat -> S] /\ Good(n, f(n)) /\ f(n) \in [Nat -> S]
    BY <1>4
  <2>2. Good(n, f(n + 1))
    BY <2>1 DEF Good
  <2>3. f(n + 1)[n] = f(n)[n]
    <3>1. n <= n
      OBVIOUS
    <3> QED
      BY <1>5, <2>1, <2>2, <3>1
  <2>4. f(n + 1)[n + 1] = step[n][f(n + 1)[n]]
    BY <2>1 DEF Good
  <2> QED
    BY <2>3, <2>4
<1> QED
  BY <1>6, <1>7, <1>8 DEF Follows

-----------------------------------------------------------------------------
(* Powers of two and homes *)

LEMMA PowersExist ==
  \E f \in [Nat -> Nat] : \A n \in Nat : f[n] = IF n = 0 THEN 1 ELSE 2 * f[n - 1]
<1> DEFINE step == [n \in Nat |-> [x \in Nat |-> 2 * x]]
<1>1. step \in [Nat -> [Nat -> Nat]] /\ 1 \in Nat /\ \A n, x \in Nat : step[n][x] = 2 * x
  OBVIOUS
<1> HIDE DEF step
<1>2. PICK f \in [Nat -> Nat] : Follows(f, 1, step)
  BY <1>1, Recursion
<1>3. f[0] = 1 /\ \A n \in Nat : f[n + 1] = step[n][f[n]]
  BY <1>2 DEF Follows
<1>4. ASSUME NEW n \in Nat PROVE f[n] = IF n = 0 THEN 1 ELSE 2 * f[n - 1]
  <2>1. CASE n = 0
    BY <2>1, <1>3
  <2>2. CASE n # 0
    <3>1. n - 1 \in Nat /\ (n - 1) + 1 = n /\ f[n - 1] \in Nat
      BY <2>2
    <3> QED
      BY <3>1, <1>1, <1>3, <2>2
  <2> QED
    BY <2>1, <2>2
<1> QED
  BY <1>4

LEMMA PowersFollow == \A n \in Nat : Pow2[n] = IF n = 0 THEN 1 ELSE 2 * Pow2[n - 1]
<1> DEFINE P(f) == f = [n \in Nat |-> IF n = 0 THEN 1 ELSE 2 * f[n - 1]]
<1>1. PICK f \in [Nat -> Nat] : \A n \in Nat : f[n] = IF n = 0 THEN 1 ELSE 2 * f[n - 1]
  BY PowersExist
<1>2. P(f)
  BY <1>1
<1>3. P(Pow2)
  BY <1>2, Zenon DEF Pow2
<1> QED
  BY <1>3

LEMMA Powers ==
  /\ \A n \in Nat : Pow2[n] \in Nat \ {0}
  /\ Pow2[0] = 1
  /\ \A n \in Nat : Pow2[n + 1] = 2 * Pow2[n]
<1>1. Pow2[0] = 1
  BY PowersFollow
<1>2. ASSUME NEW n \in Nat PROVE Pow2[n + 1] = 2 * Pow2[n]
  <2>1. n + 1 \in Nat /\ n + 1 # 0 /\ (n + 1) - 1 = n
    OBVIOUS
  <2> QED
    BY <2>1, PowersFollow
<1> DEFINE N == {n \in Nat : Pow2[n] \in Nat \ {0}}
<1>3. N = Nat
  <2>1. 0 \in N
    BY <1>1
  <2>2. ASSUME NEW n \in N PROVE n + 1 \in N
    <3>1. n \in Nat /\ Pow2[n] \in Nat \ {0}
      OBVIOUS
    <3>2. Pow2[n + 1] = 2 * Pow2[n]
      BY <1>2, <3>1
    <3> QED
      BY <3>1, <3>2
  <2> HIDE DEF N
  <2>3. N \in SUBSET Nat
    BY DEF N
  <2> QED
    BY <2>1, <2>2, <2>3, Induction
<1> QED
  BY <1>1, <1>2, <1>3

\* Raising a power of two by n levels multiplies it.
LEMMA PowersMultiply ==
  ASSUME NEW m \in Nat, NEW n \in Nat
  PROVE  Pow2[m + n] = Pow2[m] * Pow2[n]
<1> DEFINE N == {k \in Nat : Pow2[m + k] = Pow2[m] * Pow2[k]}
<1>1. 0 \in N
  BY Powers
<1>2. ASSUME NEW k \in N PROVE k + 1 \in N
  <2>1. Pow2[(m + k) + 1] = 2 * Pow2[m + k] /\ Pow2[k + 1] = 2 * Pow2[k]
    BY Powers
  <2>2. PICK a \in Nat, b \in Nat : a = Pow2[m] /\ b = Pow2[k]
    BY Powers
  <2>3. 2 * (a * b) = a * (2 * b)
    OBVIOUS
  <2>4. (m + k) + 1 = m + (k + 1)
    OBVIOUS
  <2> QED
    BY <2>1, <2>2, <2>3, <2>4
<1>3. N = Nat
  BY <1>1, <1>2, Induction
<1> QED
  BY <1>3

\* The hashes, the levels of tables, and those of an entry that is not Empty.
Hash == 0 .. Pow2[HashBits] - 1
Levels == FirstLevel .. LastLevel
Entry == [h : Hash, i : 1 .. MaxList]

LEMMA LevelFacts ==
  ASSUME NEW level \in Levels
  PROVE  /\ level \in Nat /\ HashBits - level \in Nat /\ level # 0 /\ HashBits \in Nat
         /\ Pow2[HashBits] = Pow2[level] * Pow2[HashBits - level]
         /\ Pow2[level] \in Nat \ {0} /\ Pow2[HashBits - level] \in Nat \ {0}
         /\ Size(level) \in Nat \ {0} /\ Size(level) > Pow2[level]
<1>1. level \in Nat /\ HashBits - level \in Nat /\ level # 0 /\ HashBits \in Nat
  BY SizesAssumption DEF Levels
<1>2. level + (HashBits - level) = HashBits
  BY <1>1
<1>3. Pow2[HashBits] = Pow2[level] * Pow2[HashBits - level]
  BY <1>1, <1>2, PowersMultiply
<1>4. Pow2[level] \in Nat \ {0} /\ Pow2[HashBits - level] \in Nat \ {0}
  BY <1>1, Powers
<1>5. Size(level) \in Nat \ {0} /\ Size(level) > Pow2[level]
  BY <1>4, SizesAssumption DEF Size
<1> QED
  BY <1>1, <1>3, <1>4, <1>5

LEMMA HashFacts == Pow2[HashBits] \in Nat \ {0} /\ \A h \in Hash : h \in Nat /\ h < Pow2[HashBits]
<1>1. Pow2[HashBits] \in Nat \ {0}
  BY Powers, SizesAssumption
<1> QED
  BY <1>1 DEF Hash

LEMMA EntryFacts ==
  ASSUME NEW e \in Entries
  PROVE  /\ e.h \in Nat /\ e.h <= Pow2[HashBits]
         /\ e = Empty <=> e.h = Pow2[HashBits]
         /\ e # Empty => e \in Entry /\ e.h \in Hash /\ e.i \in 1 .. MaxList
<1>1. Empty.h = Pow2[HashBits]
  BY DEF Empty
<1>2. CASE e = Empty
  BY <1>1, <1>2, HashFacts
<1>3. CASE e # Empty
  <2>1. e \in Entry /\ e.h \in Hash /\ e.i \in 1 .. MaxList
    BY <1>3 DEF Entries, Entry, Hash
  <2> QED
    BY <1>3, <2>1, HashFacts
<1> QED
  BY <1>2, <1>3

LEMMA Quotients ==
  /\ \A d \in Nat \ {0}, x \in Nat : x \div d \in Nat
  /\ \A d \in Nat \ {0}, x, y \in Nat : x <= y => x \div d <= y \div d
  /\ \A d \in Nat \ {0}, x, k \in Nat : x < d * k => x \div d < k
  /\ \A d \in Nat \ {0}, x \in Nat : x < d * (x \div d + 1)
<1>1. \A d \in Nat \ {0}, x \in Nat : x \div d \in Nat
  OBVIOUS
<1>2. \A d \in Nat \ {0}, x, y \in Nat : x <= y => x \div d <= y \div d
  OBVIOUS
<1>3. \A d \in Nat \ {0}, x, k \in Nat : x < d * k => x \div d < k
  OBVIOUS
<1>4. \A d \in Nat \ {0}, x \in Nat : x < d * (x \div d + 1)
  OBVIOUS
<1> QED
  BY <1>1, <1>2, <1>3, <1>4

\* A home is one of the first places, and no hash has an earlier home than a
\* smaller one.
LEMMA Homes ==
  ASSUME NEW level \in Levels
  PROVE  /\ \A h \in Hash : /\ Home(h, level) \in Nat /\ Home(h, level) < Pow2[level]
                            /\ Home(h, level) < Size(level)
         /\ \A h, g \in Hash : h <= g => Home(h, level) <= Home(g, level)
<1> DEFINE d == Pow2[HashBits - level]
<1>1. d \in Nat \ {0} /\ Pow2[level] \in Nat /\ Pow2[HashBits] = d * Pow2[level] /\ Size(level) > Pow2[level] /\ Size(level) \in Nat
  <2>1. PICK x \in Nat, y \in Nat : x = Pow2[level] /\ y = d
    BY LevelFacts
  <2> QED
    BY <2>1, LevelFacts
<1>2. \A h \in Hash : h \in Nat /\ h < d * Pow2[level]
  BY <1>1, HashFacts
<1> HIDE DEF d
<1>3. \A h \in Hash : h \div d \in Nat /\ h \div d < Pow2[level]
  BY <1>1, <1>2, Quotients
<1>4. \A h, g \in Hash : h <= g => h \div d <= g \div d
  BY <1>1, <1>2, Quotients
<1> QED
  BY <1>1, <1>3, <1>4 DEF Home, d

\* In a larger table, a home moves by no more than the table grows.
LEMMA HomesApart ==
  ASSUME NEW old \in Levels, NEW level \in Levels, old < level, NEW h \in Hash
  PROVE  Home(h, level) <= Home(h, old) + (Pow2[level] - Pow2[old])
<1>1. /\ level - old \in Nat /\ old \in Nat /\ level \in Nat /\ HashBits - level \in Nat /\ HashBits - old \in Nat
      /\ old + (level - old) = level /\ (HashBits - level) + (level - old) = HashBits - old
  BY LevelFacts
<1>2. Pow2[level] = Pow2[old] * Pow2[level - old] /\ Pow2[HashBits - old] = Pow2[HashBits - level] * Pow2[level - old]
  BY <1>1, PowersMultiply
<1>3. PICK K \in Nat \ {0}, P \in Nat \ {0}, A \in Nat \ {0} :
         K = Pow2[level - old] /\ P = Pow2[old] /\ A = Pow2[HashBits - level]
  BY <1>1, Powers
<1>4. Home(h, old) \in Nat /\ Home(h, old) < P /\ Home(h, level) \in Nat
  BY <1>3, Homes
<1>5. h \in Nat /\ A * K \in Nat \ {0}
  BY HashFacts, <1>3
<1>6. PICK x \in Nat : x = Home(h, old)
  BY <1>4
<1>7. x = h \div (A * K)
  BY <1>2, <1>3, <1>6 DEF Home
<1>8. h < (A * K) * (x + 1)
  BY <1>5, <1>7, Quotients
<1>9. (A * K) * (x + 1) = A * (K * (x + 1)) /\ K * (x + 1) \in Nat
  OBVIOUS
<1>10. h \div A < K * (x + 1)
  BY <1>5, <1>8, <1>9, <1>3, Quotients
<1>11. PICK y \in Nat : y = Home(h, level)
  BY <1>4
<1>12. y < K * (x + 1)
  BY <1>3, <1>10, <1>11 DEF Home
<1>13. x + 1 <= P
  BY <1>4, <1>6
<1>14. (K - 1) * (x + 1) <= (K - 1) * P
  BY <1>13, <1>3
<1>15. K * (x + 1) = (K - 1) * (x + 1) + (x + 1) /\ (K - 1) * P = P * K - P
  OBVIOUS
<1>16. y <= x + (P * K - P)
  <2>1. PICK u \in Int, v \in Int, w \in Int : u = (K - 1) * (x + 1) /\ v = (K - 1) * P /\ w = P * K
    OBVIOUS
  <2> QED
    BY <2>1, <1>12, <1>14, <1>15
<1> QED
  BY <1>16, <1>2, <1>3, <1>6, <1>11

-----------------------------------------------------------------------------
(* Searching a table *)

Places(level) == 0 .. Size(level) - 1
UsedOf(a) == {p \in DOMAIN a : a[p] # Empty}

\* InOrder without the empty last place
Packed(a, level) ==
  \A p \in UsedOf(a) :
    /\ Home(a[p].h, level) <= p
    /\ \A q \in Home(a[p].h, level) .. p : q \in UsedOf(a)
    /\ \A q \in UsedOf(a) : q < p => a[q].h <= a[p].h
Table(a, level) == a \in [Places(level) -> Entries] /\ Packed(a, level)
Closed(a, level) == a[Size(level) - 1] = Empty

LEMMA PlaceFacts ==
  ASSUME NEW level \in Levels, NEW a \in [Places(level) -> Entries]
  PROVE  /\ DOMAIN a = Places(level) /\ UsedOf(a) \subseteq Places(level) /\ Places(level) \subseteq Nat
         /\ Size(level) - 1 \in Places(level)
         /\ \A p \in Places(level) : a[p] \in Entries /\ a[p].h \in Nat
         /\ \A p \in UsedOf(a) : a[p] \in Entry /\ a[p].h \in Hash /\ a[p].i \in 1 .. MaxList /\ p \in Nat /\ p <= Size(level) - 1
         /\ \A p \in Places(level) : a[p] # Empty => p \in UsedOf(a)
         /\ \A p \in Places(level) : a[p].h < Pow2[HashBits] => p \in UsedOf(a)
         /\ \A p \in Places(level) : p \notin UsedOf(a) => a[p].h = Pow2[HashBits]
<1>1. DOMAIN a = Places(level) /\ UsedOf(a) \subseteq Places(level) /\ Places(level) \subseteq Nat
  BY DEF UsedOf, Places
<1>2. Size(level) - 1 \in Places(level) /\ Size(level) \in Nat
  BY LevelFacts DEF Places
<1>3. \A p \in Places(level) : a[p] \in Entries /\ a[p].h \in Nat
  BY EntryFacts
<1>4. \A p \in UsedOf(a) : a[p] \in Entry /\ a[p].h \in Hash /\ a[p].i \in 1 .. MaxList /\ p \in Nat /\ p <= Size(level) - 1
  BY <1>1, <1>2, EntryFacts DEF UsedOf, Places
<1>5. \A p \in Places(level) : a[p] # Empty => p \in UsedOf(a)
  BY <1>1 DEF UsedOf
<1>6. \A p \in Places(level) : a[p].h < Pow2[HashBits] => p \in UsedOf(a)
  BY <1>1, EntryFacts, HashFacts DEF UsedOf
<1>7. \A p \in Places(level) : p \notin UsedOf(a) => a[p].h = Pow2[HashBits]
  BY <1>1, EntryFacts DEF UsedOf
<1> QED
  BY <1>1, <1>2, <1>3, <1>4, <1>5, <1>6, <1>7

\* The entries with hash h are at Start .. Stop - 1, smaller ones before and
\* greater ones after, and no place from the home to Stop is empty.
Found(a, level, h, s, j) ==
  /\ s \in Nat /\ j \in Nat /\ Home(h, level) <= s /\ s <= j /\ j <= Size(level) - 1
  /\ \A p \in Home(h, level) .. j - 1 : p \in UsedOf(a)
  /\ \A p \in UsedOf(a) : /\ p < s => a[p].h < h
                          /\ (s <= p /\ p < j) => a[p].h = h
                          /\ j <= p => a[p].h > h

LEMMA Search ==
  ASSUME NEW t, NEW a, NEW level \in Levels, t.a = a, t.level = level,
         Table(a, level), Closed(a, level), NEW h \in Hash
  PROVE  Found(a, level, h, Start(t, h), Stop(t, h))
<1> DEFINE last == Size(level) - 1
           e == Home(h, level)
           S == {p \in e .. last : a[p].h >= h}
           s == Min(S)
           J == {p \in s .. last : a[p].h # h}
           j == Min(J)
<1>1. a \in [Places(level) -> Entries] /\ Packed(a, level)
  BY DEF Table
<1>2. /\ DOMAIN a = Places(level) /\ UsedOf(a) \subseteq Places(level) /\ Places(level) \subseteq Nat
      /\ last \in Places(level)
      /\ \A p \in Places(level) : a[p] \in Entries /\ a[p].h \in Nat
      /\ \A p \in UsedOf(a) : a[p].h \in Hash /\ p \in Nat /\ p <= last
      /\ \A p \in Places(level) : a[p].h < Pow2[HashBits] => p \in UsedOf(a)
      /\ \A p \in Places(level) : p \notin UsedOf(a) => a[p].h = Pow2[HashBits]
  BY <1>1, PlaceFacts
<1>3. h \in Nat /\ h < Pow2[HashBits] /\ Pow2[HashBits] \in Nat
  BY HashFacts
<1>4. e \in Nat /\ e <= last /\ last \in Nat
  BY Homes, LevelFacts
<1>5. last \notin UsedOf(a) /\ a[last].h = Pow2[HashBits]
  BY <1>2 DEF Closed, UsedOf
<1>6. \A p \in e .. last : p \in Places(level)
  BY <1>4 DEF Places
<1>7. s \in S /\ \A p \in S : s <= p
  <2>1. last \in S
    BY <1>3, <1>4, <1>5
  <2>2. S \in SUBSET Nat
    BY <1>4
  <2> HIDE DEF S
  <2> QED
    BY <2>1, <2>2, LeastElement
<1> HIDE DEF s
<1>8. s \in Nat /\ e <= s /\ s <= last /\ a[s].h >= h
  BY <1>4, <1>7
<1>9. j \in J /\ \A p \in J : j <= p
  <2>1. last \in J
    BY <1>3, <1>5, <1>8, <1>4
  <2>2. J \in SUBSET Nat
    BY <1>8, <1>4
  <2> HIDE DEF J
  <2> QED
    BY <2>1, <2>2, LeastElement
<1> HIDE DEF j
<1>10. j \in Nat /\ s <= j /\ j <= last /\ a[j].h # h
  BY <1>8, <1>9, <1>4
<1>11. \A p \in e .. s - 1 : a[p].h < h /\ p \in UsedOf(a)
  <2> TAKE p \in e .. s - 1
  <2>1. p \in e .. last /\ p \in Places(level)
    BY <1>4, <1>6, <1>8
  <2>2. p \notin S
    BY <1>7, <1>8, <1>4
  <2>3. ~(a[p].h >= h)
    BY <2>1, <2>2
  <2>4. a[p].h \in Nat
    BY <1>2, <2>1
  <2>5. a[p].h < h /\ a[p].h < Pow2[HashBits]
    BY <2>3, <2>4, <1>3
  <2> QED
    BY <1>2, <2>1, <2>5
<1>12. \A p \in s .. j - 1 : a[p].h = h /\ p \in UsedOf(a)
  <2> TAKE p \in s .. j - 1
  <2>1. p \in s .. last /\ p \in Places(level)
    BY <1>4, <1>6, <1>8, <1>10
  <2>2. p \notin J
    BY <1>9, <1>8, <1>10
  <2>3. a[p].h = h
    BY <2>1, <2>2
  <2> QED
    BY <1>2, <1>3, <2>1, <2>3
<1>13. \A p \in e .. j - 1 : p \in UsedOf(a)
  BY <1>4, <1>8, <1>10, <1>11, <1>12
<1>14. ASSUME NEW p \in UsedOf(a), p < s PROVE a[p].h < h
  <2>1. CASE e <= p
    BY <2>1, <1>2, <1>4, <1>8, <1>11, <1>14
  <2>2. CASE p < e
    <3>1. Home(a[p].h, level) <= p /\ a[p].h \in Hash /\ p \in Nat
      BY <1>1, <1>2 DEF Packed
    <3>2. Home(a[p].h, level) < e /\ Home(a[p].h, level) \in Nat /\ a[p].h \in Nat
      BY <2>2, <3>1, <1>4, Homes, HashFacts
    <3>3. h <= a[p].h => e <= Home(a[p].h, level)
      BY <3>1, Homes
    <3> QED
      BY <3>2, <3>3, <1>3, <1>4
  <2> QED
    BY <2>1, <2>2, <1>2, <1>4
<1>15. ASSUME NEW p \in UsedOf(a), j <= p PROVE a[p].h > h
  <2>0. p \in Nat /\ p <= last /\ a[p].h \in Hash /\ a[p].h \in Nat
    BY <1>2, HashFacts
  <2>1. CASE j \in UsedOf(a)
    <3>1. a[j].h > h
      <4>1. a[j].h \in Nat /\ j \in Places(level)
        BY <1>2, <2>1
      <4>2. CASE j = s
        BY <4>1, <4>2, <1>3, <1>8, <1>10
      <4>3. CASE j # s
        <5>1. j - 1 \in s .. j - 1 /\ j - 1 < j
          BY <4>3, <1>8, <1>10
        <5>2. a[j - 1].h = h /\ j - 1 \in UsedOf(a)
          BY <5>1, <1>12
        <5>3. a[j - 1].h <= a[j].h
          BY <1>1, <2>1, <5>1, <5>2 DEF Packed
        <5> QED
          BY <4>1, <5>2, <5>3, <1>3, <1>10
      <4> QED
        BY <4>2, <4>3
    <3>2. CASE p = j
      BY <3>1, <3>2
    <3>3. CASE p # j
      <4>1. j < p
        BY <3>3, <1>10, <1>15, <2>0
      <4>2. a[j].h <= a[p].h /\ a[j].h \in Nat
        BY <4>1, <1>1, <1>2, <2>1 DEF Packed
      <4> QED
        BY <3>1, <4>2, <2>0, <1>3
    <3> QED
      BY <3>2, <3>3
  <2>2. CASE j \notin UsedOf(a)
    <3>1. ~(Home(a[p].h, level) <= j)
      <4> SUFFICES ASSUME Home(a[p].h, level) <= j PROVE FALSE
        OBVIOUS
      <4>1. Home(a[p].h, level) \in Nat
        BY <2>0, Homes
      <4>2. j \in Home(a[p].h, level) .. p
        BY <4>1, <1>10, <1>15, <2>0
      <4> QED
        BY <4>2, <1>1, <2>2 DEF Packed
    <3>2. Home(a[p].h, level) \in Nat /\ ~(Home(a[p].h, level) <= e)
      BY <3>1, <1>4, <1>8, <1>10, <2>0, Homes
    <3>3. a[p].h <= h => Home(a[p].h, level) <= e
      BY <2>0, Homes
    <3> QED
      BY <3>2, <3>3, <2>0, <1>3
  <2> QED
    BY <2>1, <2>2
<1>16. Start(t, h) = s /\ Stop(t, h) = j
  BY DEF Start, Stop, s, j
<1>17. ASSUME NEW p \in UsedOf(a), s <= p, p < j PROVE a[p].h = h
  BY <1>12, <1>17, <1>2, <1>8, <1>10
<1> HIDE DEF e, last
<1>18. \A p \in UsedOf(a) : /\ p < s => a[p].h < h
                            /\ (s <= p /\ p < j) => a[p].h = h
                            /\ j <= p => a[p].h > h
  BY <1>14, <1>15, <1>17
<1> QED
  BY <1>8, <1>10, <1>13, <1>16, <1>18 DEF Found, e, last

-----------------------------------------------------------------------------
(* Inserting an entry *)

\* Entries from j on move by one, up to the first empty place, `end`.
Shifted(a, b, level, j, end, x) ==
  /\ j \in Nat /\ end \in Places(level) /\ j <= end /\ end \notin UsedOf(a)
  /\ \A p \in j .. end - 1 : p \in UsedOf(a)
  /\ b \in [Places(level) -> Entries] /\ b[j] = x
  /\ \A p \in Places(level) : /\ (p < j \/ p > end) => b[p] = a[p]
                              /\ (j < p /\ p <= end) => b[p] = a[p - 1]

LEMMA Insertion ==
  ASSUME NEW t, NEW a, NEW level \in Levels, t.a = a, t.level = level,
         Table(a, level), Closed(a, level), NEW h \in Hash, NEW i \in 1 .. MaxList
  PROVE  Shifted(a, Insert(t, h, i).a, level, Stop(t, h), Insert(t, h, i).end, [h |-> h, i |-> i])
<1> DEFINE j == Stop(t, h)
           last == Size(level) - 1
           E == {p \in j .. last : a[p] = Empty}
           end == Min(E)
           x == [h |-> h, i |-> i]
           b == [p \in Places(level) |-> IF p = j THEN x ELSE IF p \in j + 1 .. end THEN a[p - 1] ELSE a[p]]
<1>1. a \in [Places(level) -> Entries]
  BY DEF Table
<1>2. /\ DOMAIN a = Places(level) /\ UsedOf(a) \subseteq Places(level) /\ Places(level) \subseteq Nat
      /\ last \in Places(level) /\ last \in Nat
      /\ \A p \in Places(level) : a[p] \in Entries
      /\ \A p \in Places(level) : a[p] # Empty => p \in UsedOf(a)
  BY <1>1, PlaceFacts
<1>3. j \in Nat /\ j <= last
  BY Search DEF Found
<1>4. Insert(t, h, i) = [end |-> end, a |-> b]
  BY <1>2 DEF Insert, Places
<1>5. end \in E /\ \A p \in E : end <= p
  <2>1. last \in E
    BY <1>2, <1>3 DEF Closed
  <2>2. E \in SUBSET Nat
    BY <1>2, <1>3
  <2> HIDE DEF E
  <2> QED
    BY <2>1, <2>2, LeastElement
<1> HIDE DEF end, j
<1>6. end \in Nat /\ j <= end /\ end <= last /\ a[end] = Empty /\ end \in Places(level)
  BY <1>2, <1>3, <1>5 DEF Places
<1>7. end \notin UsedOf(a)
  BY <1>6 DEF UsedOf
<1>8. \A p \in j .. end - 1 : p \in UsedOf(a)
  <2> TAKE p \in j .. end - 1
  <2>1. p \in j .. last /\ p \in Places(level)
    BY <1>2, <1>3, <1>6 DEF Places
  <2>2. p \notin E
    BY <1>5, <1>6, <1>3
  <2> QED
    BY <2>1, <2>2, <1>2
<1>9. x \in Entries
  BY DEF Entries, Hash
<1>10. \A p \in Places(level) : p \in j + 1 .. end => p - 1 \in Places(level)
  BY <1>3, <1>2 DEF Places
<1> HIDE DEF x
<1>11. b \in [Places(level) -> Entries]
  BY <1>9, <1>10, <1>2
<1>12. j \in Places(level)
  BY <1>2, <1>3, <1>6 DEF Places
<1>13. b[j] = x
  BY <1>12
<1>14. ASSUME NEW p \in Places(level)
       PROVE  /\ (p < j \/ p > end) => b[p] = a[p]
              /\ (j < p /\ p <= end) => b[p] = a[p - 1]
  <2>1. p \in Nat
    BY <1>2
  <2> QED
    BY <2>1, <1>3, <1>6
<1> HIDE DEF b
<1>15. Shifted(a, b, level, j, end, x)
  BY <1>3, <1>6, <1>7, <1>8, <1>11, <1>13, <1>14 DEF Shifted
<1> QED
  BY <1>4, <1>15 DEF j, x

LEMMA ShiftedUsed ==
  ASSUME NEW level \in Levels, NEW a \in [Places(level) -> Entries], NEW b, NEW j, NEW end,
         NEW x \in Entry, Shifted(a, b, level, j, end, x)
  PROVE  /\ UsedOf(b) = UsedOf(a) \cup {end}
         /\ x # Empty /\ j \in UsedOf(b)
         /\ \A p \in UsedOf(b) : p # j => IF p \in j .. end THEN p - 1 \in UsedOf(a) /\ p - 1 \in j .. end - 1 /\ b[p] = a[p - 1]
                                          ELSE p \in UsedOf(a) /\ b[p] = a[p]
<1>1. x # Empty /\ x.h \in Hash
  <2>1. x.h \in Hash /\ Empty.h = Pow2[HashBits]
    BY DEF Entry, Empty
  <2> QED
    BY <2>1, HashFacts
<1>2. /\ DOMAIN a = Places(level) /\ UsedOf(a) \subseteq Places(level) /\ Places(level) \subseteq Nat
      /\ \A p \in Places(level) : a[p] # Empty => p \in UsedOf(a)
  BY PlaceFacts
<1>3. /\ j \in Nat /\ end \in Places(level) /\ end \in Nat /\ j <= end /\ end \notin UsedOf(a) /\ j \in Places(level)
      /\ \A p \in j .. end - 1 : p \in UsedOf(a)
      /\ DOMAIN b = Places(level) /\ b[j] = x
      /\ \A p \in Places(level) : /\ (p < j \/ p > end) => b[p] = a[p]
                                  /\ (j < p /\ p <= end) => b[p] = a[p - 1]
  BY <1>2 DEF Shifted, Places
<1>4. ASSUME NEW p \in Places(level), p \notin j .. end PROVE b[p] = a[p] /\ (p \in UsedOf(b) <=> p \in UsedOf(a))
  <2>1. p \in Nat /\ (p < j \/ p > end)
    BY <1>2, <1>3, <1>4
  <2>2. b[p] = a[p]
    BY <2>1, <1>3
  <2> QED
    BY <2>2, <1>2, <1>3 DEF UsedOf
<1>5. ASSUME NEW p \in Places(level), p \in j .. end, p # j
      PROVE  b[p] = a[p - 1] /\ p - 1 \in UsedOf(a) /\ p \in UsedOf(b) /\ p - 1 \in j .. end - 1
  <2>1. j < p /\ p <= end /\ p - 1 \in j .. end - 1
    BY <1>3, <1>5
  <2>2. b[p] = a[p - 1] /\ p - 1 \in UsedOf(a)
    BY <2>1, <1>3
  <2> QED
    BY <2>1, <2>2, <1>3 DEF UsedOf
<1>6. j \in UsedOf(b)
  BY <1>1, <1>3 DEF UsedOf
<1>7. UsedOf(b) \subseteq Places(level)
  BY <1>3 DEF UsedOf
<1>8. ASSUME NEW p \in Places(level) PROVE p \in UsedOf(b) <=> p \in UsedOf(a) \cup {end}
  <2>1. CASE p \notin j .. end
    BY <2>1, <1>4, <1>3
  <2>2. CASE p \in j .. end
    <3>1. p \in UsedOf(b)
      BY <2>2, <1>5, <1>6
    <3>2. p # end => p \in j .. end - 1
      BY <2>2, <1>3
    <3> QED
      BY <3>1, <3>2, <1>3
  <2> QED
    BY <2>1, <2>2
<1> QED
  BY <1>1, <1>2, <1>3, <1>4, <1>5, <1>6, <1>7, <1>8

\* An entry put after the last with its hash leaves the table in order.
LEMMA ShiftedTable ==
  ASSUME NEW level \in Levels, NEW a, Table(a, level), NEW b, NEW s, NEW j, NEW end, NEW x \in Entry,
         Found(a, level, x.h, s, j), Shifted(a, b, level, j, end, x)
  PROVE  Table(b, level)
<1> DEFINE h == x.h
<1>1. a \in [Places(level) -> Entries] /\ Packed(a, level)
  BY DEF Table
<1>2. /\ UsedOf(a) \subseteq Places(level) /\ Places(level) \subseteq Nat
      /\ \A p \in UsedOf(a) : a[p].h \in Hash /\ p \in Nat
  BY <1>1, PlaceFacts
<1>3. /\ UsedOf(b) = UsedOf(a) \cup {end} /\ j \in UsedOf(b)
      /\ \A p \in UsedOf(b) : p # j => IF p \in j .. end THEN p - 1 \in UsedOf(a) /\ p - 1 \in j .. end - 1 /\ b[p] = a[p - 1]
                                       ELSE p \in UsedOf(a) /\ b[p] = a[p]
  BY <1>1, ShiftedUsed
<1>4. /\ j \in Nat /\ end \in Nat /\ j <= end /\ b[j] = x /\ b \in [Places(level) -> Entries]
      /\ \A p \in j .. end - 1 : p \in UsedOf(a)
  BY <1>2 DEF Shifted
<1>5. h \in Hash /\ h \in Nat
  BY HashFacts DEF Entry
<1>6. /\ Home(h, level) \in Nat /\ Home(h, level) <= j
      /\ \A p \in Home(h, level) .. j - 1 : p \in UsedOf(a)
      /\ \A p \in UsedOf(a) : p < j => a[p].h <= h
      /\ \A p \in UsedOf(a) : j <= p => a[p].h > h
  <2>1. Home(h, level) \in Nat
    BY <1>5, Homes
  <2>2. \A p \in UsedOf(a) : a[p].h \in Nat /\ p \in Nat
    BY <1>2, HashFacts
  <2> QED
    BY <2>1, <2>2, <1>5 DEF Found
<1> HIDE DEF h
<1>7. \A p \in UsedOf(b) : p \in Nat /\ b[p].h \in Hash /\ b[p].h \in Nat
  <2> TAKE p \in UsedOf(b)
  <2>1. p \in Nat
    BY <1>2, <1>3, <1>4
  <2>2. b[p].h \in Hash
    BY <1>2, <1>3, <1>4, <1>5 DEF h
  <2> QED
    BY <2>1, <2>2, HashFacts
<1>8. ASSUME NEW p \in UsedOf(b)
      PROVE  Home(b[p].h, level) \in Nat /\ Home(b[p].h, level) <= p /\ \A q \in Home(b[p].h, level) .. p : q \in UsedOf(b)
  <2>1. CASE p = j
    <3>1. b[p].h = h /\ \A q \in Home(h, level) .. j : q # j => q \in Home(h, level) .. j - 1
      BY <2>1, <1>4, <1>6 DEF h
    <3> QED
      BY <3>1, <2>1, <1>3, <1>6
  <2>2. CASE p # j /\ p \in j .. end
    <3>1. p - 1 \in UsedOf(a) /\ b[p] = a[p - 1] /\ p - 1 \in Nat
      BY <2>2, <1>2, <1>3
    <3>2. Home(b[p].h, level) <= p - 1 /\ \A q \in Home(b[p].h, level) .. p - 1 : q \in UsedOf(a)
      BY <3>1, <1>1 DEF Packed
    <3>3. Home(b[p].h, level) \in Nat /\ p \in Nat
      BY <1>7, Homes
    <3>4. \A q \in Home(b[p].h, level) .. p : q # p => q \in Home(b[p].h, level) .. p - 1
      BY <3>3, <3>1
    <3> QED
      BY <3>2, <3>3, <3>4, <1>3
  <2>3. CASE p \notin j .. end
    <3>1. p \in UsedOf(a) /\ b[p] = a[p]
      BY <2>3, <1>3, <1>4
    <3>2. Home(b[p].h, level) <= p /\ \A q \in Home(b[p].h, level) .. p : q \in UsedOf(a)
      BY <3>1, <1>1 DEF Packed
    <3>3. Home(b[p].h, level) \in Nat
      BY <1>7, Homes
    <3> QED
      BY <3>2, <3>3, <1>3
  <2> QED
    BY <2>1, <2>2, <2>3
<1>9. ASSUME NEW p \in UsedOf(b), NEW q \in UsedOf(b), q < p PROVE b[q].h <= b[p].h
  <2> DEFINE from(r) == IF r \in j .. end THEN r - 1 ELSE r
  <2>1. \A r \in UsedOf(b) : r # j => from(r) \in UsedOf(a) /\ b[r] = a[from(r)]
    BY <1>3
  <2>2. p \in Nat /\ q \in Nat /\ b[p].h \in Nat /\ b[q].h \in Nat
    BY <1>7
  <2>3. CASE p = j
    <3>1. q # j /\ from(q) = q /\ q < j
      BY <2>2, <2>3, <1>4, <1>9
    <3>2. q \in UsedOf(a) /\ b[q] = a[q]
      BY <3>1, <2>1
    <3> QED
      BY <3>1, <3>2, <2>3, <1>4, <1>6 DEF h
  <2>4. CASE q = j
    <3>1. p # j /\ from(p) >= j /\ from(p) \in Nat
      BY <2>2, <2>4, <1>4, <1>9
    <3>2. a[from(p)].h > h /\ b[p] = a[from(p)]
      BY <3>1, <2>1, <1>6
    <3> QED
      BY <3>2, <2>2, <2>4, <1>4, <1>5 DEF h
  <2>5. CASE p # j /\ q # j
    <3>1. from(q) < from(p)
      BY <2>2, <2>5, <1>4, <1>9
    <3> HIDE DEF from
    <3>2. from(p) \in UsedOf(a) /\ from(q) \in UsedOf(a) /\ b[p] = a[from(p)] /\ b[q] = a[from(q)]
      BY <2>1, <2>5
    <3> QED
      BY <3>1, <3>2, <1>1 DEF Packed
  <2> QED
    BY <2>3, <2>4, <2>5
<1> QED
  BY <1>4, <1>8, <1>9 DEF Table, Packed

\* The entries are those of the indices in S, once each, with hashes g.
Names(a, S, g) ==
  /\ {a[p].i : p \in UsedOf(a)} = S
  /\ \A p, q \in UsedOf(a) : a[p].i = a[q].i => p = q
  /\ \A p \in UsedOf(a) : a[p].h = g[a[p].i]

\* Entries that are moved, or taken away, keep their indices.
LEMMA NamesMoved ==
  ASSUME NEW a, NEW b, NEW S, NEW T, NEW g, Names(a, S, g), NEW from,
         from \in [UsedOf(b) -> UsedOf(a)], \A p, q \in UsedOf(b) : from[p] = from[q] => p = q,
         \A p \in UsedOf(b) : b[p] = a[from[p]],
         \A x \in S : x \in T <=> \E p \in UsedOf(b) : a[from[p]].i = x,
         T \subseteq S
  PROVE  Names(b, T, g)
<1>1. {b[p].i : p \in UsedOf(b)} = T
  <2>1. \A p \in UsedOf(b) : from[p] \in UsedOf(a) /\ b[p].i = a[from[p]].i
    OBVIOUS
  <2>2. \A p \in UsedOf(a) : a[p].i \in S
    BY DEF Names
  <2> QED
    BY <2>1, <2>2
<1>2. \A p, q \in UsedOf(b) : b[p].i = b[q].i => p = q
  BY DEF Names
<1>3. \A p \in UsedOf(b) : b[p].h = g[b[p].i]
  BY DEF Names
<1> QED
  BY <1>1, <1>2, <1>3 DEF Names

LEMMA ShiftedNames ==
  ASSUME NEW level \in Levels, NEW a \in [Places(level) -> Entries], NEW b, NEW j, NEW end,
         NEW x \in Entry, Shifted(a, b, level, j, end, x),
         NEW S, NEW g, Names(a, S, g), x.i \notin S, x.h = g[x.i]
  PROVE  Names(b, S \cup {x.i}, g)
<1>1. /\ UsedOf(b) = UsedOf(a) \cup {end} /\ j \in UsedOf(b)
      /\ \A p \in UsedOf(b) : p # j => IF p \in j .. end THEN p - 1 \in UsedOf(a) /\ p - 1 \in j .. end - 1 /\ b[p] = a[p - 1]
                                       ELSE p \in UsedOf(a) /\ b[p] = a[p]
  BY ShiftedUsed
<1>2. /\ j \in Nat /\ end \in Nat /\ j <= end /\ b[j] = x /\ UsedOf(b) \subseteq Nat /\ UsedOf(a) \subseteq Nat
      /\ end \notin UsedOf(a) /\ \A p \in j .. end - 1 : p \in UsedOf(a)
  BY <1>1, PlaceFacts DEF Shifted
<1> DEFINE from(r) == IF r \in j .. end THEN r - 1 ELSE r
<1>3. \A r \in UsedOf(b) : r # j => from(r) \in UsedOf(a) /\ b[r] = a[from(r)]
  BY <1>1
<1>4. ASSUME NEW p \in UsedOf(b), NEW q \in UsedOf(b), p # j, q # j, from(p) = from(q) PROVE p = q
  <2>1. p \in Nat /\ q \in Nat
    BY <1>2
  <2>2. p \in j .. end <=> from(p) \in j .. end - 1
    BY <1>1, <1>2, <1>4, <2>1
  <2>3. q \in j .. end <=> from(q) \in j .. end - 1
    BY <1>1, <1>2, <1>4, <2>1
  <2> QED
    BY <2>1, <2>2, <2>3, <1>4, <1>2
<1>5. ASSUME NEW r \in UsedOf(a) PROVE \E p \in UsedOf(b) : p # j /\ b[p] = a[r]
  <2>1. r \in Nat /\ r # end
    BY <1>2
  <2>2. CASE r \in j .. end
    <3>1. r + 1 \in j .. end /\ r + 1 # j /\ (r + 1) - 1 = r
      BY <2>1, <2>2, <1>2
    <3>2. r + 1 \in UsedOf(b)
      <4>1. r + 1 = end \/ r + 1 \in j .. end - 1
        BY <3>1, <1>2
      <4> QED
        BY <4>1, <1>1, <1>2
    <3> QED
      BY <3>1, <3>2, <1>3
  <2>3. CASE r \notin j .. end
    <3>1. r \in UsedOf(b) /\ r # j
      BY <2>3, <1>1, <1>2
    <3> QED
      BY <3>1, <2>3, <1>3
  <2> QED
    BY <2>2, <2>3
<1> HIDE DEF from
<1>6. \A p \in UsedOf(b) : p # j => b[p].i \in S /\ b[p].i # x.i
  BY <1>3 DEF Names
<1>7. {b[p].i : p \in UsedOf(b)} = S \cup {x.i}
  <2>1. \A y \in S : \E r \in UsedOf(a) : a[r].i = y
    BY DEF Names
  <2>2. \A y \in S : \E p \in UsedOf(b) : b[p].i = y
    BY <2>1, <1>5
  <2> QED
    BY <2>2, <1>1, <1>2, <1>6
<1>8. ASSUME NEW p \in UsedOf(b), NEW q \in UsedOf(b), b[p].i = b[q].i PROVE p = q
  <2>1. CASE p = j \/ q = j
    BY <2>1, <1>8, <1>6, <1>2
  <2>2. CASE p # j /\ q # j
    <3>1. from(p) = from(q)
      BY <2>2, <1>3, <1>8 DEF Names
    <3> QED
      BY <3>1, <2>2, <1>4
  <2> QED
    BY <2>1, <2>2
<1>9. \A p \in UsedOf(b) : b[p].h = g[b[p].i]
  BY <1>2, <1>3 DEF Names
<1> QED
  BY <1>7, <1>8, <1>9 DEF Names

-----------------------------------------------------------------------------
(* Taking an entry out *)

\* Entries after j move back by one, up to one that stays, at `end`.
Closes(a, b, level, j, end) ==
  /\ j \in UsedOf(a) /\ end \in Places(level) /\ j < end
  /\ end \in UsedOf(a) => Home(a[end].h, level) = end
  /\ \A p \in j + 1 .. end - 1 : p \in UsedOf(a) /\ Home(a[p].h, level) # p
  /\ b \in [Places(level) -> Entries]
  /\ \A p \in Places(level) : b[p] = IF p \in j .. end - 2 THEN a[p + 1]
                                     ELSE IF p = end - 1 THEN Empty ELSE a[p]

LEMMA TakingOut ==
  ASSUME NEW t, NEW a, NEW level \in Levels, t.a = a, t.level = level,
         Table(a, level), Closed(a, level), NEW j \in UsedOf(a)
  PROVE  \E end : Closes(a, TakeOut(t, j), level, j, end)
<1> DEFINE last == Size(level) - 1
           stays(p) == a[p] = Empty \/ Home(a[p].h, level) = p
           E == {p \in j + 1 .. last : stays(p)}
           end == Min(E)
           b == [p \in Places(level) |-> IF p \in j .. end - 2 THEN a[p + 1]
                                         ELSE IF p = end - 1 THEN Empty ELSE a[p]]
<1>1. a \in [Places(level) -> Entries]
  BY DEF Table
<1>2. /\ DOMAIN a = Places(level) /\ UsedOf(a) \subseteq Places(level) /\ Places(level) \subseteq Nat
      /\ last \in Places(level) /\ last \in Nat
      /\ \A p \in Places(level) : a[p] \in Entries
      /\ \A p \in Places(level) : a[p] # Empty => p \in UsedOf(a)
  BY <1>1, PlaceFacts
<1>3. j \in Nat /\ j < last
  <2>1. j \in Places(level) /\ a[j] # Empty /\ a[last] = Empty
    BY <1>2 DEF Closed, UsedOf
  <2> QED
    BY <2>1, <1>2 DEF Places
<1>4. TakeOut(t, j) = b
  BY <1>2 DEF TakeOut
<1>5. end \in E /\ \A p \in E : end <= p
  <2>1. last \in E
    BY <1>2, <1>3 DEF Closed
  <2>2. E \in SUBSET Nat
    BY <1>2, <1>3
  <2> HIDE DEF E
  <2> QED
    BY <2>1, <2>2, LeastElement
<1> HIDE DEF end
<1>6. end \in Nat /\ j < end /\ end <= last /\ stays(end) /\ end \in Places(level)
  BY <1>2, <1>3, <1>5 DEF Places
<1>7. end \in UsedOf(a) => Home(a[end].h, level) = end
  BY <1>6 DEF UsedOf
<1>8. \A p \in j + 1 .. end - 1 : p \in UsedOf(a) /\ Home(a[p].h, level) # p
  <2> TAKE p \in j + 1 .. end - 1
  <2>1. p \in j + 1 .. last /\ p \in Places(level)
    BY <1>2, <1>3, <1>6 DEF Places
  <2>2. p \notin E
    BY <1>5, <1>6, <1>3
  <2> QED
    BY <2>1, <2>2, <1>2
<1>9. \A p \in Places(level) : p \in j .. end - 2 => p + 1 \in Places(level)
  BY <1>3, <1>2, <1>6 DEF Places
<1>10. b \in [Places(level) -> Entries]
  BY <1>9, <1>2 DEF Entries
<1>11. Closes(a, b, level, j, end)
  BY <1>6, <1>7, <1>8, <1>10 DEF Closes
<1> QED
  BY <1>4, <1>11

LEMMA ClosesUsed ==
  ASSUME NEW level \in Levels, NEW a \in [Places(level) -> Entries], NEW b, NEW j, NEW end,
         Closes(a, b, level, j, end)
  PROVE  /\ UsedOf(b) = UsedOf(a) \ {end - 1}
         /\ \A p \in UsedOf(b) : IF p \in j .. end - 2 THEN p + 1 \in UsedOf(a) /\ b[p] = a[p + 1]
                                 ELSE p \in UsedOf(a) /\ b[p] = a[p]
<1>1. /\ DOMAIN a = Places(level) /\ UsedOf(a) \subseteq Places(level) /\ Places(level) \subseteq Nat
      /\ \A p \in Places(level) : a[p] # Empty => p \in UsedOf(a)
  BY PlaceFacts
<1>2. /\ j \in Nat /\ end \in Nat /\ j < end /\ j \in UsedOf(a) /\ end \in Places(level)
      /\ \A p \in j + 1 .. end - 1 : p \in UsedOf(a)
      /\ DOMAIN b = Places(level)
      /\ \A p \in Places(level) : b[p] = IF p \in j .. end - 2 THEN a[p + 1]
                                         ELSE IF p = end - 1 THEN Empty ELSE a[p]
  BY <1>1 DEF Closes
<1>3. ASSUME NEW p \in Places(level) 
      PROVE  /\ p \in UsedOf(b) <=> p \in UsedOf(a) \ {end - 1}
             /\ p \in UsedOf(b) => IF p \in j .. end - 2 THEN p + 1 \in UsedOf(a) /\ b[p] = a[p + 1]
                                   ELSE p \in UsedOf(a) /\ b[p] = a[p]
  <2>0. p \in Nat
    BY <1>1
  <2>1. CASE p \in j .. end - 2
    <3>1. p + 1 \in j + 1 .. end - 1 /\ p # end - 1 /\ (p = j \/ p \in j + 1 .. end - 1)
      BY <2>0, <2>1, <1>2
    <3>2. p + 1 \in UsedOf(a) /\ p \in UsedOf(a) /\ b[p] = a[p + 1]
      BY <3>1, <2>1, <1>2
    <3>3. b[p] # Empty
      BY <3>2 DEF UsedOf
    <3> QED
      BY <3>1, <3>2, <3>3, <2>1, <1>2 DEF UsedOf
  <2>2. CASE p = end - 1
    <3>1. b[p] = Empty /\ p \notin j .. end - 2
      BY <2>0, <2>2, <1>2
    <3> QED
      BY <3>1, <2>2 DEF UsedOf
  <2>3. CASE p \notin j .. end - 2 /\ p # end - 1
    <3>1. b[p] = a[p]
      BY <2>3, <1>2
    <3> QED
      BY <3>1, <2>3, <1>1, <1>2 DEF UsedOf
  <2> QED
    BY <2>1, <2>2, <2>3
<1>4. UsedOf(b) \subseteq Places(level)
  BY <1>2 DEF UsedOf
<1> QED
  BY <1>1, <1>3, <1>4

LEMMA ClosesTable ==
  ASSUME NEW level \in Levels, NEW a, Table(a, level), Closed(a, level), NEW b, NEW j, NEW end,
         Closes(a, b, level, j, end)
  PROVE  Table(b, level) /\ Closed(b, level)
<1>1. a \in [Places(level) -> Entries] /\ Packed(a, level)
  BY DEF Table
<1>2. /\ UsedOf(a) \subseteq Places(level) /\ Places(level) \subseteq Nat
      /\ \A p \in UsedOf(a) : a[p].h \in Hash /\ p \in Nat /\ a[p].h \in Nat
      /\ Size(level) - 1 \in Places(level)
  BY <1>1, PlaceFacts, HashFacts
<1>3. /\ UsedOf(b) = UsedOf(a) \ {end - 1}
      /\ \A p \in UsedOf(b) : IF p \in j .. end - 2 THEN p + 1 \in UsedOf(a) /\ b[p] = a[p + 1]
                              ELSE p \in UsedOf(a) /\ b[p] = a[p]
  BY <1>1, ClosesUsed
<1>4. /\ j \in Nat /\ end \in Nat /\ j < end /\ b \in [Places(level) -> Entries] /\ DOMAIN b = Places(level)
      /\ end \in UsedOf(a) => Home(a[end].h, level) = end
      /\ \A p \in j + 1 .. end - 1 : p \in UsedOf(a) /\ Home(a[p].h, level) # p
  BY <1>2 DEF Closes
<1>5. Closed(b, level)
  <2>1. Size(level) - 1 \notin UsedOf(a)
    BY DEF Closed, UsedOf
  <2>2. Size(level) - 1 \notin UsedOf(b)
    BY <2>1, <1>3
  <2> QED
    BY <2>2, <1>2, <1>4 DEF Closed, UsedOf
<1> DEFINE from(r) == IF r \in j .. end - 2 THEN r + 1 ELSE r
<1>6. \A r \in UsedOf(b) : from(r) \in UsedOf(a) /\ b[r] = a[from(r)] /\ r \in Nat
  BY <1>2, <1>3
<1>7. ASSUME NEW p \in UsedOf(b), NEW q \in UsedOf(b), q < p PROVE b[q].h <= b[p].h
  <2>0. p \in Nat /\ q \in Nat /\ p # end - 1 /\ q # end - 1
    BY <1>3, <1>6
  <2>1. from(q) < from(p)
    BY <2>0, <1>4, <1>7
  <2> HIDE DEF from
  <2>2. from(p) \in UsedOf(a) /\ from(q) \in UsedOf(a) /\ b[p] = a[from(p)] /\ b[q] = a[from(q)]
    BY <1>6
  <2> QED
    BY <2>1, <2>2, <1>1 DEF Packed
<1>8. ASSUME NEW p \in UsedOf(b)
      PROVE  Home(b[p].h, level) <= p /\ \A q \in Home(b[p].h, level) .. p : q \in UsedOf(b)
  <2>0. b[p].h \in Hash /\ p \in Nat
    BY <1>6, <1>2
  <2>1. PICK e \in Nat : e = Home(b[p].h, level)
    BY <2>0, Homes
  <2>2. CASE p \in j .. end - 2
    <3>1. p + 1 \in UsedOf(a) /\ b[p] = a[p + 1] /\ p + 1 \in j + 1 .. end - 1
      BY <2>2, <1>3, <1>4
    <3>2. e <= p + 1 /\ e # p + 1 /\ \A q \in e .. p + 1 : q \in UsedOf(a)
      BY <2>1, <3>1, <1>1, <1>4 DEF Packed
    <3>3. e <= p /\ \A q \in e .. p : q \in UsedOf(a) /\ q # end - 1
      BY <3>2, <2>0, <2>2, <1>4
    <3> QED
      BY <3>3, <2>1, <1>3
  <2>3. CASE p \notin j .. end - 2
    <3>1. p \in UsedOf(a) /\ b[p] = a[p] /\ p # end - 1
      BY <2>3, <1>3
    <3>2. e <= p /\ \A q \in e .. p : q \in UsedOf(a)
      BY <3>1, <2>1, <1>1 DEF Packed
    <3>3. ASSUME e <= end - 1, end - 1 <= p PROVE FALSE
      <4>1. end <= p /\ end \in e .. p
        BY <3>1, <3>3, <2>0, <1>4
      <4>2. end \in UsedOf(a) /\ Home(a[end].h, level) = end
        BY <4>1, <3>2, <1>4
      <4>3. a[end].h <= a[p].h
        <5>1. CASE end = p
          BY <5>1, <1>2, <4>2
        <5>2. CASE end # p
          BY <5>2, <4>1, <4>2, <3>1, <2>0, <1>1, <1>4 DEF Packed
        <5> QED
          BY <5>1, <5>2
      <4>4. Home(a[end].h, level) <= Home(a[p].h, level)
        BY <4>2, <4>3, <3>1, <1>2, Homes
      <4> QED
        BY <4>2, <4>4, <2>1, <3>1, <3>3, <1>4
    <3>4. \A q \in e .. p : q # end - 1
      BY <3>3, <2>0, <1>4
    <3> QED
      BY <3>2, <3>4, <2>1, <1>3
  <2> QED
    BY <2>2, <2>3
<1>9. Packed(b, level)
  BY <1>7, <1>8 DEF Packed
<1> QED
  BY <1>4, <1>5, <1>9 DEF Table

LEMMA ClosesNames ==
  ASSUME NEW level \in Levels, NEW a \in [Places(level) -> Entries], NEW b, NEW j, NEW end,
         Closes(a, b, level, j, end), NEW S, NEW g, Names(a, S, g)
  PROVE  Names(b, S \ {a[j].i}, g)
<1>1. /\ UsedOf(b) = UsedOf(a) \ {end - 1}
      /\ \A p \in UsedOf(b) : IF p \in j .. end - 2 THEN p + 1 \in UsedOf(a) /\ b[p] = a[p + 1]
                              ELSE p \in UsedOf(a) /\ b[p] = a[p]
  BY ClosesUsed
<1>2. /\ j \in Nat /\ end \in Nat /\ j < end /\ j \in UsedOf(a) /\ UsedOf(a) \subseteq Nat
      /\ \A p \in j + 1 .. end - 1 : p \in UsedOf(a)
  BY PlaceFacts DEF Closes
<1> DEFINE move(r) == IF r \in j .. end - 2 THEN r + 1 ELSE r
           from == [r \in UsedOf(b) |-> move(r)]
<1>3. from \in [UsedOf(b) -> UsedOf(a)] /\ \A r \in UsedOf(b) : b[r] = a[from[r]] /\ r \in Nat
  BY <1>1, <1>2
<1>4. \A p, q \in UsedOf(b) : from[p] = from[q] => p = q
  <2>1. \A r \in UsedOf(b) : r \in Nat /\ r # end - 1 /\ from[r] = move(r)
    BY <1>1, <1>2
  <2>2. \A p, q \in Nat : (p # end - 1 /\ q # end - 1 /\ move(p) = move(q)) => p = q
    BY <1>2
  <2> HIDE DEF move, from
  <2> QED
    BY <2>1, <2>2
<1>5. ASSUME NEW r \in UsedOf(a), r # j PROVE \E p \in UsedOf(b) : from[p] = r
  <2>1. CASE r \in j .. end - 1
    <3>1. r - 1 \in j .. end - 2 /\ r - 1 # end - 1 /\ (r - 1) + 1 = r /\ (r - 1 = j \/ r - 1 \in j + 1 .. end - 1)
      BY <2>1, <1>2, <1>5
    <3>2. r - 1 \in UsedOf(b)
      BY <3>1, <1>1, <1>2
    <3> QED
      BY <3>1, <3>2
  <2>2. CASE r \notin j .. end - 1
    <3>1. r \in UsedOf(b) /\ r \notin j .. end - 2
      BY <2>2, <1>1, <1>2
    <3> QED
      BY <3>1
  <2> QED
    BY <2>1, <2>2
<1>6. ASSUME NEW p \in UsedOf(b) PROVE from[p] # j
  <2>1. p \in Nat /\ p # end - 1
    BY <1>1, <1>2
  <2> QED
    BY <2>1, <1>2
<1> HIDE DEF from
<1>7. \A x \in S : x \in S \ {a[j].i} <=> \E p \in UsedOf(b) : a[from[p]].i = x
  <2> TAKE x \in S
  <2>1. PICK r \in UsedOf(a) : a[r].i = x
    BY DEF Names
  <2>2. CASE r = j
    <3>1. \A p \in UsedOf(b) : from[p] \in UsedOf(a) /\ a[from[p]].i # x
      BY <2>1, <2>2, <1>3, <1>6 DEF Names
    <3> QED
      BY <3>1, <2>1, <2>2
  <2>3. CASE r # j
    <3>1. x # a[j].i
      BY <2>1, <2>3, <1>2 DEF Names
    <3> QED
      BY <3>1, <2>1, <2>3, <1>5
  <2> QED
    BY <2>2, <2>3
<1> QED
  BY <1>3, <1>4, <1>7, NamesMoved

-----------------------------------------------------------------------------
(* Growing *)

LEMMA MaxOfTwo ==
  ASSUME NEW x \in Nat, NEW y \in Nat
  PROVE  Max({x, y}) = IF x >= y THEN x ELSE y
<1>1. CASE x >= y
  <2>1. x \in {x, y} /\ \A z \in {x, y} : x >= z
    BY <1>1
  <2>2. Max({x, y}) \in {x, y} /\ \A z \in {x, y} : Max({x, y}) >= z
    BY <2>1, Zenon DEF Max
  <2> QED
    BY <1>1, <2>2
<1>2. CASE ~(x >= y)
  <2>1. y \in {x, y} /\ \A z \in {x, y} : y >= z
    BY <1>2
  <2>2. Max({x, y}) \in {x, y} /\ \A z \in {x, y} : Max({x, y}) >= z
    BY <2>1, Zenon DEF Max
  <2> QED
    BY <1>2, <2>2
<1> QED
  BY <1>1, <1>2

\* The place after an entry with home e where x is the first that is free.
After(x, e) == (IF x >= e THEN x ELSE e) + 1

NextIn(next, a, level, p) == IF a[p] = Empty THEN next[p] ELSE After(next[p], Home(a[p].h, level))

LEMMA NextFollows ==
  ASSUME NEW n \in Nat, NEW a \in [0 .. n - 1 -> Entries], NEW level \in Levels
  PROVE  /\ NextFree(a, n, level) \in [0 .. n -> Nat]
         /\ NextFree(a, n, level)[0] = 0
         /\ \A p \in 0 .. n - 1 : NextFree(a, n, level)[p + 1] = NextIn(NextFree(a, n, level), a, level, p)
<1> DEFINE P(next) == next = [p \in 0 .. n |-> IF p = 0 THEN 0
                                ELSE IF a[p - 1] = Empty THEN next[p - 1]
                                ELSE Max({next[p - 1], Home(a[p - 1].h, level)}) + 1]
           go(p, x) == IF p \notin 0 .. n - 1 THEN 0
                       ELSE IF a[p] = Empty THEN x ELSE After(x, Home(a[p].h, level))
           step == [p \in Nat |-> [x \in Nat |-> go(p, x)]]
           good(p) == a[p] # Empty => Home(a[p].h, level) \in Nat
<1>1. \A p \in 0 .. n - 1 : good(p)
  BY EntryFacts, Homes
<1>2. \A p \in Nat, x \in Nat : go(p, x) \in Nat
  BY <1>1 DEF After
<1> HIDE DEF go
<1>3. step \in [Nat -> [Nat -> Nat]] /\ 0 \in Nat /\ \A p, x \in Nat : step[p][x] = go(p, x)
  BY <1>2
<1> HIDE DEF step
<1>4. PICK f \in [Nat -> Nat] : Follows(f, 0, step)
  BY <1>3, Recursion
<1>5. f[0] = 0 /\ \A p \in Nat : f[p + 1] = go(p, f[p])
  BY <1>3, <1>4 DEF Follows
<1> DEFINE g == [p \in 0 .. n |-> f[p]]
<1>6. P(g)
  <2>1. ASSUME NEW p \in 0 .. n, p # 0
        PROVE  g[p] = IF a[p - 1] = Empty THEN g[p - 1]
                      ELSE Max({g[p - 1], Home(a[p - 1].h, level)}) + 1
    <3>1. p - 1 \in 0 .. n - 1 /\ p - 1 \in 0 .. n /\ p - 1 \in Nat /\ (p - 1) + 1 = p
      BY <2>1
    <3>2. g[p] = go(p - 1, f[p - 1]) /\ g[p - 1] = f[p - 1] /\ f[p - 1] \in Nat
      BY <1>5, <3>1
    <3>3. CASE a[p - 1] = Empty
      BY <3>1, <3>2, <3>3 DEF go
    <3>4. CASE a[p - 1] # Empty
      <4>1. Home(a[p - 1].h, level) \in Nat
        BY <1>1, <3>1, <3>4
      <4>2. Max({g[p - 1], Home(a[p - 1].h, level)}) + 1 = After(g[p - 1], Home(a[p - 1].h, level))
        BY <4>1, <3>2, MaxOfTwo DEF After
      <4> QED
        BY <4>2, <3>1, <3>2, <3>4 DEF go
    <3> QED
      BY <3>3, <3>4
  <2>2. g[0] = 0
    BY <1>5
  <2>3. g = [p \in 0 .. n |-> g[p]]
    OBVIOUS
  <2> HIDE DEF g
  <2>4. \A p \in 0 .. n : g[p] = IF p = 0 THEN 0
                                 ELSE IF a[p - 1] = Empty THEN g[p - 1]
                                 ELSE Max({g[p - 1], Home(a[p - 1].h, level)}) + 1
    BY <2>1, <2>2
  <2> QED
    BY <2>3, <2>4
<1>7. P(NextFree(a, n, level))
  <2> HIDE DEF g
  <2> QED
    BY <1>6, Zenon DEF NextFree
<1> DEFINE next == NextFree(a, n, level)
<1> HIDE DEF next
<1>8. \A p \in 0 .. n : next[p] = IF p = 0 THEN 0
                                 ELSE IF a[p - 1] = Empty THEN next[p - 1]
                                 ELSE Max({next[p - 1], Home(a[p - 1].h, level)}) + 1
  BY <1>7 DEF next
<1>9. DOMAIN next = 0 .. n /\ next = [p \in 0 .. n |-> next[p]]
  BY <1>7 DEF next
<1>10. next[0] = 0
  <2>1. 0 \in 0 .. n
    OBVIOUS
  <2> QED
    BY <2>1, <1>8
<1>11. ASSUME NEW p \in 0 .. n - 1, next[p] \in Nat
       PROVE  next[p + 1] = NextIn(next, a, level, p) /\ next[p + 1] \in Nat
  <2>1. p + 1 \in 0 .. n /\ p + 1 # 0 /\ (p + 1) - 1 = p
    OBVIOUS
  <2>2. CASE a[p] = Empty
    BY <2>1, <2>2, <1>8, <1>11 DEF NextIn
  <2>3. CASE a[p] # Empty
    <3>1. Home(a[p].h, level) \in Nat
      BY <1>1, <2>3
    <3>2. next[p + 1] = Max({next[p], Home(a[p].h, level)}) + 1
      BY <2>1, <2>3, <1>8
    <3>3. PICK x \in Nat, e \in Nat : x = next[p] /\ e = Home(a[p].h, level)
      BY <3>1, <1>11
    <3>4. next[p + 1] = After(x, e)
      BY <3>2, <3>3, MaxOfTwo DEF After
    <3>5. After(x, e) \in Nat
      BY DEF After
    <3> QED
      BY <3>3, <3>4, <3>5, <2>3 DEF NextIn
  <2> QED
    BY <2>2, <2>3
<1> DEFINE N == {p \in Nat : p <= n => next[p] \in Nat}
<1>12. N = Nat
  <2>1. 0 \in N
    BY <1>10
  <2>2. ASSUME NEW p \in N PROVE p + 1 \in N
    <3> SUFFICES ASSUME p + 1 <= n PROVE next[p + 1] \in Nat
      OBVIOUS
    <3>1. p \in 0 .. n - 1 /\ next[p] \in Nat
      OBVIOUS
    <3> QED
      BY <3>1, <1>11
  <2>3. N \in SUBSET Nat
    OBVIOUS
  <2> HIDE DEF N
  <2> QED
    BY <2>1, <2>2, <2>3, Induction
<1>13. \A p \in 0 .. n : next[p] \in Nat
  BY <1>12
<1>14. next \in [0 .. n -> Nat]
  BY <1>9, <1>13
<1>15. \A p \in 0 .. n - 1 : next[p + 1] = NextIn(next, a, level, p)
  BY <1>11, <1>13
<1> QED
  BY <1>10, <1>14, <1>15 DEF next

\* The places are in the order of the entries, and never go past the larger
\* table: an entry moves by no more than the table grows.
LEMMA NextBounds ==
  ASSUME NEW old \in Levels, NEW level \in Levels, old < level, NEW a, Table(a, old)
  PROVE  LET next == NextFree(a, Size(old), level)
         IN /\ next \in [0 .. Size(old) -> Nat]
            /\ \A p \in 0 .. Size(old) : next[p] <= p + (Pow2[level] - Pow2[old])
            /\ \A p, q \in 0 .. Size(old) : p <= q => next[p] <= next[q]
            /\ \A p \in UsedOf(a) : next[p] < next[p + 1] /\ Home(a[p].h, level) < next[p + 1]
<1> DEFINE n == Size(old)
           next == NextFree(a, n, level)
           grown == Pow2[level] - Pow2[old]
<1>1. n \in Nat /\ n # 0 /\ a \in [0 .. n - 1 -> Entries] /\ Places(old) = 0 .. n - 1
  BY LevelFacts DEF Table, Places
<1>2. /\ next \in [0 .. n -> Nat] /\ next[0] = 0
      /\ \A p \in 0 .. n - 1 : next[p + 1] = NextIn(next, a, level, p)
  BY <1>1, NextFollows
<1> HIDE DEF next
<1>3. grown \in Int /\ grown >= 0
  <2>1. \A h \in Hash : Home(h, level) <= Home(h, old) + grown
    BY HomesApart
  <2>2. 0 \in Hash
    BY HashFacts DEF Hash
  <2>3. level - old \in Nat /\ old + (level - old) = level /\ old \in Nat
    BY LevelFacts
  <2>4. Pow2[level] = Pow2[old] * Pow2[level - old]
    BY <2>3, PowersMultiply
  <2>5. PICK x \in Nat \ {0}, y \in Nat \ {0} : x = Pow2[old] /\ y = Pow2[level - old]
    BY <2>3, Powers
  <2>6. x * y \in Nat /\ x * y >= x
    OBVIOUS
  <2> QED
    BY <2>4, <2>5, <2>6
<1>4. ASSUME NEW p \in UsedOf(a)
      PROVE  p \in 0 .. n - 1 /\ p + 1 \in 0 .. n /\ Home(a[p].h, level) \in Nat /\ Home(a[p].h, level) <= p + grown
  <2>1. p \in Places(old) /\ a[p].h \in Hash
    BY <1>1, PlaceFacts
  <2>2. Home(a[p].h, old) <= p /\ Home(a[p].h, old) \in Nat
    BY <2>1, Homes DEF Table, Packed
  <2>3. Home(a[p].h, level) \in Nat /\ Home(a[p].h, level) <= Home(a[p].h, old) + grown
    BY <2>1, Homes, HomesApart
  <2>4. p \in 0 .. n - 1
    BY <1>1, <2>1
  <2> HIDE DEF grown
  <2> QED
    BY <1>1, <1>3, <2>2, <2>3, <2>4
<1> HIDE DEF grown
<1>5. ASSUME NEW p \in 0 .. n - 1
      PROVE  /\ p \in UsedOf(a) => next[p + 1] = After(next[p], Home(a[p].h, level))
             /\ p \notin UsedOf(a) => next[p + 1] = next[p]
             /\ next[p] \in Nat /\ next[p + 1] \in Nat
  BY <1>1, <1>2 DEF NextIn, UsedOf
<1>6. ASSUME NEW p \in 0 .. n - 1
      PROVE  /\ next[p] <= next[p + 1]
             /\ p \in UsedOf(a) => next[p] < next[p + 1] /\ Home(a[p].h, level) < next[p + 1]
             /\ next[p] <= p + grown => next[p + 1] <= (p + 1) + grown
  <2>1. CASE p \in UsedOf(a)
    BY <2>1, <1>3, <1>4, <1>5 DEF After
  <2>2. CASE p \notin UsedOf(a)
    BY <2>2, <1>3, <1>5
  <2> QED
    BY <2>1, <2>2
<1> DEFINE N == {p \in Nat : p <= n => next[p] <= p + grown}
<1>7. N = Nat
  <2>1. 0 \in N
    BY <1>2, <1>3
  <2>2. ASSUME NEW p \in N PROVE p + 1 \in N
    <3> SUFFICES ASSUME p + 1 <= n PROVE next[p + 1] <= (p + 1) + grown
      OBVIOUS
    <3>1. p \in 0 .. n - 1 /\ next[p] <= p + grown
      BY <1>1
    <3> QED
      BY <3>1, <1>6
  <2>3. N \in SUBSET Nat
    OBVIOUS
  <2> HIDE DEF N
  <2> QED
    BY <2>1, <2>2, <2>3, Induction
<1>8. ASSUME NEW p \in 0 .. n
      PROVE  \A q \in 0 .. n : p <= q => next[p] <= next[q]
  <2> DEFINE M == {q \in Nat : (q <= n /\ p <= q) => next[p] <= next[q]}
  <2>1. 0 \in M
    BY <1>2
  <2>2. ASSUME NEW q \in M PROVE q + 1 \in M
    <3> SUFFICES ASSUME q + 1 <= n, p <= q + 1 PROVE next[p] <= next[q + 1]
      OBVIOUS
    <3>1. q \in 0 .. n - 1 /\ q \in Nat /\ q <= n
      BY <1>1
    <3>2. next[q] <= next[q + 1] /\ next[q] \in Nat /\ next[q + 1] \in Nat
      BY <3>1, <1>5, <1>6
    <3>3. CASE p = q + 1
      BY <3>2, <3>3
    <3>4. CASE p # q + 1
      <4>1. p <= q /\ next[p] \in Nat
        BY <3>1, <3>4, <1>2
      <4>2. next[p] <= next[q]
        BY <3>1, <4>1
      <4> QED
        BY <3>2, <4>1, <4>2
    <3> QED
      BY <3>3, <3>4
  <2>3. M \in SUBSET Nat
    OBVIOUS
  <2> HIDE DEF M
  <2>4. M = Nat
    BY <2>1, <2>2, <2>3, Induction
  <2> QED
    BY <2>4 DEF M
<1>9. \A p \in 0 .. n : next[p] <= p + grown
  BY <1>7
<1>10. \A p \in UsedOf(a) : next[p] < next[p + 1] /\ Home(a[p].h, level) < next[p + 1]
  BY <1>4, <1>6
<1> QED
  BY <1>2, <1>8, <1>9, <1>10 DEF next, grown

\* Every entry of a has one place in b, by `to`, and b has no other entries.
Copies(a, b, level, to) ==
  /\ b \in [Places(level) -> Entries]
  /\ to \in [UsedOf(a) -> UsedOf(b)]
  /\ \A p \in UsedOf(a) : b[to[p]] = a[p]
  /\ \A q \in UsedOf(b) : \E p \in UsedOf(a) : to[p] = q
  /\ \A p, q \in UsedOf(a) : p < q => to[p] < to[q]

LEMMA Copying ==
  ASSUME NEW old \in Levels, NEW level \in Levels, old < level, NEW a, Table(a, old)
  PROVE  LET next == NextFree(a, Size(old), level)
         IN Copies(a, Copied(a, Size(old), level), level, [p \in UsedOf(a) |-> next[p + 1] - 1])
<1> DEFINE n == Size(old)
           next == NextFree(a, n, level)
           to == [p \in UsedOf(a) |-> next[p + 1] - 1]
           at(q) == {p \in 0 .. n - 1 : a[p] # Empty /\ next[p + 1] = q + 1}
           b == [q \in Places(level) |-> IF at(q) = {} THEN Empty ELSE a[CHOOSE p \in at(q) : TRUE]]
           grown == Pow2[level] - Pow2[old]
<1>1. Copied(a, n, level) = b
  BY DEF Copied, Places
<1>2. /\ n \in Nat /\ DOMAIN a = 0 .. n - 1 /\ UsedOf(a) \subseteq 0 .. n - 1 /\ (\A p \in 0 .. n - 1 : a[p] \in Entries)
      /\ \A p \in 0 .. n - 1 : a[p] # Empty <=> p \in UsedOf(a)
  <2>1. n \in Nat /\ a \in [0 .. n - 1 -> Entries]
    BY LevelFacts DEF Table, Places
  <2> QED
    BY <2>1 DEF UsedOf
<1>3. /\ next \in [0 .. n -> Nat]
      /\ \A p \in 0 .. n : next[p] <= p + grown
      /\ \A p, q \in 0 .. n : p <= q => next[p] <= next[q]
      /\ \A p \in UsedOf(a) : next[p] < next[p + 1] /\ Home(a[p].h, level) < next[p + 1]
  BY NextBounds
<1>4. n + grown = Size(level) /\ Size(level) \in Nat /\ grown \in Int
  <2>1. Pow2[level] \in Nat /\ Pow2[old] \in Nat /\ Size(level) \in Nat
    BY LevelFacts
  <2> QED
    BY <2>1, SizesAssumption DEF Size
<1> HIDE DEF next, grown
<1>5. ASSUME NEW p \in UsedOf(a) PROVE next[p + 1] - 1 \in Places(level) /\ p \in at(next[p + 1] - 1) /\ p \in Nat /\ next[p + 1] \in Nat
  <2>1. p \in 0 .. n - 1 /\ p + 1 \in 0 .. n /\ p \in 0 .. n
    BY <1>2
  <2>2. next[p + 1] \in Nat /\ next[p] \in Nat /\ next[p] < next[p + 1] /\ next[p + 1] <= (p + 1) + grown
    BY <2>1, <1>3
  <2>3. next[p + 1] - 1 \in 0 .. Size(level) - 1
    BY <2>1, <2>2, <1>2, <1>4, SMTT(40)
  <2>4. (next[p + 1] - 1) + 1 = next[p + 1]
    BY <2>2
  <2> QED
    BY <2>1, <2>2, <2>3, <2>4, <1>2 DEF Places
<1>6. ASSUME NEW p \in UsedOf(a), NEW q \in UsedOf(a), p < q PROVE next[p + 1] < next[q + 1]
  <2>1. p + 1 \in 0 .. n /\ q \in 0 .. n /\ q + 1 \in 0 .. n /\ p + 1 <= q
    BY <1>2, <1>6
  <2>2. next[p + 1] <= next[q] /\ next[q] < next[q + 1] /\ next[p + 1] \in Nat /\ next[q] \in Nat /\ next[q + 1] \in Nat
    BY <2>1, <1>3
  <2> QED
    BY <2>2
<1>7. ASSUME NEW q \in Places(level), NEW p \in at(q) PROVE at(q) = {p}
  <2>1. \A r \in at(q) : r \in UsedOf(a) /\ r \in Nat /\ next[r + 1] = q + 1 /\ next[r + 1] \in Nat
    BY <1>2, <1>5
  <2>2. \A r \in at(q) : ~(r < p) /\ ~(p < r)
    BY <2>1, <1>6
  <2> QED
    BY <2>1, <2>2
<1> HIDE DEF at
<1>8. ASSUME NEW q \in Places(level), NEW p \in at(q) PROVE b[q] = a[p] /\ p \in UsedOf(a) /\ a[p] # Empty
  <2>1. (CHOOSE r \in at(q) : TRUE) = p
    BY <1>7
  <2>2. b[q] = a[p]
    BY <2>1, <1>8
  <2> QED
    BY <2>2, <1>2 DEF at, UsedOf
<1>9. b \in [Places(level) -> Entries]
  <2>1. ASSUME NEW q \in Places(level) PROVE (IF at(q) = {} THEN Empty ELSE a[CHOOSE p \in at(q) : TRUE]) \in Entries
    <3>1. CASE at(q) = {}
      BY <3>1 DEF Entries
    <3>2. CASE at(q) # {}
      <4>1. PICK p \in at(q) : TRUE
        BY <3>2
      <4>2. p \in 0 .. n - 1
        BY <4>1 DEF at
      <4> QED
        BY <4>1, <4>2, <3>2, <1>2, <1>7
    <3> QED
      BY <3>1, <3>2
  <2> QED
    BY <2>1
<1>10. ASSUME NEW p \in UsedOf(a) PROVE to[p] \in UsedOf(b) /\ b[to[p]] = a[p] /\ to[p] = next[p + 1] - 1
  <2>1. to[p] \in Places(level) /\ p \in at(to[p])
    BY <1>5
  <2>2. b[to[p]] = a[p] /\ a[p] # Empty
    BY <2>1, <1>8
  <2> QED
    BY <2>1, <2>2, <1>9 DEF UsedOf
<1>11. ASSUME NEW q \in UsedOf(b) PROVE \E p \in UsedOf(a) : to[p] = q
  <2>1. q \in Places(level) /\ b[q] # Empty
    BY <1>9 DEF UsedOf
  <2>2. at(q) # {}
    BY <2>1
  <2>3. PICK p \in at(q) : TRUE
    BY <2>2
  <2>4. p \in UsedOf(a) /\ next[p + 1] = q + 1 /\ q \in Nat
    BY <2>1, <2>3, <1>2 DEF at, Places
  <2> QED
    BY <2>4
<1> HIDE DEF b
<1>12. to \in [UsedOf(a) -> UsedOf(b)]
  BY <1>10
<1>13. ASSUME NEW p \in UsedOf(a), NEW q \in UsedOf(a), p < q PROVE to[p] < to[q]
  <2>1. next[p + 1] < next[q + 1] /\ next[p + 1] \in Nat /\ next[q + 1] \in Nat
    BY <1>13, <1>5, <1>6
  <2> QED
    BY <2>1, <1>10
<1> HIDE DEF to
<1>14. Copies(a, b, level, to)
  BY <1>9, <1>10, <1>11, <1>12, <1>13 DEF Copies
<1> QED
  BY <1>1, <1>14 DEF to, next

\* No place between the home of the last of the first m entries and that entry
\* is empty: those before it have earlier homes.
LEMMA NoGaps ==
  ASSUME NEW old \in Levels, NEW level \in Levels, old < level, NEW a, Table(a, old),
         NEW m \in 0 .. Size(old), NEW q \in Nat, q < NextFree(a, Size(old), level)[m],
         \A p \in UsedOf(a) : p < m => Home(a[p].h, level) <= q
  PROVE  \E p \in UsedOf(a) : p < m /\ NextFree(a, Size(old), level)[p + 1] = q + 1
<1> DEFINE n == Size(old)
           next == NextFree(a, n, level)
           Before(k) == \A p \in UsedOf(a) : p < k => Home(a[p].h, level) <= q
           Taken(k) == \E p \in UsedOf(a) : p < k /\ next[p + 1] = q + 1
           N == {k \in Nat : (k <= n /\ q < next[k] /\ Before(k)) => Taken(k)}
<1>1. n \in Nat /\ a \in [0 .. n - 1 -> Entries] /\ UsedOf(a) \subseteq 0 .. n - 1
  <2>1. n \in Nat /\ a \in [0 .. n - 1 -> Entries]
    BY LevelFacts DEF Table, Places
  <2> QED
    BY <2>1 DEF UsedOf
<1>2. /\ next \in [0 .. n -> Nat] /\ next[0] = 0
      /\ \A p \in 0 .. n - 1 : next[p + 1] = NextIn(next, a, level, p)
  BY <1>1, NextFollows
<1>3. \A p \in UsedOf(a) : Home(a[p].h, level) \in Nat
  BY <1>1, EntryFacts, Homes DEF UsedOf
<1>4. q < next[m] /\ Before(m)
  OBVIOUS
<1> HIDE DEF next
<1>5. 0 \in N
  BY <1>2
<1>6. ASSUME NEW k \in N PROVE k + 1 \in N
  <2> SUFFICES ASSUME k + 1 <= n, q < next[k + 1], Before(k + 1) PROVE Taken(k + 1)
    OBVIOUS
  <2>1. k \in Nat /\ k \in 0 .. n - 1 /\ k <= n /\ next[k] \in Nat
    BY <1>1, <1>2, SMTT(40)
  <2>2. \A p \in UsedOf(a) : p \in Nat /\ (p < k => p < k + 1)
    BY <1>1, <2>1
  <2>3. Before(k)
    BY <2>2
  <2>4. Taken(k) => Taken(k + 1)
    BY <2>2
  <2>5. q < next[k] => Taken(k)
    BY <2>1, <2>3
  <2>6. CASE a[k] = Empty
    BY <2>1, <2>4, <2>5, <2>6, <1>2 DEF NextIn
  <2>7. CASE a[k] # Empty
    <3>1. k \in UsedOf(a) /\ k < k + 1
      BY <2>1, <2>7, <1>1 DEF UsedOf
    <3>2. PICK x \in Nat, e \in Nat : x = next[k] /\ e = Home(a[k].h, level)
      BY <2>1, <3>1, <1>3
    <3>3. e <= q
      BY <3>1, <3>2
    <3>4. next[k + 1] = After(x, e)
      BY <3>2, <2>1, <2>7, <1>2 DEF NextIn
    <3>5. CASE q + 1 = next[k + 1]
      BY <3>1, <3>5
    <3>6. CASE q + 1 # next[k + 1]
      <4>1. q < x
        BY <3>3, <3>4, <3>6 DEF After
      <4> QED
        BY <4>1, <3>2, <2>4, <2>5
    <3> QED
      BY <3>5, <3>6
  <2> QED
    BY <2>6, <2>7
<1>7. N = Nat
  <2>1. N \in SUBSET Nat
    OBVIOUS
  <2> HIDE DEF N
  <2> QED
    BY <2>1, <1>5, <1>6, Induction
<1>8. m \in N /\ m <= n
  BY <1>1, <1>7
<1>9. Taken(m)
  BY <1>4, <1>8
<1> QED
  BY <1>9 DEF next

LEMMA CopiedTable ==
  ASSUME NEW old \in Levels, NEW level \in Levels, old < level, NEW a, Table(a, old)
  PROVE  Table(Copied(a, Size(old), level), level)
<1> DEFINE n == Size(old)
           next == NextFree(a, n, level)
           to == [p \in UsedOf(a) |-> next[p + 1] - 1]
           b == Copied(a, n, level)
<1>1. /\ b \in [Places(level) -> Entries]
      /\ to \in [UsedOf(a) -> UsedOf(b)]
      /\ \A p \in UsedOf(a) : b[to[p]] = a[p]
      /\ \A q \in UsedOf(b) : \E p \in UsedOf(a) : to[p] = q
      /\ \A p, q \in UsedOf(a) : p < q => to[p] < to[q]
  BY Copying DEF Copies
<1>2. a \in [Places(old) -> Entries] /\ Packed(a, old)
  BY DEF Table
<1>3. \A p \in UsedOf(a) : a[p].h \in Hash /\ a[p].h \in Nat /\ p \in Nat /\ p <= n - 1
  BY <1>2, PlaceFacts, HashFacts
<1>4. /\ next \in [0 .. n -> Nat] /\ n \in Nat
      /\ \A p \in UsedOf(a) : next[p] < next[p + 1] /\ Home(a[p].h, level) < next[p + 1]
  BY NextBounds, LevelFacts
<1>5. \A p, q \in UsedOf(a) : q < p => a[q].h <= a[p].h
  BY <1>2 DEF Packed
<1>6. ASSUME NEW p \in UsedOf(a)
      PROVE  /\ to[p] = next[p + 1] - 1 /\ to[p] \in Nat /\ p + 1 \in 0 .. n /\ next[p + 1] \in Nat
             /\ Home(a[p].h, level) <= to[p] /\ Home(a[p].h, level) \in Nat
  <2>1. to[p] = next[p + 1] - 1 /\ p + 1 \in 0 .. n
    BY <1>3, <1>4
  <2>2. next[p + 1] \in Nat
    BY <2>1, <1>4
  <2>3. Home(a[p].h, level) \in Nat /\ Home(a[p].h, level) < next[p + 1]
    BY <1>3, <1>4, Homes
  <2> QED
    BY <2>1, <2>2, <2>3
<1>7. ASSUME NEW p \in UsedOf(a), NEW q \in Home(a[p].h, level) .. to[p] PROVE q \in UsedOf(b)
  <2>1. q \in Nat /\ q < next[p + 1]
    BY <1>6
  <2>2. ASSUME NEW r \in UsedOf(a), r < p + 1 PROVE Home(a[r].h, level) <= q
    <3>1. r = p \/ r < p
      BY <2>2, <1>3
    <3>2. a[r].h <= a[p].h
      BY <3>1, <1>3, <1>5
    <3>3. Home(a[r].h, level) <= Home(a[p].h, level)
      BY <3>2, <1>3, Homes
    <3> QED
      BY <3>3, <1>6
  <2>3. PICK r \in UsedOf(a) : next[r + 1] = q + 1
    BY <2>1, <2>2, <1>6, NoGaps
  <2>4. to[r] = q
    BY <2>1, <2>3, <1>6
  <2> QED
    BY <2>4, <1>1
<1> HIDE DEF to, b, next
<1>8. ASSUME NEW p \in UsedOf(b)
      PROVE  /\ Home(b[p].h, level) <= p
             /\ \A q \in Home(b[p].h, level) .. p : q \in UsedOf(b)
             /\ \A q \in UsedOf(b) : q < p => b[q].h <= b[p].h
  <2>1. PICK r \in UsedOf(a) : to[r] = p
    BY <1>1
  <2>2. b[p] = a[r]
    BY <2>1, <1>1
  <2>3. ASSUME NEW q \in UsedOf(b), q < p PROVE b[q].h <= b[p].h
    <3>1. PICK s \in UsedOf(a) : to[s] = q
      BY <1>1
    <3>2. b[q] = a[s]
      BY <3>1, <1>1
    <3>3. ~(r < s)
      <4>1. r < s => p < q
        BY <2>1, <3>1, <1>1
      <4>2. p \in Nat /\ q \in Nat
        BY <2>1, <3>1, <1>6
      <4> QED
        BY <4>1, <4>2, <2>3
    <3>4. s = r \/ s < r
      BY <3>3, <1>3
    <3> QED
      BY <3>2, <3>4, <2>2, <1>3, <1>5
  <2> QED
    BY <2>1, <2>2, <2>3, <1>6, <1>7
<1> QED
  BY <1>1, <1>8 DEF Table, Packed, b

LEMMA CopiedNames ==
  ASSUME NEW old \in Levels, NEW level \in Levels, old < level, NEW a, Table(a, old),
         NEW S, NEW g, Names(a, S, g)
  PROVE  Names(Copied(a, Size(old), level), S, g)
<1> DEFINE b == Copied(a, Size(old), level)
<1>1. \E to : Copies(a, b, level, to)
  BY Copying
<1> HIDE DEF b
<1>2. PICK to : Copies(a, b, level, to)
  BY <1>1
<1>3. /\ to \in [UsedOf(a) -> UsedOf(b)] /\ UsedOf(a) \subseteq Nat /\ UsedOf(b) \subseteq Nat
      /\ \A p \in UsedOf(a) : b[to[p]] = a[p]
      /\ \A q \in UsedOf(b) : \E p \in UsedOf(a) : to[p] = q
      /\ \A p, q \in UsedOf(a) : p < q => to[p] < to[q]
  <2>1. b \in [Places(level) -> Entries] /\ a \in [Places(old) -> Entries]
    BY <1>2 DEF Copies, Table
  <2>2. UsedOf(a) \subseteq Nat /\ UsedOf(b) \subseteq Nat
    BY <2>1, PlaceFacts
  <2> QED
    BY <2>2, <1>2 DEF Copies
<1> DEFINE from == [q \in UsedOf(b) |-> CHOOSE p \in UsedOf(a) : to[p] = q]
<1>4. \A q \in UsedOf(b) : from[q] \in UsedOf(a) /\ to[from[q]] = q
  BY <1>3
<1> HIDE DEF from
<1>5. \A q \in UsedOf(b) : b[q].i = a[from[q]].i /\ b[q].h = a[from[q]].h
  BY <1>3, <1>4
<1>6. {b[q].i : q \in UsedOf(b)} = S
  <2>1. \A x \in S : \E p \in UsedOf(a) : a[p].i = x
    BY DEF Names
  <2>2. \A x \in S : \E q \in UsedOf(b) : b[q].i = x
    BY <2>1, <1>3
  <2>3. \A q \in UsedOf(b) : b[q].i \in S
    BY <1>4, <1>5 DEF Names
  <2> QED
    BY <2>2, <2>3
<1>7. \A p, q \in UsedOf(b) : b[p].i = b[q].i => p = q
  BY <1>4, <1>5 DEF Names
<1>8. \A p \in UsedOf(b) : b[p].h = g[b[p].i]
  BY <1>4, <1>5 DEF Names
<1> QED
  BY <1>6, <1>7, <1>8 DEF Names, b

\* hashmap_resize gives a larger table with the same entries, or none.
LEMMA Resizing ==
  ASSUME NEW old \in Levels, NEW a, Table(a, old), NEW S, NEW g, Names(a, S, g),
         Resize(a, old).level # 0
  PROVE  LET r == Resize(a, old)
         IN r.level \in Levels /\ Table(r.a, r.level) /\ Closed(r.a, r.level) /\ Names(r.a, S, g)
<1> DEFINE fits == {level \in old + 1 .. LastLevel : Copied(a, Size(old), level)[Size(level) - 1] = Empty}
           r == Resize(a, old)
<1>1. r = IF fits = {} THEN NoTable ELSE [level |-> Min(fits), a |-> Copied(a, Size(old), Min(fits))]
  BY DEF Resize
<1>2. fits # {}
  BY <1>1 DEF NoTable
<1>3. Min(fits) \in fits
  <2>1. fits \in SUBSET Nat
    BY SizesAssumption DEF Levels
  <2> HIDE DEF fits
  <2> QED
    BY <1>2, <2>1, LeastElement
<1>4. PICK level \in fits : level = Min(fits)
  BY <1>3
<1>5. level \in Levels /\ old < level /\ Copied(a, Size(old), level)[Size(level) - 1] = Empty
  BY <1>4, SizesAssumption DEF Levels
<1>6. r.level = level /\ r.a = Copied(a, Size(old), level)
  BY <1>1, <1>2, <1>4
<1> HIDE DEF fits, r
<1>7. Table(r.a, level) /\ Names(r.a, S, g) /\ Closed(r.a, level)
  BY <1>5, <1>6, CopiedTable, CopiedNames DEF Closed
<1> QED
  BY <1>5, <1>6, <1>7 DEF r

-----------------------------------------------------------------------------
(* The lists without their deleted keys *)

\* Ranks number the elements of `live` in their order.
LEMMA Ranks ==
  ASSUME NEW n \in Nat, NEW live \in SUBSET (1 .. n)
  PROVE  /\ IsFiniteSet(live) /\ Cardinality(live) \in 0 .. n
         /\ \A i \in live : RankIn(live, i) \in 1 .. Cardinality(live) /\ RankIn(live, i) <= i
         /\ \A i, j \in live : i < j => RankIn(live, i) < RankIn(live, j)
         /\ \A i, j \in live : RankIn(live, i) = RankIn(live, j) => i = j
<1> DEFINE upto(i) == {j \in live : j <= i}
           c == Cardinality(live)
<1>1. IsFiniteSet(1 .. n) /\ Cardinality(1 .. n) = n
  BY FS_Interval
<1>2. IsFiniteSet(live) /\ c <= n /\ c \in Nat
  BY <1>1, FS_Subset, FS_CardinalityType
<1>0. \A x \in live : x \in Nat /\ x >= 1 /\ x <= n
  OBVIOUS
<1>3. ASSUME NEW i \in live
      PROVE  IsFiniteSet(upto(i)) /\ RankIn(live, i) = Cardinality(upto(i)) /\ RankIn(live, i) \in 1 .. c /\ RankIn(live, i) <= i
  <2>1. IsFiniteSet(upto(i)) /\ Cardinality(upto(i)) <= c /\ Cardinality(upto(i)) \in Nat
    <3>1. upto(i) \in SUBSET live
      OBVIOUS
    <3> HIDE DEF upto
    <3> QED
      BY <3>1, <1>2, FS_Subset, FS_CardinalityType
  <2>2. i \in Nat /\ i \in upto(i)
    BY <1>0
  <2>3. Cardinality(upto(i)) # 0
    BY <2>1, <2>2, FS_EmptySet
  <2>4. Cardinality(upto(i)) <= i
    <3>1. IsFiniteSet(1 .. i) /\ Cardinality(1 .. i) = i
      BY <2>2, FS_Interval
    <3>2. \A x \in upto(i) : x \in Nat /\ x >= 1 /\ x <= i
      BY <1>0
    <3> HIDE DEF upto
    <3>3. \A x \in upto(i) : x \in 1 .. i
      BY <3>2, <2>2
    <3>4. upto(i) \in SUBSET (1 .. i)
      BY <3>3
    <3> QED
      BY <3>1, <3>4, <2>1, FS_Subset
  <2>5. RankIn(live, i) = Cardinality(upto(i))
    BY DEF RankIn
  <2> QED
    BY <2>1, <2>3, <2>4, <2>5, <1>2
<1>4. ASSUME NEW i \in live, NEW j \in live, i < j PROVE RankIn(live, i) < RankIn(live, j)
  <2>0. i \in Nat /\ j \in Nat
    BY <1>0
  <2>3. \A x \in upto(i) : x \in live /\ x \in Nat /\ x <= i
    BY <1>0
  <2>4. \A x \in upto(i) : x \in live /\ x <= j
    BY <2>0, <2>3, <1>4
  <2>5. j \in upto(j) /\ j \notin upto(i)
    BY <2>0, <1>4
  <2>1. upto(i) \in SUBSET upto(j) /\ j \in upto(j) /\ j \notin upto(i)
    BY <2>4, <2>5
  <2> HIDE DEF upto
  <2>2. Cardinality(upto(i)) <= Cardinality(upto(j)) /\ Cardinality(upto(i)) # Cardinality(upto(j))
    BY <2>1, <1>3, FS_Subset
  <2> QED
    BY <2>2, <1>3, <1>2
<1>5. ASSUME NEW i \in live, NEW j \in live, RankIn(live, i) = RankIn(live, j) PROVE i = j
  <2>3. i \in Nat /\ j \in Nat /\ RankIn(live, i) \in 1 .. c /\ RankIn(live, j) \in 1 .. c
    BY <1>0, <1>3
  <2> HIDE DEF c
  <2>1. i \in Nat /\ j \in Nat /\ RankIn(live, i) \in Nat /\ RankIn(live, j) \in Nat
    BY <1>2, <2>3
  <2>2. ~(i < j) /\ ~(j < i)
    BY <2>1, <1>4, <1>5
  <2> QED
    BY <2>1, <2>2
<1>6. c \in 0 .. n
  <2> HIDE DEF c
  <2> QED
    BY <1>2
<1>7. \A i \in live : RankIn(live, i) \in 1 .. c /\ RankIn(live, i) <= i
  BY <1>3
<1>8. \A i, j \in live : i < j => RankIn(live, i) < RankIn(live, j)
  BY <1>4
<1>9. \A i, j \in live : RankIn(live, i) = RankIn(live, j) => i = j
  BY <1>5
<1> QED
  BY <1>2, <1>6, <1>7, <1>8, <1>9, Zenon

\* Every rank is taken.
LEMMA Nth ==
  ASSUME NEW n \in Nat, NEW live \in SUBSET (1 .. n)
  PROVE  /\ \A m \in 1 .. Cardinality(live) : NthIn(live, m) \in live /\ RankIn(live, NthIn(live, m)) = m
         /\ \A i \in live : NthIn(live, RankIn(live, i)) = i
<1> DEFINE c == Cardinality(live)
           f == [i \in live |-> RankIn(live, i)]
<1>1. /\ IsFiniteSet(live) /\ c \in Nat
      /\ \A i \in live : RankIn(live, i) \in 1 .. c
      /\ \A i, j \in live : RankIn(live, i) = RankIn(live, j) => i = j
  BY Ranks
<1>2. f \in Injection(live, 1 .. c)
  BY <1>1 DEF Injection, IsInjective
<1>3. IsFiniteSet(1 .. c) /\ Cardinality(1 .. c) = c
  BY <1>1, FS_Interval
<1>4. f \in Surjection(live, 1 .. c)
  BY <1>2, <1>3, FS_Injection
<1>5. \A m \in 1 .. c : \E i \in live : f[i] = m
  BY <1>4 DEF Surjection
<1>6. ASSUME NEW m \in 1 .. c PROVE NthIn(live, m) \in live /\ RankIn(live, NthIn(live, m)) = m
  <2>1. \E i \in live : RankIn(live, i) = m
    BY <1>5
  <2> QED
    BY <2>1, Zenon DEF NthIn
<1>7. ASSUME NEW i \in live PROVE NthIn(live, RankIn(live, i)) = i
  <2>1. RankIn(live, NthIn(live, RankIn(live, i))) = RankIn(live, i) /\ NthIn(live, RankIn(live, i)) \in live
    BY <1>1, <1>6
  <2> QED
    BY <2>1, <1>1
<1> QED
  BY <1>6, <1>7

\* Kept gives the elements at the places in `live`, in order.
LEMMA Keeping ==
  ASSUME NEW V, NEW s \in Seq(V), NEW live \in SUBSET (1 .. Len(s))
  PROVE  /\ Kept(live, s) \in Seq(V) /\ Len(Kept(live, s)) = Cardinality(live)
         /\ DOMAIN Kept(live, s) = 1 .. Cardinality(live)
         /\ Cardinality(live) \in Nat /\ Cardinality(live) <= Len(s)
         /\ \A i \in live : RankIn(live, i) \in 1 .. Cardinality(live) /\ Kept(live, s)[RankIn(live, i)] = s[i]
         /\ \A m \in 1 .. Cardinality(live) : \E i \in live : RankIn(live, i) = m /\ Kept(live, s)[m] = s[i]
<1> DEFINE c == Cardinality(live)
<1>1. Len(s) \in Nat /\ c \in 0 .. Len(s) /\ \A i \in live : RankIn(live, i) \in 1 .. c
  <2>1. Len(s) \in Nat
    OBVIOUS
  <2> QED
    BY <2>1, Ranks
<1>2. /\ \A m \in 1 .. c : NthIn(live, m) \in live /\ RankIn(live, NthIn(live, m)) = m
      /\ \A i \in live : NthIn(live, RankIn(live, i)) = i
  BY <1>1, Nth
<1>3. \A i \in live : s[i] \in V
  OBVIOUS
<1> HIDE DEF c
<1>4. Kept(live, s) = [m \in 1 .. c |-> s[NthIn(live, m)]]
  BY DEF Kept, c
<1>5. Kept(live, s) \in [1 .. c -> V]
  BY <1>2, <1>3, <1>4
<1>6. Kept(live, s) \in Seq(V) /\ Len(Kept(live, s)) = c /\ DOMAIN Kept(live, s) = 1 .. c
  BY <1>1, <1>5
<1>7. \A i \in live : Kept(live, s)[RankIn(live, i)] = s[i]
  BY <1>1, <1>2, <1>4
<1>8. \A m \in 1 .. c : \E i \in live : RankIn(live, i) = m /\ Kept(live, s)[m] = s[i]
  BY <1>2, <1>4
<1> QED
  BY <1>1, <1>6, <1>7, <1>8 DEF c

\* A list of the same places that has the same elements is the same list.
LEMMA KeptIs ==
  ASSUME NEW V, NEW s \in Seq(V), NEW live \in SUBSET (1 .. Len(s)), NEW r \in Seq(V),
         Len(r) = Cardinality(live), \A i \in live : r[RankIn(live, i)] = s[i]
  PROVE  r = Kept(live, s)
<1>1. /\ Kept(live, s) \in Seq(V) /\ Len(Kept(live, s)) = Cardinality(live)
      /\ \A m \in 1 .. Cardinality(live) : \E i \in live : RankIn(live, i) = m /\ Kept(live, s)[m] = s[i]
  BY Keeping
<1>2. \A m \in 1 .. Len(r) : r[m] = Kept(live, s)[m]
  BY <1>1
<1> QED
  BY <1>1, <1>2

LEMMA KeptAgree ==
  ASSUME NEW V, NEW s \in Seq(V), NEW u \in Seq(V), NEW live \in SUBSET (1 .. Len(s)), live \in SUBSET (1 .. Len(u)),
         \A i \in live : s[i] = u[i]
  PROVE  Kept(live, s) = Kept(live, u)
<1>1. /\ Kept(live, s) \in Seq(V) /\ Len(Kept(live, s)) = Cardinality(live)
      /\ \A i \in live : Kept(live, s)[RankIn(live, i)] = s[i]
  BY Keeping
<1> QED
  BY <1>1, KeptIs

LEMMA KeptAll ==
  ASSUME NEW V, NEW s \in Seq(V)
  PROVE  Kept(1 .. Len(s), s) = s /\ Cardinality(1 .. Len(s)) = Len(s)
<1>1. Len(s) \in Nat
  OBVIOUS
<1>2. ASSUME NEW i \in 1 .. Len(s) PROVE RankIn(1 .. Len(s), i) = i
  <2>1. {j \in 1 .. Len(s) : j <= i} = 1 .. i /\ i \in Int /\ i >= 1
    BY <1>1
  <2>2. Cardinality(1 .. i) = i
    BY <2>1, FS_Interval
  <2> QED
    BY <2>1, <2>2 DEF RankIn
<1>3. Cardinality(1 .. Len(s)) = Len(s)
  BY <1>1, FS_Interval, SMTT(40)
<1>4. s = Kept(1 .. Len(s), s)
  BY <1>2, <1>3, KeptIs
<1> QED
  BY <1>3, <1>4

\* One more at the end
LEMMA KeptMore ==
  ASSUME NEW V, NEW s \in Seq(V), NEW live \in SUBSET (1 .. Len(s)), NEW v \in V
  PROVE  /\ Kept(live \cup {Len(s) + 1}, Append(s, v)) = Append(Kept(live, s), v)
         /\ Cardinality(live \cup {Len(s) + 1}) = Cardinality(live) + 1
<1> DEFINE n == Len(s)
           u == Append(s, v)
           more == live \cup {n + 1}
           r == Append(Kept(live, s), v)
<1>1. n \in Nat /\ u \in Seq(V) /\ Len(u) = n + 1 /\ u[n + 1] = v /\ \A i \in 1 .. n : u[i] = s[i]
  OBVIOUS
<1>2. n + 1 \notin live /\ IsFiniteSet(live)
  BY <1>1, Ranks
<1>3. Cardinality(more) = Cardinality(live) + 1
  BY <1>2, FS_AddElement
<1>4. /\ Kept(live, s) \in Seq(V) /\ Len(Kept(live, s)) = Cardinality(live) /\ Cardinality(live) \in Nat
      /\ \A i \in live : RankIn(live, i) \in 1 .. Cardinality(live) /\ Kept(live, s)[RankIn(live, i)] = s[i]
  BY Keeping
<1>5. ASSUME NEW i \in live PROVE RankIn(more, i) = RankIn(live, i)
  <2>1. {j \in more : j <= i} = {j \in live : j <= i}
    BY <1>1
  <2> QED
    BY <2>1 DEF RankIn
<1>6. RankIn(more, n + 1) = Cardinality(live) + 1
  <2>0. \A j \in live : j \in Nat /\ j <= n
    BY <1>1
  <2> HIDE DEF n
  <2>1. \A j \in more : j <= n + 1
    BY <1>1, <2>0
  <2>2. {j \in more : j <= n + 1} = more
    BY <2>1
  <2> QED
    BY <2>2, <1>3 DEF RankIn, n
<1>7. /\ r \in Seq(V) /\ Len(r) = Cardinality(live) + 1 /\ r[Cardinality(live) + 1] = v
      /\ \A m \in 1 .. Cardinality(live) : r[m] = Kept(live, s)[m]
  BY <1>4
<1>8. more \in SUBSET (1 .. Len(u))
  BY <1>1
<1>9. \A i \in more : r[RankIn(more, i)] = u[i]
  BY <1>1, <1>4, <1>5, <1>6, <1>7
<1> HIDE DEF r, more, u
<1>10. r = Kept(more, u)
  BY <1>1, <1>3, <1>7, <1>8, <1>9, KeptIs, SMTT(40)
<1> QED
  BY <1>3, <1>10 DEF r, more, u

\* One element replaced
LEMMA KeptSet ==
  ASSUME NEW V, NEW s \in Seq(V), NEW live \in SUBSET (1 .. Len(s)), NEW i \in live, NEW v \in V,
         NEW u, u = [s EXCEPT ![i] = v], NEW r, r = [Kept(live, s) EXCEPT ![RankIn(live, i)] = v]
  PROVE  Kept(live, u) = r
<1> DEFINE c == Cardinality(live)
<1>1. u \in Seq(V) /\ Len(u) = Len(s) /\ u[i] = v /\ \A j \in 1 .. Len(s) : j # i => u[j] = s[j]
  OBVIOUS
<1>2. /\ Kept(live, s) \in Seq(V) /\ Len(Kept(live, s)) = c
      /\ \A j \in live : RankIn(live, j) \in 1 .. c /\ Kept(live, s)[RankIn(live, j)] = s[j]
  BY Keeping
<1>3. \A j \in live : RankIn(live, j) = RankIn(live, i) => j = i
  <2>1. Len(s) \in Nat
    OBVIOUS
  <2> QED
    BY <2>1, Ranks
<1> HIDE DEF c
<1>4. /\ r \in Seq(V) /\ Len(r) = c /\ r[RankIn(live, i)] = v
      /\ \A m \in 1 .. c : m # RankIn(live, i) => r[m] = Kept(live, s)[m]
  BY <1>2
<1>5. \A j \in live : r[RankIn(live, j)] = u[j]
  BY <1>1, <1>2, <1>3, <1>4
<1>6. r = Kept(live, u)
  <2>1. u \in Seq(V) /\ live \in SUBSET (1 .. Len(u))
    BY <1>1
  <2>2. r \in Seq(V) /\ Len(r) = Cardinality(live)
    BY <1>4 DEF c
  <2> QED
    BY ONLY <2>1, <2>2, <1>5, KeptIs
<1> QED
  BY <1>6

\* What RemoveAt leaves
LEMMA Removal ==
  ASSUME NEW V, NEW K \in Seq(V), NEW k \in 1 .. Len(K)
  PROVE  /\ RemoveAt(K, k) \in Seq(V) /\ Len(RemoveAt(K, k)) = Len(K) - 1
         /\ \A m \in 1 .. Len(K) - 1 : RemoveAt(K, k)[m] = IF m < k THEN K[m] ELSE K[m + 1]
<1> DEFINE c == Len(K)
           r == RemoveAt(K, k)
           x == SubSeq(K, 1, k - 1)
           y == SubSeq(K, k + 1, c)
<1>1. c \in Nat /\ k \in 1 .. c
  OBVIOUS
<1>2. /\ x \in Seq(V) /\ Len(x) = k - 1 /\ \A m \in 1 .. k - 1 : x[m] = K[m]
      /\ y \in Seq(V) /\ Len(y) = c - k /\ \A m \in 1 .. c - k : y[m] = K[m + k]
  BY <1>1
<1>3. r = x \o y
  BY DEF RemoveAt
<1> HIDE DEF x, y, c
<1>7. /\ x \o y \in Seq(V) /\ Len(x \o y) = Len(x) + Len(y)
      /\ \A m \in 1 .. Len(x) + Len(y) : (x \o y)[m] = IF m <= Len(x) THEN x[m] ELSE y[m - Len(x)]
  <2>1. x \in Seq(V) /\ y \in Seq(V)
    BY <1>2
  <2> QED
    BY ONLY <2>1
<1>4. /\ x \o y \in Seq(V) /\ Len(x \o y) = (k - 1) + (c - k)
      /\ \A m \in 1 .. (k - 1) + (c - k) : (x \o y)[m] = IF m <= k - 1 THEN x[m] ELSE y[m - (k - 1)]
  BY ONLY <1>2, <1>7, Zenon
<1>5. ASSUME NEW m \in 1 .. c - 1 PROVE r[m] = IF m < k THEN K[m] ELSE K[m + 1]
  <2>1. CASE m < k
    <3>1. m \in 1 .. k - 1 /\ m \in 1 .. (k - 1) + (c - k) /\ m <= k - 1
      BY <2>1, <1>1
    <3> QED
      BY <3>1, <2>1, <1>2, <1>3, <1>4
  <2>2. CASE ~(m < k)
    <3>1. /\ m - (k - 1) \in 1 .. c - k /\ (m - (k - 1)) + k = m + 1
          /\ m \in 1 .. (k - 1) + (c - k) /\ ~(m <= k - 1)
      BY <2>2, <1>1
    <3> QED
      BY <3>1, <2>2, <1>2, <1>3, <1>4
  <2> QED
    BY <2>1, <2>2
<1>6. (k - 1) + (c - k) = c - 1
  BY <1>1
<1> HIDE DEF r
<1> QED
  BY <1>3, <1>4, <1>5, <1>6 DEF r, c

\* One less
LEMMA KeptLess ==
  ASSUME NEW V, NEW s \in Seq(V), NEW live \in SUBSET (1 .. Len(s)), NEW i \in live
  PROVE  /\ Kept(live \ {i}, s) = RemoveAt(Kept(live, s), RankIn(live, i))
         /\ Cardinality(live \ {i}) = Cardinality(live) - 1
<1> DEFINE less == live \ {i}
           c == Cardinality(live)
           K == Kept(live, s)
           k == RankIn(live, i)
           r == RemoveAt(K, k)
<1>1. Len(s) \in Nat
  OBVIOUS
<1>2. IsFiniteSet(live) /\ c \in Nat /\ \A x, y \in live : x < y => RankIn(live, x) < RankIn(live, y)
  BY <1>1, Ranks
<1>3. Cardinality(less) = c - 1
  BY <1>2, FS_RemoveElement
<1>4. /\ K \in Seq(V) /\ Len(K) = c
      /\ \A j \in live : RankIn(live, j) \in 1 .. c /\ K[RankIn(live, j)] = s[j]
  BY Keeping
<1>5. k \in 1 .. c
  BY <1>4
<1>6. ASSUME NEW j \in less
      PROVE  RankIn(less, j) = IF j < i THEN RankIn(live, j) ELSE RankIn(live, j) - 1
  <2> DEFINE A == {x \in live : x <= j}
  <2>0. i \in Nat /\ j \in Nat /\ j # i
    OBVIOUS
  <2>1. CASE j < i
    <3>1. {x \in less : x <= j} = A
      BY <2>0, <2>1
    <3> QED
      BY <3>1, <2>1 DEF RankIn
  <2>2. CASE ~(j < i)
    <3>1. {x \in less : x <= j} = A \ {i} /\ i \in A
      BY <2>0, <2>2
    <3>2. IsFiniteSet(A)
      <4>1. A \in SUBSET live
        OBVIOUS
      <4> QED
        BY <4>1, <1>2, FS_Subset
    <3> HIDE DEF A
    <3>3. Cardinality(A \ {i}) = Cardinality(A) - 1
      BY <3>1, <3>2, FS_RemoveElement
    <3> QED
      BY <3>1, <3>3, <2>2 DEF RankIn, A
  <2> QED
    BY <2>1, <2>2
<1> HIDE DEF K, k, c
<1>7. /\ r \in Seq(V) /\ Len(r) = c - 1
      /\ \A m \in 1 .. c - 1 : r[m] = IF m < k THEN K[m] ELSE K[m + 1]
  BY <1>4, <1>5, Removal
<1> HIDE DEF r
<1>8. ASSUME NEW j \in less PROVE r[RankIn(less, j)] = s[j]
  <2>0. j \in live /\ j # i /\ i \in Nat /\ j \in Nat
    OBVIOUS
  <2>1. RankIn(live, j) \in 1 .. c /\ K[RankIn(live, j)] = s[j]
    BY <1>4
  <2>2. CASE j < i
    <3>1. RankIn(live, j) < k
      BY <2>2, <1>2 DEF k
    <3>2. RankIn(live, j) \in 1 .. c - 1
      BY <3>1, <2>1, <1>2, <1>5
    <3> QED
      BY <3>1, <3>2, <2>1, <2>2, <1>6, <1>7
  <2>3. CASE ~(j < i)
    <3>1. i < j
      BY <2>0, <2>3
    <3>2. k < RankIn(live, j)
      BY <3>1, <1>2 DEF k
    <3>3. RankIn(live, j) - 1 \in 1 .. c - 1 /\ ~(RankIn(live, j) - 1 < k) /\ (RankIn(live, j) - 1) + 1 = RankIn(live, j)
      BY <3>2, <2>1, <1>2, <1>5
    <3> QED
      BY <3>3, <2>1, <2>3, <1>6, <1>7
  <2> QED
    BY <2>2, <2>3
<1>9. less \in SUBSET (1 .. Len(s))
  OBVIOUS
<1> HIDE DEF less
<1>10. r = Kept(less, s)
  BY <1>3, <1>7, <1>8, <1>9, KeptIs, SMTT(40)
<1> QED
  BY <1>3, <1>10 DEF less, c, K, k, r

-----------------------------------------------------------------------------
(* Maps: the table and the lists together *)

Record(level, a, pop, keys, vals) == [level |-> level, a |-> a, pop |-> pop, keys |-> keys, vals |-> vals]
HashesOf(keys) == [i \in DOMAIN keys |-> hash[keys[i]]]
ValidHash == hash \in [Keys -> Hash]

\* The lists: a deleted key has no value, and the keys that are there differ.
Listed(t) ==
  /\ t.keys \in Seq(Keys \cup {None}) /\ t.vals \in Seq(Vals \cup {None})
  /\ Len(t.keys) = Len(t.vals) /\ Len(t.keys) <= MaxList
  /\ t.pop = Cardinality(LiveIn(t))
  /\ \A i \in 1 .. Len(t.keys) : t.keys[i] = None <=> t.vals[i] = None
  /\ \A i, j \in LiveIn(t) : t.keys[i] = t.keys[j] => i = j
Tabled(t) ==
  /\ t.level \in Levels /\ Table(t.a, t.level) /\ Closed(t.a, t.level)
  /\ Names(t.a, LiveIn(t), HashesOf(t.keys))
Sound(t) == t = Record(t.level, t.a, t.pop, t.keys, t.vals) /\ Listed(t) /\ Tabled(t)

LEMMA Live ==
  ASSUME NEW t, Listed(t)
  PROVE  /\ LiveIn(t) \in SUBSET (1 .. Len(t.keys)) /\ DOMAIN t.keys = 1 .. Len(t.keys) /\ Len(t.keys) \in Nat
         /\ LiveIn(t) \in SUBSET (1 .. Len(t.vals)) /\ DOMAIN t.vals = 1 .. Len(t.keys)
         /\ \A i \in 1 .. Len(t.keys) : i \notin LiveIn(t) => t.keys[i] = None /\ t.vals[i] = None
         /\ \A i \in LiveIn(t) : t.keys[i] \in Keys /\ t.vals[i] \in Vals /\ i \in 1 .. MaxList
         /\ t.pop \in 0 .. Len(t.keys)
<1>1. /\ t.keys \in Seq(Keys \cup {None}) /\ t.vals \in Seq(Vals \cup {None}) /\ Len(t.keys) = Len(t.vals)
      /\ Len(t.keys) <= MaxList /\ t.pop = Cardinality(LiveIn(t))
      /\ \A i \in 1 .. Len(t.keys) : t.keys[i] = None <=> t.vals[i] = None
  BY DEF Listed
<1>2. /\ DOMAIN t.keys = 1 .. Len(t.keys) /\ DOMAIN t.vals = 1 .. Len(t.keys) /\ Len(t.keys) \in Nat
      /\ \A i \in 1 .. Len(t.keys) : t.keys[i] \in Keys \cup {None} /\ t.vals[i] \in Vals \cup {None}
  BY <1>1
<1>3. LiveIn(t) = {i \in 1 .. Len(t.keys) : t.keys[i] # None}
  BY <1>2 DEF LiveIn
<1>4. LiveIn(t) \in SUBSET (1 .. Len(t.keys))
  BY <1>3
<1>5. t.pop \in 0 .. Len(t.keys)
  BY <1>1, <1>2, <1>4, Ranks
<1>6. \A i \in LiveIn(t) : t.keys[i] \in Keys /\ t.vals[i] \in Vals /\ i \in 1 .. MaxList
  <2> TAKE i \in LiveIn(t)
  <2>1. i \in 1 .. Len(t.keys) /\ t.keys[i] # None
    BY <1>3
  <2>2. t.keys[i] \in Keys /\ t.vals[i] \in Vals
    BY <1>1, <1>2, <2>1
  <2>3. i \in 1 .. MaxList
    BY <1>1, <1>2, <2>1, BoundsAssumption
  <2> QED
    BY <2>2, <2>3
<1>7. \A i \in 1 .. Len(t.keys) : i \notin LiveIn(t) => t.keys[i] = None /\ t.vals[i] = None
  BY <1>1, <1>3
<1> QED
  BY <1>1, <1>2, <1>4, <1>5, <1>6, <1>7

LEMMA NamesAgree ==
  ASSUME NEW a, NEW S, NEW g, NEW f, Names(a, S, g), \A i \in S : f[i] = g[i]
  PROVE  Names(a, S, f)
BY DEF Names

\* A search finds the key exactly if it is there.
LEMMA Matching ==
  ASSUME NEW t, Sound(t), ValidHash, NEW k \in Keys
  PROVE  /\ Matches(t, k) = {} => \A i \in LiveIn(t) : t.keys[i] # k
         /\ Matches(t, k) # {} => /\ Min(Matches(t, k)) \in UsedOf(t.a)
                                  /\ t.a[Min(Matches(t, k))].i \in LiveIn(t)
                                  /\ t.keys[t.a[Min(Matches(t, k))].i] = k
<1> DEFINE h == hash[k]
           s == Start(t, h)
           j == Stop(t, h)
           M == Matches(t, k)
<1>1. h \in Hash
  BY DEF ValidHash
<1>2. t.level \in Levels /\ Table(t.a, t.level) /\ Closed(t.a, t.level) /\ Names(t.a, LiveIn(t), HashesOf(t.keys))
  BY DEF Sound, Tabled
<1>3. Found(t.a, t.level, h, s, j)
  BY <1>1, <1>2, Search
<1> HIDE DEF s, j, h
<1>4. /\ s \in Nat /\ j \in Nat /\ j <= Size(t.level) - 1 /\ Home(h, t.level) <= s
      /\ \A p \in Home(h, t.level) .. j - 1 : p \in UsedOf(t.a)
      /\ \A p \in UsedOf(t.a) : /\ p < s => t.a[p].h < h
                                /\ j <= p => t.a[p].h > h
  BY <1>3 DEF Found
<1>5. M = {p \in s .. j - 1 : t.keys[t.a[p].i] = k}
  BY DEF Matches, s, j, h
<1>6. UsedOf(t.a) \subseteq Nat /\ Home(h, t.level) \in Nat /\ h \in Nat
  BY <1>1, <1>2, PlaceFacts, Homes, HashFacts DEF Table
<1>7. M \in SUBSET UsedOf(t.a) /\ M \in SUBSET Nat
  BY <1>4, <1>5, <1>6
<1>8. /\ LiveIn(t) = {t.a[p].i : p \in UsedOf(t.a)}
      /\ \A p \in UsedOf(t.a) : t.a[p].h = HashesOf(t.keys)[t.a[p].i]
  BY <1>2 DEF Names
<1> HIDE DEF M
<1>9. ASSUME M # {} PROVE Min(M) \in UsedOf(t.a) /\ t.a[Min(M)].i \in LiveIn(t) /\ t.keys[t.a[Min(M)].i] = k
  <2>1. Min(M) \in M
    BY <1>7, <1>9, LeastElement
  <2> QED
    BY <2>1, <1>5, <1>7, <1>8
<1>10. ASSUME NEW i \in LiveIn(t), t.keys[i] = k PROVE M # {}
  <2>1. PICK p \in UsedOf(t.a) : t.a[p].i = i
    BY <1>8
  <2>2. i \in DOMAIN t.keys
    BY DEF LiveIn
  <2>3. t.a[p].h = h
    BY <1>8, <1>10, <2>1, <2>2 DEF HashesOf, h
  <2>4. s <= p /\ p < j
    BY <2>3, <1>4, <1>6
  <2>5. p \in M
    BY <2>1, <2>4, <1>4, <1>5, <1>6, <1>10
  <2> QED
    BY <2>5
<1> QED
  BY <1>9, <1>10 DEF M

LEMMA Looking ==
  ASSUME NEW t, Sound(t), ValidHash, NEW k \in Keys, NEW default
  PROVE  /\ \A i \in LiveIn(t) : t.keys[i] = k => Lookup(t, k, default) = t.vals[i]
         /\ (\A i \in LiveIn(t) : t.keys[i] # k) => Lookup(t, k, default) = default
<1>1. /\ Matches(t, k) = {} => \A i \in LiveIn(t) : t.keys[i] # k
      /\ Matches(t, k) # {} => t.a[Min(Matches(t, k))].i \in LiveIn(t) /\ t.keys[t.a[Min(Matches(t, k))].i] = k
  BY Matching
<1>2. \A i, j \in LiveIn(t) : t.keys[i] = t.keys[j] => i = j
  BY DEF Sound, Listed
<1> QED
  BY <1>1, <1>2 DEF Lookup

-----------------------------------------------------------------------------
(* What the operations do to a map *)

\* The value of a key that is there is replaced.
LEMMA Replacing ==
  ASSUME NEW t, Sound(t), ValidHash, NEW k \in Keys, Matches(t, k) # {}, NEW v \in Vals
  PROVE  \E i \in LiveIn(t) :
           /\ t.keys[i] = k /\ Sound(Replace(t, k, v)) /\ LiveIn(Replace(t, k, v)) = LiveIn(t)
           /\ Replace(t, k, v).keys = t.keys /\ Replace(t, k, v).vals = [t.vals EXCEPT ![i] = v]
<1>1. PICK i \in LiveIn(t) : i = t.a[Min(Matches(t, k))].i /\ t.keys[i] = k
  BY Matching
<1> DEFINE w == [t.vals EXCEPT ![i] = v]
           u == Record(t.level, t.a, t.pop, t.keys, w)
<1>2. t = Record(t.level, t.a, t.pop, t.keys, t.vals) /\ Listed(t) /\ Tabled(t)
  BY DEF Sound
<1>3. Replace(t, k, v) = [t EXCEPT !.vals[i] = v]
  BY <1>1 DEF Replace
<1>4. Replace(t, k, v) = u
  BY <1>2, <1>3 DEF Record
<1>5. i \in 1 .. Len(t.keys) /\ t.vals \in Seq(Vals \cup {None}) /\ Len(t.vals) = Len(t.keys) /\ t.keys[i] # None
  BY <1>2, Live DEF Listed, LiveIn
<1>6. /\ w \in Seq(Vals \cup {None}) /\ Len(w) = Len(t.keys)
      /\ w[i] = v /\ v # None /\ \A j \in 1 .. Len(t.keys) : j # i => w[j] = t.vals[j]
  BY <1>5, NoneAssumption
<1> HIDE DEF w
<1>7. /\ u.level = t.level /\ u.a = t.a /\ u.pop = t.pop /\ u.keys = t.keys /\ u.vals = w
      /\ u = Record(u.level, u.a, u.pop, u.keys, u.vals)
  BY DEF Record
<1> HIDE DEF u
<1>8. LiveIn(u) = LiveIn(t)
  BY <1>7 DEF LiveIn
<1>9. \A j \in 1 .. Len(t.keys) : t.keys[j] = None <=> w[j] = None
  BY <1>2, <1>5, <1>6 DEF Listed
<1>10. Listed(u)
  BY <1>2, <1>6, <1>7, <1>8, <1>9 DEF Listed
<1>11. Tabled(u)
  BY <1>2, <1>7, <1>8 DEF Tabled
<1>12. Sound(u)
  BY <1>7, <1>10, <1>11 DEF Sound
<1> QED
  BY <1>1, <1>4, <1>7, <1>8, <1>12 DEF w

\* The table with another entry, which it may have to grow for.
LEMMA Growing ==
  ASSUME NEW t, NEW level \in Levels, t.level = level, Table(t.a, level), Closed(t.a, level),
         NEW S, NEW g, Names(t.a, S, g), NEW h \in Hash, NEW i \in 1 .. MaxList, i \notin S, h = g[i],
         NEW table, table.level # 0,
         \/ table = Resize(Insert(t, h, i).a, level)
         \/ table.level = level /\ table.a = Insert(t, h, i).a /\ Insert(t, h, i).end # Size(level) - 1
  PROVE  /\ table.level \in Levels /\ Table(table.a, table.level) /\ Closed(table.a, table.level)
         /\ Names(table.a, S \cup {i}, g)
<1> DEFINE x == [h |-> h, i |-> i]
           new == Insert(t, h, i)
           last == Size(level) - 1
<1>1. x \in Entry /\ x.h = h /\ x.i = i
  BY DEF Entry
<1>2. t.a \in [Places(level) -> Entries]
  BY DEF Table
<1>3. Shifted(t.a, new.a, level, Stop(t, h), new.end, x)
  BY Insertion
<1>4. Found(t.a, level, h, Start(t, h), Stop(t, h))
  BY Search
<1>5. table = Resize(new.a, level) \/ (table.level = level /\ table.a = new.a /\ new.end # last)
  OBVIOUS
<1> HIDE DEF x, new
<1>6. Table(new.a, level)
  BY <1>1, <1>3, <1>4, ShiftedTable
<1>7. Names(new.a, S \cup {i}, g)
  BY <1>1, <1>2, <1>3, ShiftedNames
<1>8. CASE table = Resize(new.a, level)
  BY <1>6, <1>7, <1>8, Resizing
<1>9. CASE table.level = level /\ table.a = new.a /\ new.end # last
  <2>1. last \in Places(level) /\ t.a[last] = Empty /\ DOMAIN new.a = Places(level)
    BY <1>2, <1>6, PlaceFacts DEF Closed, Table
  <2>2. UsedOf(new.a) = UsedOf(t.a) \cup {new.end}
    BY <1>1, <1>2, <1>3, ShiftedUsed
  <2> HIDE DEF last
  <2>3. last \notin UsedOf(new.a)
    BY <1>9, <2>1, <2>2 DEF UsedOf
  <2>4. new.a[last] = Empty
    BY <2>1, <2>3 DEF UsedOf
  <2> QED
    BY <1>6, <1>7, <1>9, <2>4 DEF Closed, last
<1> QED
  BY <1>5, <1>8, <1>9

\* Another key gets an entry, and a place at the end of the lists.
Added(t, k, v) == [Enter(t, k).t EXCEPT !.keys = Append(@, k), !.vals = Append(@, v)]

LEMMA Adding ==
  ASSUME NEW t, Sound(t), ValidHash, NEW k \in Keys, Matches(t, k) = {}, Len(t.keys) < MaxList,
         Enter(t, k).t.level # 0, NEW v \in Vals
  PROVE  /\ Sound(Added(t, k, v)) /\ LiveIn(Added(t, k, v)) = LiveIn(t) \cup {Len(t.keys) + 1}
         /\ Added(t, k, v).keys = Append(t.keys, k) /\ Added(t, k, v).vals = Append(t.vals, v)
<1> DEFINE n == Len(t.keys)
           new == Insert(t, hash[k], n + 1)
           grows == Full(t.pop + 1, t.level) \/ new.end = Size(t.level) - 1
           table == IF grows THEN Resize(new.a, t.level) ELSE [level |-> t.level, a |-> new.a]
           ks == Append(t.keys, k)
           vs == Append(t.vals, v)
           u == Record(table.level, table.a, t.pop + 1, ks, vs)
           live == LiveIn(t)
           more == live \cup {n + 1}
<1>1. t = Record(t.level, t.a, t.pop, t.keys, t.vals) /\ Listed(t) /\ Tabled(t)
  BY DEF Sound
<1>2. /\ t.keys \in Seq(Keys \cup {None}) /\ t.vals \in Seq(Vals \cup {None}) /\ Len(t.vals) = n
      /\ t.pop = Cardinality(live) /\ n < MaxList
      /\ \A i \in 1 .. n : t.keys[i] = None <=> t.vals[i] = None
      /\ \A i, j \in live : t.keys[i] = t.keys[j] => i = j
  BY <1>1 DEF Listed
<1>3. /\ live \in SUBSET (1 .. n) /\ n \in Nat /\ DOMAIN t.keys = 1 .. n
      /\ \A i \in 1 .. n : i \notin live => t.keys[i] = None
  BY <1>1, Live
<1>4. /\ t.level \in Levels /\ Table(t.a, t.level) /\ Closed(t.a, t.level)
      /\ Names(t.a, live, HashesOf(t.keys))
  BY <1>1 DEF Tabled
<1>5. Enter(t, k).t = [t EXCEPT !.level = table.level, !.a = table.a, !.pop = @ + 1]
  BY DEF Enter
<1> HIDE DEF n, new, grows, table
<1>6. Added(t, k, v) = u /\ table.level # 0
  <2> DEFINE e == Enter(t, k).t
  <2>1. e = Record(table.level, table.a, t.pop + 1, t.keys, t.vals)
    BY <1>1, <1>5 DEF Record
  <2>2. table.level # 0
    BY <2>1 DEF Record
  <2> HIDE DEF e
  <2>3. e.keys = t.keys /\ e.vals = t.vals
    BY <2>1 DEF Record
  <2>4. Added(t, k, v) = [e EXCEPT !.keys = Append(@, k), !.vals = Append(@, v)]
    BY DEF Added, e
  <2>5. Added(t, k, v) = [e EXCEPT !.keys = ks, !.vals = vs]
    BY <2>3, <2>4, Zenon
  <2> HIDE DEF ks, vs
  <2>6. [e EXCEPT !.keys = ks, !.vals = vs] = u
    <3>1. [e EXCEPT !.keys = ks] = Record(table.level, table.a, t.pop + 1, ks, t.vals)
      BY <2>1 DEF Record
    <3>2. [Record(table.level, table.a, t.pop + 1, ks, t.vals) EXCEPT !.vals = vs] = u
      BY DEF Record
    <3>3. [e EXCEPT !.keys = ks, !.vals = vs] = [[e EXCEPT !.keys = ks] EXCEPT !.vals = vs]
      OBVIOUS
    <3> QED
      BY <3>1, <3>2, <3>3
  <2> QED
    BY <2>2, <2>5, <2>6
<1>7. hash[k] \in Hash /\ n + 1 \in 1 .. MaxList
  BY <1>2, <1>3, BoundsAssumption DEF ValidHash
<1>12. /\ ks \in Seq(Keys \cup {None}) /\ Len(ks) = n + 1 /\ ks[n + 1] = k /\ \A i \in 1 .. n : ks[i] = t.keys[i]
       /\ vs \in Seq(Vals \cup {None}) /\ Len(vs) = n + 1 /\ vs[n + 1] = v /\ \A i \in 1 .. n : vs[i] = t.vals[i]
  <2>1. n = Len(t.keys)
    BY DEF n
  <2> QED
    BY <1>2, <2>1
<1> HIDE DEF ks, vs
<1>13. HashesOf(ks)[n + 1] = hash[k] /\ Names(t.a, live, HashesOf(ks))
  <2>1. DOMAIN ks = 1 .. n + 1 /\ n + 1 \in 1 .. n + 1 /\ \A i \in live : i \in 1 .. n + 1 /\ i \in 1 .. n
    BY <1>3, <1>12
  <2>2. HashesOf(ks)[n + 1] = hash[k] /\ \A i \in live : HashesOf(ks)[i] = HashesOf(t.keys)[i]
    BY <1>3, <1>12, <2>1 DEF HashesOf
  <2> QED
    BY <1>4, <2>2, NamesAgree
<1>14. /\ table.level \in Levels /\ Table(table.a, table.level) /\ Closed(table.a, table.level)
       /\ Names(table.a, more, HashesOf(ks))
  <2>1. n + 1 \notin live
    BY <1>3
  <2>2. \/ table = Resize(new.a, t.level)
        \/ table.level = t.level /\ table.a = new.a /\ new.end # Size(t.level) - 1
    BY DEF table, grows
  <2>3. new = Insert(t, hash[k], n + 1)
    BY DEF new, n
  <2> QED
    BY <1>4, <1>6, <1>7, <1>13, <2>1, <2>2, <2>3, Growing
<1>15. /\ u.level = table.level /\ u.a = table.a /\ u.pop = t.pop + 1 /\ u.keys = ks /\ u.vals = vs
       /\ u = Record(u.level, u.a, u.pop, u.keys, u.vals)
  BY DEF Record
<1> HIDE DEF u
<1>16. LiveIn(u) = more
  <2>1. DOMAIN ks = 1 .. n + 1
    BY <1>12
  <2>2. live = {i \in 1 .. n : t.keys[i] # None}
    BY <1>3 DEF live, LiveIn
  <2>3. k # None
    BY NoneAssumption
  <2>4. \A i \in 1 .. n + 1 : i \in 1 .. n \/ i = n + 1
    BY <1>3
  <2>5. n + 1 \in 1 .. n + 1 /\ \A i \in 1 .. n : i \in 1 .. n + 1
    BY <1>3
  <2> HIDE DEF live
  <2> QED
    BY <1>12, <1>15, <2>1, <2>2, <2>3, <2>4, <2>5 DEF LiveIn
<1>17. Listed(u)
  <2>1. Cardinality(more) = t.pop + 1
    <3>1. n + 1 \notin live /\ IsFiniteSet(live)
      BY <1>3, Ranks
    <3>2. Cardinality(more) = Cardinality(live) + 1
      BY <3>1, FS_AddElement
    <3>3. t.pop = Cardinality(live)
      BY <1>2
    <3> QED
      BY ONLY <3>2, <3>3
  <2>2. \A i \in 1 .. n + 1 : ks[i] = None <=> vs[i] = None
    <3>1. k # None /\ v # None
      BY NoneAssumption
    <3>2. \A i \in 1 .. n + 1 : i \in 1 .. n \/ i = n + 1
      BY <1>3
    <3> QED
      BY <3>1, <3>2, <1>2, <1>12
  <2>3. \A i \in live : t.keys[i] # k
    BY Matching
  <2>4. \A i, j \in more : ks[i] = ks[j] => i = j
    <3>1. \A i \in live : ks[i] = t.keys[i]
      BY <1>3, <1>12
    <3> QED
      BY <3>1, <2>3, <1>2, <1>12
  <2>5. n + 1 <= MaxList
    BY <1>7
  <2> QED
    BY <1>12, <1>15, <1>16, <2>1, <2>2, <2>4, <2>5 DEF Listed
<1>18. Tabled(u)
  BY <1>14, <1>15, <1>16 DEF Tabled
<1>19. Sound(u)
  BY <1>15, <1>17, <1>18 DEF Sound
<1> QED
  BY <1>6, <1>15, <1>16, <1>19 DEF ks, vs, n

\* A key that is there is taken out of the table and the lists.
Removed(t, j) ==
  [t EXCEPT !.a = TakeOut(t, j), !.pop = @ - 1, !.keys[t.a[j].i] = None, !.vals[t.a[j].i] = None]

LEMMA Removing ==
  ASSUME NEW t, Sound(t), NEW j \in UsedOf(t.a), NEW i, i = t.a[j].i
  PROVE  /\ i \in LiveIn(t) /\ Sound(Removed(t, j)) /\ LiveIn(Removed(t, j)) = LiveIn(t) \ {i}
         /\ Removed(t, j).keys = [t.keys EXCEPT ![i] = None] /\ Removed(t, j).vals = [t.vals EXCEPT ![i] = None]
<1> DEFINE n == Len(t.keys)
           ks == [t.keys EXCEPT ![i] = None]
           vs == [t.vals EXCEPT ![i] = None]
           b == TakeOut(t, j)
           u == Record(t.level, b, t.pop - 1, ks, vs)
           live == LiveIn(t)
           less == live \ {i}
<1>1. t = Record(t.level, t.a, t.pop, t.keys, t.vals) /\ Listed(t) /\ Tabled(t)
  BY DEF Sound
<1>2. /\ t.keys \in Seq(Keys \cup {None}) /\ t.vals \in Seq(Vals \cup {None}) /\ Len(t.vals) = n
      /\ t.pop = Cardinality(live) /\ n <= MaxList
      /\ \A m \in 1 .. n : t.keys[m] = None <=> t.vals[m] = None
      /\ \A l, m \in live : t.keys[l] = t.keys[m] => l = m
  BY <1>1 DEF Listed
<1>3. /\ live \in SUBSET (1 .. n) /\ n \in Nat /\ DOMAIN t.keys = 1 .. n
      /\ \A m \in live : t.keys[m] # None
  BY <1>1, Live DEF LiveIn
<1>4. /\ t.level \in Levels /\ Table(t.a, t.level) /\ Closed(t.a, t.level)
      /\ Names(t.a, live, HashesOf(t.keys))
  BY <1>1 DEF Tabled
<1> HIDE DEF b
<1>5. Removed(t, j) = u
  <2>1. Removed(t, j) = [t EXCEPT !.a = b, !.pop = @ - 1, !.keys[i] = None, !.vals[i] = None]
    BY DEF Removed, b
  <2> DEFINE m == t.pop - 1
  <2>3. Removed(t, j) = [t EXCEPT !.a = b, !.pop = m, !.keys = ks, !.vals = vs]
    BY <2>1, Zenon
  <2> HIDE DEF m, ks, vs
  <2>4. [t EXCEPT !.a = b, !.pop = m, !.keys = ks, !.vals = vs]
        = Record(t.level, b, m, ks, vs)
    <3>1. [t EXCEPT !.a = b] = Record(t.level, b, t.pop, t.keys, t.vals)
      BY <1>1 DEF Record
    <3>2. [Record(t.level, b, t.pop, t.keys, t.vals) EXCEPT !.pop = m] = Record(t.level, b, m, t.keys, t.vals)
      BY DEF Record
    <3>3. [Record(t.level, b, m, t.keys, t.vals) EXCEPT !.keys = ks] = Record(t.level, b, m, ks, t.vals)
      BY DEF Record
    <3>4. [Record(t.level, b, m, ks, t.vals) EXCEPT !.vals = vs] = Record(t.level, b, m, ks, vs)
      BY DEF Record
    <3>5. [t EXCEPT !.a = b, !.pop = m, !.keys = ks, !.vals = vs]
          = [[[[t EXCEPT !.a = b] EXCEPT !.pop = m] EXCEPT !.keys = ks] EXCEPT !.vals = vs]
      OBVIOUS
    <3> QED
      BY <3>1, <3>2, <3>3, <3>4, <3>5
  <2> QED
    BY <2>3, <2>4, Zenon DEF m
<1>6. i \in live
  BY <1>4 DEF Names
<1>7. PICK end : Closes(t.a, b, t.level, j, end)
  BY <1>4, TakingOut DEF b
<1>8. Table(b, t.level) /\ Closed(b, t.level)
  BY <1>4, <1>7, ClosesTable
<1>9. /\ ks \in Seq(Keys \cup {None}) /\ Len(ks) = n /\ ks[i] = None /\ \A m \in 1 .. n : m # i => ks[m] = t.keys[m]
      /\ vs \in Seq(Vals \cup {None}) /\ Len(vs) = n /\ vs[i] = None /\ \A m \in 1 .. n : m # i => vs[m] = t.vals[m]
  <2>1. i \in 1 .. Len(t.keys) /\ Len(t.vals) = Len(t.keys)
    BY <1>2, <1>3, <1>6
  <2> QED
    BY <1>2, <2>1
<1> HIDE DEF ks, vs
<1>10. DOMAIN ks = 1 .. n
  BY <1>9
<1>11. Names(b, less, HashesOf(ks))
  <2>1. \A m \in less : HashesOf(ks)[m] = HashesOf(t.keys)[m]
    BY <1>3, <1>9, <1>10 DEF HashesOf
  <2>2. Names(b, less, HashesOf(t.keys))
    <3>1. t.a \in [Places(t.level) -> Entries]
      BY <1>4 DEF Table
    <3> HIDE DEF live
    <3> QED
      BY <3>1, <1>4, <1>7, ClosesNames
  <2> QED
    BY <2>1, <2>2, NamesAgree
<1>12. /\ u.level = t.level /\ u.a = b /\ u.pop = t.pop - 1 /\ u.keys = ks /\ u.vals = vs
       /\ u = Record(u.level, u.a, u.pop, u.keys, u.vals)
  BY DEF Record
<1> HIDE DEF u
<1>13. LiveIn(u) = less
  <2>1. live = {m \in 1 .. n : t.keys[m] # None}
    BY <1>3 DEF live, LiveIn
  <2> HIDE DEF live
  <2> QED
    BY <1>9, <1>10, <1>12, <2>1 DEF LiveIn
<1>14. Listed(u)
  <2>1. Cardinality(less) = t.pop - 1
    <3>1. IsFiniteSet(live)
      BY <1>3, Ranks
    <3>2. Cardinality(less) = Cardinality(live) - 1
      BY <3>1, <1>6, FS_RemoveElement
    <3>3. t.pop = Cardinality(live)
      BY <1>2
    <3> QED
      BY ONLY <3>2, <3>3
  <2>2. \A m \in 1 .. n : ks[m] = None <=> vs[m] = None
    BY <1>2, <1>9
  <2>3. \A l, m \in less : ks[l] = ks[m] => l = m
    BY <1>2, <1>3, <1>9
  <2> QED
    BY <1>2, <1>9, <1>12, <1>13, <2>1, <2>2, <2>3 DEF Listed
<1>15. Tabled(u)
  BY <1>4, <1>8, <1>11, <1>12, <1>13 DEF Tabled
<1>16. Sound(u)
  BY <1>12, <1>14, <1>15 DEF Sound
<1> QED
  BY <1>5, <1>6, <1>12, <1>13, <1>16 DEF ks, vs

\* Deleted keys leave the lists; the entries follow.
LEMMA Compacting ==
  ASSUME NEW t, Sound(t)
  PROVE  /\ Sound(Compact(t)) /\ LiveIn(Compact(t)) = 1 .. Len(Compact(t).keys) /\ Len(Compact(t).keys) <= Len(t.keys)
         /\ Compact(t).keys = Kept(LiveIn(t), t.keys) /\ Compact(t).vals = Kept(LiveIn(t), t.vals)
         /\ Len(Compact(t).keys) = t.pop /\ Compact(t).pop = t.pop
<1> DEFINE live == LiveIn(t)
           c == Cardinality(live)
           n == Len(t.keys)
           ks == Kept(live, t.keys)
           vs == Kept(live, t.vals)
           b == IF live = {} THEN t.a ELSE Renumbered(t.a, live)
           u == Record(t.level, b, t.pop, ks, vs)
<1>1. t = Record(t.level, t.a, t.pop, t.keys, t.vals) /\ Listed(t) /\ Tabled(t)
  BY DEF Sound
<1>2. /\ t.keys \in Seq(Keys \cup {None}) /\ t.vals \in Seq(Vals \cup {None}) /\ Len(t.vals) = n
      /\ t.pop = c /\ n <= MaxList
      /\ \A l, m \in live : t.keys[l] = t.keys[m] => l = m
  BY <1>1 DEF Listed
<1>3. /\ live \in SUBSET (1 .. n) /\ live \in SUBSET (1 .. Len(t.vals)) /\ n \in Nat /\ DOMAIN t.keys = 1 .. n
      /\ \A m \in live : t.keys[m] # None /\ t.vals[m] # None
  BY <1>1, Live, NoneAssumption
<1>4. /\ t.level \in Levels /\ Table(t.a, t.level) /\ Closed(t.a, t.level)
      /\ Names(t.a, live, HashesOf(t.keys))
  BY <1>1 DEF Tabled
<1> HIDE DEF live
<1>5. Compact(t) = u
  <2>1. Compact(t) = [t EXCEPT !.keys = ks, !.vals = vs, !.a = b]
    BY DEF Compact, live
  <2> HIDE DEF ks, vs, b
  <2>2. [t EXCEPT !.keys = ks, !.vals = vs, !.a = b] = Record(t.level, b, t.pop, ks, vs)
    <3>1. [t EXCEPT !.keys = ks] = Record(t.level, t.a, t.pop, ks, t.vals)
      BY <1>1 DEF Record
    <3>2. [Record(t.level, t.a, t.pop, ks, t.vals) EXCEPT !.vals = vs] = Record(t.level, t.a, t.pop, ks, vs)
      BY DEF Record
    <3>3. [Record(t.level, t.a, t.pop, ks, vs) EXCEPT !.a = b] = Record(t.level, b, t.pop, ks, vs)
      BY DEF Record
    <3>4. [t EXCEPT !.keys = ks, !.vals = vs, !.a = b]
          = [[[t EXCEPT !.keys = ks] EXCEPT !.vals = vs] EXCEPT !.a = b]
      OBVIOUS
    <3> QED
      BY <3>1, <3>2, <3>3, <3>4
  <2> QED
    BY <2>1, <2>2, Zenon
<1>6. /\ ks \in Seq(Keys \cup {None}) /\ Len(ks) = c /\ c \in Nat /\ c <= n /\ DOMAIN ks = 1 .. c
      /\ \A i \in live : RankIn(live, i) \in 1 .. c /\ ks[RankIn(live, i)] = t.keys[i]
      /\ \A m \in 1 .. c : \E i \in live : RankIn(live, i) = m /\ ks[m] = t.keys[i]
  <2>1. t.keys \in Seq(Keys \cup {None}) /\ live \in SUBSET (1 .. Len(t.keys))
    BY <1>2, <1>3
  <2>6. ks \in Seq(Keys \cup {None}) /\ Len(ks) = c
    BY <2>1, Keeping, ZenonT(40)
  <2>2. ks \in Seq(Keys \cup {None}) /\ Len(ks) = c /\ DOMAIN ks = 1 .. c
    <3> HIDE DEF ks, c
    <3> QED
      BY <2>6
  <2>3. c \in Nat /\ c <= Len(t.keys)
    BY <2>1, Keeping, Zenon
  <2>4. \A i \in live : RankIn(live, i) \in 1 .. c /\ ks[RankIn(live, i)] = t.keys[i]
    BY <2>1, Keeping, ZenonT(40)
  <2>5. \A m \in 1 .. c : \E i \in live : RankIn(live, i) = m /\ ks[m] = t.keys[i]
    BY <2>1, Keeping, ZenonT(40)
  <2> QED
    BY <2>2, <2>3, <2>4, <2>5, Zenon
<1>7. /\ vs \in Seq(Vals \cup {None}) /\ Len(vs) = c
      /\ \A m \in 1 .. c : \E i \in live : RankIn(live, i) = m /\ vs[m] = t.vals[i]
  <2>1. t.vals \in Seq(Vals \cup {None}) /\ live \in SUBSET (1 .. Len(t.vals))
    BY <1>2, <1>3
  <2> QED
    BY <2>1, Keeping, ZenonT(40)
<1>8. \A i, m \in live : RankIn(live, i) = RankIn(live, m) => i = m
  BY <1>3, Ranks
<1> HIDE DEF ks, vs, c, n
<1>9. \A m \in 1 .. c : ks[m] # None /\ vs[m] # None
  <2> TAKE m \in 1 .. c
  <2>1. PICK i \in live : ks[m] = t.keys[i]
    BY <1>6
  <2>2. PICK j \in live : vs[m] = t.vals[j]
    BY <1>7
  <2> QED
    BY <2>1, <2>2, <1>3
<1>10. \A l, m \in 1 .. c : ks[l] = ks[m] => l = m
  <2> SUFFICES ASSUME NEW l \in 1 .. c, NEW m \in 1 .. c, ks[l] = ks[m] PROVE l = m
    OBVIOUS
  <2>1. PICK x \in live : RankIn(live, x) = l /\ ks[l] = t.keys[x]
    BY <1>6
  <2>2. PICK y \in live : RankIn(live, y) = m /\ ks[m] = t.keys[y]
    BY <1>6
  <2>3. x = y
    BY <2>1, <2>2, <1>2
  <2> QED
    BY <2>1, <2>2, <2>3
<1>11. /\ DOMAIN t.a = Places(t.level) /\ UsedOf(t.a) \subseteq Places(t.level) /\ Size(t.level) - 1 \in Places(t.level)
       /\ \A p \in Places(t.level) : t.a[p] \in Entries
       /\ \A p \in UsedOf(t.a) : t.a[p] \in Entry
       /\ \A p \in Places(t.level) : p \notin UsedOf(t.a) => t.a[p] = Empty
  BY <1>4, PlaceFacts DEF Table, UsedOf
<1>12. /\ \A p \in UsedOf(t.a) : t.a[p].i \in live /\ t.a[p].h = hash[t.keys[t.a[p].i]]
       /\ \A i \in live : \E p \in UsedOf(t.a) : t.a[p].i = i
       /\ \A p, q \in UsedOf(t.a) : t.a[p].i = t.a[q].i => p = q
  BY <1>3, <1>4 DEF Names, HashesOf
<1>13. /\ DOMAIN b = Places(t.level) /\ b \in [Places(t.level) -> Entries]
       /\ UsedOf(b) = UsedOf(t.a)
       /\ \A p \in Places(t.level) : b[p].h = t.a[p].h
       /\ \A p \in UsedOf(t.a) : b[p].i = RankIn(live, t.a[p].i)
  <2>1. CASE live = {}
    <3>1. b = t.a /\ UsedOf(t.a) = {}
      BY <2>1, <1>12
    <3> QED
      BY <3>1, <1>4, <1>11 DEF Table
  <2>2. CASE live # {}
    <3>1. b = [p \in Places(t.level) |-> IF t.a[p] = Empty THEN Empty
                                        ELSE [t.a[p] EXCEPT !.i = RankIn(live, t.a[p].i)]]
      BY <2>2, <1>11 DEF Renumbered
    <3>2. ASSUME NEW p \in UsedOf(t.a)
          PROVE  p \in Places(t.level) /\ b[p] \in Entry /\ b[p].h = t.a[p].h /\ b[p].i = RankIn(live, t.a[p].i) /\ b[p] # Empty
      <4>1. p \in Places(t.level) /\ t.a[p] \in Entry /\ t.a[p].i \in live /\ t.a[p] # Empty
        BY <1>11, <1>12 DEF UsedOf
      <4>2. RankIn(live, t.a[p].i) \in 1 .. MaxList
        <5>1. RankIn(live, t.a[p].i) \in 1 .. c
          BY <4>1, <1>6
        <5>2. c \in Nat /\ c <= MaxList /\ MaxList \in Nat
          BY <1>2, <1>3, <1>6, BoundsAssumption
        <5> QED
          BY <5>1, <5>2
      <4>3. b[p] = [t.a[p] EXCEPT !.i = RankIn(live, t.a[p].i)]
        BY <3>1, <4>1
      <4>4. b[p] \in Entry /\ b[p].h = t.a[p].h /\ b[p].i = RankIn(live, t.a[p].i)
        BY <4>1, <4>2, <4>3 DEF Entry
      <4>5. b[p] # Empty
        <5>1. b[p].i # 0
          BY <4>2, <4>4, BoundsAssumption
        <5> QED
          BY <5>1 DEF Empty
      <4> QED
        BY <4>1, <4>4, <4>5
    <3>3. ASSUME NEW p \in Places(t.level), p \notin UsedOf(t.a) PROVE b[p] = Empty /\ t.a[p] = Empty
      BY <3>1, <3>3, <1>11
    <3>4. DOMAIN b = Places(t.level)
      BY <3>1
    <3>5. \A p \in Places(t.level) : b[p] \in Entries /\ b[p].h = t.a[p].h
      <4>1. Empty \in Entries /\ \A x \in Entry : x \in Entries
        BY DEF Entries, Entry, Hash
      <4> QED
        BY <3>2, <3>3, <4>1
    <3>6. b = [p \in Places(t.level) |-> b[p]]
      BY <3>1
    <3> HIDE DEF b
    <3>7. UsedOf(b) = UsedOf(t.a)
      BY <3>2, <3>3, <3>4, <1>11 DEF UsedOf
    <3> QED
      BY <3>2, <3>4, <3>5, <3>6, <3>7
  <2> QED
    BY <2>1, <2>2
<1> HIDE DEF b
<1>14. Table(b, t.level)
  <2>1. Packed(t.a, t.level)
    BY <1>4 DEF Table
  <2>2. \A p \in UsedOf(t.a) : b[p].h = t.a[p].h
    BY <1>11, <1>13
  <2>3. Packed(b, t.level)
    BY <2>1, <2>2, <1>13 DEF Packed
  <2> QED
    BY <2>3, <1>13 DEF Table
<1>15. Closed(b, t.level)
  <2>1. Size(t.level) - 1 \notin UsedOf(t.a)
    BY <1>4 DEF Closed, UsedOf
  <2>2. b[Size(t.level) - 1] = Empty
    BY <2>1, <1>11, <1>13 DEF UsedOf
  <2> QED
    BY <2>2 DEF Closed
<1>16. Names(b, 1 .. c, HashesOf(ks))
  <2>1. ASSUME NEW p \in UsedOf(b) PROVE b[p].i \in 1 .. c /\ b[p].h = HashesOf(ks)[b[p].i]
    <3>1. p \in UsedOf(t.a) /\ p \in Places(t.level) /\ t.a[p].i \in live
      BY <1>11, <1>12, <1>13
    <3>2. b[p].i \in 1 .. c /\ ks[b[p].i] = t.keys[t.a[p].i]
      BY <3>1, <1>6, <1>13
    <3> QED
      BY <3>1, <3>2, <1>6, <1>12, <1>13 DEF HashesOf
  <2>2. ASSUME NEW m \in 1 .. c PROVE \E p \in UsedOf(b) : b[p].i = m
    <3>1. PICK i \in live : RankIn(live, i) = m
      BY <1>6
    <3>2. PICK p \in UsedOf(t.a) : t.a[p].i = i
      BY <1>12
    <3> QED
      BY <3>1, <3>2, <1>13
  <2>3. ASSUME NEW p \in UsedOf(b), NEW q \in UsedOf(b), b[p].i = b[q].i PROVE p = q
    <3>1. t.a[p].i \in live /\ t.a[q].i \in live /\ p \in UsedOf(t.a) /\ q \in UsedOf(t.a)
      BY <1>12, <1>13
    <3>2. RankIn(live, t.a[p].i) = RankIn(live, t.a[q].i)
      BY <2>3, <3>1, <1>13
    <3> QED
      BY <3>1, <3>2, <1>8, <1>12
  <2>4. {b[p].i : p \in UsedOf(b)} = 1 .. c
    BY <2>1, <2>2
  <2> QED
    BY <2>1, <2>3, <2>4 DEF Names
<1>17. /\ u.level = t.level /\ u.a = b /\ u.pop = t.pop /\ u.keys = ks /\ u.vals = vs
       /\ u = Record(u.level, u.a, u.pop, u.keys, u.vals)
  BY DEF Record
<1> HIDE DEF u
<1>18. LiveIn(u) = 1 .. c
  BY <1>6, <1>9, <1>17 DEF LiveIn
<1>19. Listed(u)
  <2>1. Cardinality(1 .. c) = c
    BY <1>6, FS_Interval
  <2>2. \A m \in 1 .. c : ks[m] = None <=> vs[m] = None
    BY <1>9
  <2>3. c <= MaxList
    BY <1>2, <1>3, <1>6, BoundsAssumption
  <2> QED
    BY <1>2, <1>6, <1>7, <1>10, <1>17, <1>18, <2>1, <2>2, <2>3 DEF Listed
<1>20. Tabled(u)
  BY <1>4, <1>14, <1>15, <1>16, <1>17, <1>18 DEF Tabled
<1>21. Sound(u)
  BY <1>17, <1>19, <1>20 DEF Sound
<1> QED
  BY <1>2, <1>5, <1>6, <1>17, <1>18, <1>21 DEF ks, vs, live, n

-----------------------------------------------------------------------------
(* What a map stands for: the keys that are there, in order, and their values *)

KeysOf(t) == Kept(LiveIn(t), t.keys)
ValsOf(t) == Kept(LiveIn(t), t.vals)

LEMMA Contents ==
  ASSUME NEW t, Sound(t)
  PROVE  /\ KeysOf(t) \in Seq(Keys) /\ ValsOf(t) \in Seq(Vals) /\ Len(KeysOf(t)) = t.pop /\ Len(ValsOf(t)) = t.pop
         /\ t.pop \in Nat /\ DOMAIN KeysOf(t) = 1 .. t.pop
         /\ \A l, m \in 1 .. t.pop : KeysOf(t)[l] = KeysOf(t)[m] => l = m
         /\ \A i \in LiveIn(t) : /\ RankIn(LiveIn(t), i) \in 1 .. t.pop
                                 /\ KeysOf(t)[RankIn(LiveIn(t), i)] = t.keys[i]
                                 /\ ValsOf(t)[RankIn(LiveIn(t), i)] = t.vals[i]
         /\ \A m \in 1 .. t.pop : \E i \in LiveIn(t) : RankIn(LiveIn(t), i) = m
<1> DEFINE live == LiveIn(t)
           c == t.pop
           ks == KeysOf(t)
           vs == ValsOf(t)
<1>1. Listed(t)
  BY DEF Sound
<1>2. /\ t.keys \in Seq(Keys \cup {None}) /\ t.vals \in Seq(Vals \cup {None})
      /\ c = Cardinality(live) /\ \A l, m \in live : t.keys[l] = t.keys[m] => l = m
  BY <1>1 DEF Listed
<1>3. /\ live \in SUBSET (1 .. Len(t.keys)) /\ live \in SUBSET (1 .. Len(t.vals))
      /\ \A i \in live : t.keys[i] \in Keys /\ t.vals[i] \in Vals
  BY <1>1, Live
<1> HIDE DEF live, ks, vs, c
<1>4. ks = Kept(live, t.keys) /\ vs = Kept(live, t.vals)
  BY DEF ks, vs, live, KeysOf, ValsOf
<1>5. /\ ks \in Seq(Keys \cup {None}) /\ Len(ks) = c
      /\ c \in Nat
      /\ \A i \in live : RankIn(live, i) \in 1 .. c /\ ks[RankIn(live, i)] = t.keys[i]
      /\ \A m \in 1 .. c : \E i \in live : RankIn(live, i) = m /\ ks[m] = t.keys[i]
  <2>0. t.keys \in Seq(Keys \cup {None}) /\ live \in SUBSET (1 .. Len(t.keys))
    BY <1>2, <1>3
  <2>1. Kept(live, t.keys) \in Seq(Keys \cup {None}) /\ Len(Kept(live, t.keys)) = Cardinality(live)
    BY <2>0, Keeping, Zenon
  <2>2. Cardinality(live) \in Nat
    BY <2>0, Keeping, Zenon
  <2>3. \A i \in live : RankIn(live, i) \in 1 .. Cardinality(live) /\ Kept(live, t.keys)[RankIn(live, i)] = t.keys[i]
    BY <2>0, Keeping, ZenonT(40)
  <2>4. \A m \in 1 .. Cardinality(live) : \E i \in live : RankIn(live, i) = m /\ Kept(live, t.keys)[m] = t.keys[i]
    BY <2>0, Keeping, Zenon
  <2> QED
    BY <1>2, <1>4, <2>1, <2>2, <2>3, <2>4, Zenon
<1>6. /\ vs \in Seq(Vals \cup {None}) /\ Len(vs) = c
      /\ \A i \in live : vs[RankIn(live, i)] = t.vals[i]
      /\ \A m \in 1 .. c : \E i \in live : RankIn(live, i) = m /\ vs[m] = t.vals[i]
  <2>0. t.vals \in Seq(Vals \cup {None}) /\ live \in SUBSET (1 .. Len(t.vals))
    BY <1>2, <1>3
  <2>1. Kept(live, t.vals) \in Seq(Vals \cup {None}) /\ Len(Kept(live, t.vals)) = Cardinality(live)
    BY <2>0, Keeping, Zenon
  <2>3. \A i \in live : Kept(live, t.vals)[RankIn(live, i)] = t.vals[i]
    BY <2>0, Keeping, ZenonT(40)
  <2>4. \A m \in 1 .. Cardinality(live) : \E i \in live : RankIn(live, i) = m /\ Kept(live, t.vals)[m] = t.vals[i]
    BY <2>0, Keeping, Zenon
  <2> QED
    BY <1>2, <1>4, <2>1, <2>3, <2>4, Zenon
<1>7. \A m \in 1 .. c : ks[m] \in Keys /\ vs[m] \in Vals
  <2> TAKE m \in 1 .. c
  <2>1. PICK i \in live : ks[m] = t.keys[i]
    BY <1>5
  <2>2. PICK j \in live : vs[m] = t.vals[j]
    BY <1>6
  <2> QED
    BY <2>1, <2>2, <1>3
<1>8. ks \in Seq(Keys) /\ vs \in Seq(Vals) /\ DOMAIN ks = 1 .. c
  <2>1. DOMAIN ks = 1 .. c /\ DOMAIN vs = 1 .. c /\ ks = [m \in 1 .. c |-> ks[m]] /\ vs = [m \in 1 .. c |-> vs[m]]
    BY <1>5, <1>6
  <2>2. ks \in [1 .. c -> Keys] /\ vs \in [1 .. c -> Vals]
    BY <1>7, <2>1
  <2> QED
    BY <2>1, <2>2, <1>5
<1>9. \A l, m \in 1 .. c : ks[l] = ks[m] => l = m
  <2> SUFFICES ASSUME NEW l \in 1 .. c, NEW m \in 1 .. c, ks[l] = ks[m] PROVE l = m
    OBVIOUS
  <2>1. PICK x \in live : RankIn(live, x) = l /\ ks[l] = t.keys[x]
    BY <1>5
  <2>2. PICK y \in live : RankIn(live, y) = m /\ ks[m] = t.keys[y]
    BY <1>5
  <2>3. x = y
    BY <2>1, <2>2, <1>2
  <2> QED
    BY <2>1, <2>2, <2>3
<1>10. \A m \in 1 .. c : \E i \in live : RankIn(live, i) = m
  BY <1>5
<1>11. \A i \in live : RankIn(live, i) \in 1 .. c /\ ks[RankIn(live, i)] = t.keys[i] /\ vs[RankIn(live, i)] = t.vals[i]
  BY <1>5, <1>6
<1>12. c \in Nat /\ Len(ks) = c /\ Len(vs) = c
  BY <1>5, <1>6
<1> QED
  BY <1>8, <1>9, <1>10, <1>11, <1>12, Zenon DEF live, ks, vs, c

\* A search finds the keys that are there, and no other.
LEMMA Finding ==
  ASSUME NEW t, Sound(t), ValidHash, NEW k \in Keys, NEW default
  PROVE  /\ Matches(t, k) = {} <=> \A m \in 1 .. t.pop : KeysOf(t)[m] # k
         /\ \A m \in 1 .. t.pop : KeysOf(t)[m] = k => Lookup(t, k, default) = ValsOf(t)[m]
         /\ (\A m \in 1 .. t.pop : KeysOf(t)[m] # k) => Lookup(t, k, default) = default
<1>1. /\ Matches(t, k) = {} => \A i \in LiveIn(t) : t.keys[i] # k
      /\ Matches(t, k) # {} => \E i \in LiveIn(t) : t.keys[i] = k
  BY Matching
<1>2. /\ \A i \in LiveIn(t) : t.keys[i] = k => Lookup(t, k, default) = t.vals[i]
      /\ (\A i \in LiveIn(t) : t.keys[i] # k) => Lookup(t, k, default) = default
  BY Looking
<1>3. /\ \A i \in LiveIn(t) : /\ RankIn(LiveIn(t), i) \in 1 .. t.pop
                              /\ KeysOf(t)[RankIn(LiveIn(t), i)] = t.keys[i]
                              /\ ValsOf(t)[RankIn(LiveIn(t), i)] = t.vals[i]
      /\ \A m \in 1 .. t.pop : \E i \in LiveIn(t) : RankIn(LiveIn(t), i) = m
  BY Contents
<1>4. (\E i \in LiveIn(t) : t.keys[i] = k) <=> (\E m \in 1 .. t.pop : KeysOf(t)[m] = k)
  BY <1>3
<1>5. \A m \in 1 .. t.pop : KeysOf(t)[m] = k => Lookup(t, k, default) = ValsOf(t)[m]
  BY <1>2, <1>3
<1> QED
  BY <1>1, <1>2, <1>4, <1>5, Zenon

LEMMA SetsOld ==
  ASSUME NEW t, Sound(t), ValidHash, NEW k \in Keys, Matches(t, k) # {}, NEW v \in Vals
  PROVE  /\ Sound(Replace(t, k, v)) /\ Len(Replace(t, k, v).keys) = Len(t.keys)
         /\ \E m \in 1 .. t.pop : /\ KeysOf(t)[m] = k /\ KeysOf(Replace(t, k, v)) = KeysOf(t)
                                  /\ ValsOf(Replace(t, k, v)) = [ValsOf(t) EXCEPT ![m] = v]
<1> DEFINE u == Replace(t, k, v)
<1>1. PICK i \in LiveIn(t) : /\ t.keys[i] = k /\ Sound(u) /\ LiveIn(u) = LiveIn(t)
                             /\ u.keys = t.keys /\ u.vals = [t.vals EXCEPT ![i] = v]
  BY Replacing
<1> HIDE DEF u
<1>2. RankIn(LiveIn(t), i) \in 1 .. t.pop /\ KeysOf(t)[RankIn(LiveIn(t), i)] = k
  BY <1>1, Contents
<1>3. t.vals \in Seq(Vals \cup {None}) /\ LiveIn(t) \in SUBSET (1 .. Len(t.vals)) /\ v \in Vals \cup {None}
  BY Live DEF Sound, Listed
<1>4. Kept(LiveIn(t), [t.vals EXCEPT ![i] = v]) = [Kept(LiveIn(t), t.vals) EXCEPT ![RankIn(LiveIn(t), i)] = v]
  <2> DEFINE w == [t.vals EXCEPT ![i] = v]
             r == [Kept(LiveIn(t), t.vals) EXCEPT ![RankIn(LiveIn(t), i)] = v]
  <2>1. w = [t.vals EXCEPT ![i] = v] /\ r = [Kept(LiveIn(t), t.vals) EXCEPT ![RankIn(LiveIn(t), i)] = v]
    OBVIOUS
  <2> HIDE DEF w, r
  <2>2. Kept(LiveIn(t), w) = r
    BY <1>3, <2>1, KeptSet, SMTT(40)
  <2> QED
    BY <2>2 DEF w, r
<1>5. ValsOf(u) = [ValsOf(t) EXCEPT ![RankIn(LiveIn(t), i)] = v] /\ KeysOf(u) = KeysOf(t)
  BY <1>1, <1>4 DEF ValsOf, KeysOf
<1> QED
  BY <1>1, <1>2, <1>5 DEF u

LEMMA SetsNew ==
  ASSUME NEW t, Sound(t), ValidHash, NEW k \in Keys, Matches(t, k) = {}, Len(t.keys) < MaxList,
         Enter(t, k).t.level # 0, NEW v \in Vals
  PROVE  /\ Sound(Added(t, k, v)) /\ KeysOf(Added(t, k, v)) = Append(KeysOf(t), k)
         /\ ValsOf(Added(t, k, v)) = Append(ValsOf(t), v)
<1> DEFINE u == Added(t, k, v)
<1>1. /\ Sound(u) /\ LiveIn(u) = LiveIn(t) \cup {Len(t.keys) + 1}
      /\ u.keys = Append(t.keys, k) /\ u.vals = Append(t.vals, v)
  BY Adding
<1> HIDE DEF u
<1>2. /\ t.keys \in Seq(Keys \cup {None}) /\ t.vals \in Seq(Vals \cup {None}) /\ Len(t.vals) = Len(t.keys)
      /\ LiveIn(t) \in SUBSET (1 .. Len(t.vals)) /\ LiveIn(t) \in SUBSET (1 .. Len(t.keys))
      /\ k \in Keys \cup {None} /\ v \in Vals \cup {None}
  BY Live DEF Sound, Listed
<1>3. Kept(LiveIn(t) \cup {Len(t.keys) + 1}, Append(t.keys, k)) = Append(Kept(LiveIn(t), t.keys), k)
  BY <1>2, KeptMore, ZenonT(40)
<1>4. Kept(LiveIn(t) \cup {Len(t.vals) + 1}, Append(t.vals, v)) = Append(Kept(LiveIn(t), t.vals), v)
  BY <1>2, KeptMore, ZenonT(40)
<1> QED
  BY <1>1, <1>2, <1>3, <1>4 DEF u, KeysOf, ValsOf

LEMMA Compacts ==
  ASSUME NEW t, Sound(t)
  PROVE  /\ Sound(Compact(t)) /\ KeysOf(Compact(t)) = KeysOf(t) /\ ValsOf(Compact(t)) = ValsOf(t)
         /\ Compact(t).keys = KeysOf(t) /\ Compact(t).vals = ValsOf(t)
         /\ Len(Compact(t).keys) <= Len(t.keys) /\ Compact(t).pop = t.pop
<1> DEFINE u == Compact(t)
<1>1. /\ Sound(u) /\ LiveIn(u) = 1 .. Len(u.keys) /\ Len(u.keys) <= Len(t.keys)
      /\ u.keys = KeysOf(t) /\ u.vals = ValsOf(t) /\ Len(u.keys) = t.pop /\ u.pop = t.pop
  BY Compacting DEF KeysOf, ValsOf
<1> HIDE DEF u
<1>2. u.keys \in Seq(Keys \cup {None}) /\ u.vals \in Seq(Vals \cup {None}) /\ Len(u.vals) = Len(u.keys)
  BY <1>1 DEF Sound, Listed
<1>3. Kept(1 .. Len(u.keys), u.keys) = u.keys /\ Kept(1 .. Len(u.vals), u.vals) = u.vals
  BY <1>2, KeptAll
<1>4. KeysOf(u) = u.keys /\ ValsOf(u) = u.vals
  BY <1>1, <1>2, <1>3 DEF KeysOf, ValsOf
<1> QED
  BY <1>1, <1>4 DEF u

LEMMA Deletes ==
  ASSUME NEW t, Sound(t), ValidHash, NEW k \in Keys, Matches(t, k) # {}
  PROVE  /\ Sound(Delete(t, k)) /\ Len(Delete(t, k).keys) <= Len(t.keys)
         /\ \E m \in 1 .. t.pop : /\ KeysOf(t)[m] = k
                                  /\ KeysOf(Delete(t, k)) = RemoveAt(KeysOf(t), m)
                                  /\ ValsOf(Delete(t, k)) = RemoveAt(ValsOf(t), m)
<1> DEFINE j == Min(Matches(t, k))
           i == t.a[j].i
           u == Removed(t, j)
           live == LiveIn(t)
           r == Delete(t, k)
<1>1. j \in UsedOf(t.a) /\ i \in live /\ t.keys[i] = k
  BY Matching
<1>2. r = IF ManyDeleted(u) THEN Compact(u) ELSE u
  BY DEF Delete, Removed
<1> HIDE DEF r, j
<1>3. /\ Sound(u) /\ LiveIn(u) = live \ {i}
      /\ u.keys = [t.keys EXCEPT ![i] = None] /\ u.vals = [t.vals EXCEPT ![i] = None]
  BY <1>1, Removing
<1> HIDE DEF u, i, live
<1>4. /\ t.keys \in Seq(Keys \cup {None}) /\ t.vals \in Seq(Vals \cup {None}) /\ Len(t.vals) = Len(t.keys)
      /\ live \in SUBSET (1 .. Len(t.vals)) /\ live \in SUBSET (1 .. Len(t.keys)) /\ Len(t.keys) \in Nat
  BY Live DEF Sound, Listed, live
<1>5. RankIn(live, i) \in 1 .. t.pop /\ KeysOf(t)[RankIn(live, i)] = k
  BY <1>1, Contents DEF live
<1>6. /\ u.keys \in Seq(Keys \cup {None}) /\ Len(u.keys) = Len(t.keys)
      /\ u.vals \in Seq(Vals \cup {None}) /\ Len(u.vals) = Len(t.vals)
      /\ \A x \in live \ {i} : u.keys[x] = t.keys[x] /\ u.vals[x] = t.vals[x]
  BY <1>1, <1>3, <1>4
<1>7. /\ live \ {i} \in SUBSET (1 .. Len(t.vals)) /\ live \ {i} \in SUBSET (1 .. Len(t.keys))
      /\ live \ {i} \in SUBSET (1 .. Len(u.vals)) /\ live \ {i} \in SUBSET (1 .. Len(u.keys))
  BY <1>4, <1>6
<1>8. Kept(live \ {i}, u.keys) = Kept(live \ {i}, t.keys)
  BY <1>4, <1>6, <1>7, KeptAgree
<1>9. Kept(live \ {i}, u.vals) = Kept(live \ {i}, t.vals)
  BY <1>4, <1>6, <1>7, KeptAgree
<1>10. Kept(live \ {i}, t.keys) = RemoveAt(Kept(live, t.keys), RankIn(live, i))
  BY <1>1, <1>4, KeptLess
<1>11. Kept(live \ {i}, t.vals) = RemoveAt(Kept(live, t.vals), RankIn(live, i))
  BY <1>1, <1>4, KeptLess
<1>12. KeysOf(u) = RemoveAt(KeysOf(t), RankIn(live, i)) /\ ValsOf(u) = RemoveAt(ValsOf(t), RankIn(live, i))
  BY <1>3, <1>8, <1>9, <1>10, <1>11 DEF KeysOf, ValsOf, live
<1>13. Sound(r) /\ Len(r.keys) <= Len(t.keys) /\ KeysOf(r) = KeysOf(u) /\ ValsOf(r) = ValsOf(u)
  <2>1. CASE ManyDeleted(u)
    <3>1. r = Compact(u)
      BY <2>1, <1>2
    <3> QED
      BY <3>1, <1>3, <1>6, Compacts
  <2>2. CASE ~ManyDeleted(u)
    <3>1. r = u
      BY <2>2, <1>2
    <3> QED
      BY <3>1, <1>3, <1>4, <1>6
  <2> QED
    BY <2>1, <2>2
<1> QED
  BY <1>5, <1>12, <1>13 DEF r

-----------------------------------------------------------------------------
(* New maps *)

\* A map that is built from the n keys of ks, after its first i entries
Begun(t, i, n, ks, vs) ==
  /\ t = Record(t.level, t.a, n, ks, vs)
  /\ \/ t.level = 0 /\ t.a = <<>>
     \/ /\ t.level \in Levels /\ Table(t.a, t.level) /\ Closed(t.a, t.level)
        /\ Names(t.a, 1 .. i, HashesOf(ks))

LEMMA NewTables ==
  ASSUME NEW level \in Levels, NEW g
  PROVE  Table(NewTable(level), level) /\ Closed(NewTable(level), level) /\ Names(NewTable(level), {}, g)
<1>1. NewTable(level) = [p \in Places(level) |-> Empty]
  BY DEF NewTable, Places
<1>2. Size(level) - 1 \in Places(level)
  BY LevelFacts DEF Places
<1>3. UsedOf(NewTable(level)) = {}
  BY <1>1 DEF UsedOf
<1>4. NewTable(level) \in [Places(level) -> Entries]
  BY <1>1 DEF Entries
<1> QED
  BY <1>1, <1>2, <1>3, <1>4 DEF Table, Closed, Packed, Names

LEMMA BuildLevels == ASSUME NEW n \in Nat PROVE BuildLevel(n) \in Levels
<1> DEFINE N == {FirstLevel} \cup {l \in 2 .. LastLevel : Pow2[l - 2] <= n}
<1>1. FirstLevel \in Nat /\ LastLevel \in Nat /\ FirstLevel <= LastLevel
  BY SizesAssumption
<1>2. N \in SUBSET (0 .. LastLevel) /\ FirstLevel \in N
  BY <1>1
<1>3. BuildLevel(n) = Max(N)
  BY DEF BuildLevel
<1> HIDE DEF N
<1>4. Max(N) \in N /\ FirstLevel <= Max(N)
  BY <1>1, <1>2, GreatestElement
<1>5. PICK m \in N : m = Max(N)
  BY <1>4
<1>6. m \in 0 .. LastLevel /\ FirstLevel <= m
  BY <1>2, <1>4, <1>5
<1>7. m \in Levels
  BY ONLY <1>1, <1>6 DEF Levels
<1> QED
  BY <1>3, <1>5, <1>7

LEMMA BuildSteps ==
  ASSUME NEW n \in 0 .. MaxList, NEW ks \in [1 .. n -> Keys], NEW vs \in [1 .. n -> Vals], ValidHash,
         NEW t, NEW i \in 0 .. n - 1, Begun(t, i, n, ks, vs)
  PROVE  Begun(BuildStep(t, i + 1), i + 1, n, ks, vs)
<1> DEFINE h == hash[ks[i + 1]]
           new == Insert(t, h, i + 1)
           grown == IF new.end = Size(t.level) - 1 THEN Resize(new.a, t.level)
                    ELSE [level |-> t.level, a |-> new.a]
           u == Record(grown.level, grown.a, n, ks, vs)
<1>1. t = Record(t.level, t.a, n, ks, vs)
  BY DEF Begun
<1>2. t.keys = ks
  BY <1>1 DEF Record
<1>3. n \in Nat /\ i \in Nat /\ i + 1 \in 1 .. n /\ i + 1 \in 1 .. MaxList /\ (1 .. i) \cup {i + 1} = 1 .. i + 1 /\ i + 1 \notin 1 .. i
  BY BoundsAssumption
<1>4. h \in Hash /\ h = HashesOf(ks)[i + 1]
  BY <1>3 DEF ValidHash, HashesOf
<1>5. BuildStep(t, i + 1) = IF t.level = 0 THEN t ELSE [t EXCEPT !.a = grown.a, !.level = grown.level]
  BY <1>2 DEF BuildStep
<1>6. CASE t.level = 0
  <2>1. BuildStep(t, i + 1) = t /\ t.a = <<>>
    <3>1. 0 \notin Levels
      BY LevelFacts
    <3> QED
      BY <1>5, <1>6, <3>1 DEF Begun
  <2> QED
    BY <1>1, <1>6, <2>1 DEF Begun
<1>7. CASE t.level # 0
  <2>1. t.level \in Levels /\ Table(t.a, t.level) /\ Closed(t.a, t.level) /\ Names(t.a, 1 .. i, HashesOf(ks))
    BY <1>7 DEF Begun
  <2> HIDE DEF h
  <2>2. \/ grown = Resize(new.a, t.level)
        \/ grown.level = t.level /\ grown.a = new.a /\ new.end # Size(t.level) - 1
    OBVIOUS
  <2>3. BuildStep(t, i + 1) = [t EXCEPT !.a = grown.a, !.level = grown.level]
    BY <1>5, <1>7
  <2> HIDE DEF grown
  <2>4. BuildStep(t, i + 1) = u
    <3>1. [t EXCEPT !.a = grown.a] = Record(t.level, grown.a, n, ks, vs)
      BY <1>1 DEF Record
    <3>2. [Record(t.level, grown.a, n, ks, vs) EXCEPT !.level = grown.level] = u
      BY DEF Record
    <3>3. [t EXCEPT !.a = grown.a, !.level = grown.level] = [[t EXCEPT !.a = grown.a] EXCEPT !.level = grown.level]
      OBVIOUS
    <3> QED
      BY <2>3, <3>1, <3>2, <3>3
  <2>5. u.level = grown.level /\ u.a = grown.a /\ u = Record(u.level, u.a, n, ks, vs)
    BY DEF Record
  <2> HIDE DEF u
  <2>6. CASE grown.level = 0
    <3>1. grown = NoTable
      <4>1. grown = Resize(new.a, t.level)
        <5>1. t.level # 0
          BY <1>7
        <5> QED
          BY <2>2, <2>6, <5>1
      <4> DEFINE fits == {level \in t.level + 1 .. LastLevel :
                            Copied(new.a, Size(t.level), level)[Size(level) - 1] = Empty}
      <4>2. grown = IF fits = {} THEN NoTable
                    ELSE [level |-> Min(fits), a |-> Copied(new.a, Size(t.level), Min(fits))]
        BY <4>1 DEF Resize
      <4>3. fits # {} => Min(fits) # 0
        <5>1. t.level \in Nat /\ LastLevel \in Int
          BY <2>1, LevelFacts, SizesAssumption
        <5>2. fits \in SUBSET Nat /\ \A level \in fits : level # 0
          BY <5>1
        <5> HIDE DEF fits
        <5> QED
          BY <5>2, LeastElement
      <4> HIDE DEF fits
      <4> QED
        BY <2>6, <4>2, <4>3
    <3> QED
      BY <2>4, <2>5, <2>6, <3>1 DEF Begun, NoTable
  <2>7. CASE grown.level # 0
    <3>1. /\ grown.level \in Levels /\ Table(grown.a, grown.level) /\ Closed(grown.a, grown.level)
          /\ Names(grown.a, (1 .. i) \cup {i + 1}, HashesOf(ks))
      BY <1>3, <1>4, <2>1, <2>2, <2>7, Growing
    <3> QED
      BY <1>3, <2>4, <2>5, <3>1 DEF Begun
  <2> QED
    BY <2>6, <2>7
<1> QED
  BY <1>6, <1>7

\* hashmap_build makes a sound map of the two lists, if the table does not get
\* too large.
LEMMA Building ==
  ASSUME NEW n \in 0 .. MaxList, NEW ks \in [1 .. n -> Keys], NEW vs \in [1 .. n -> Vals], ValidHash,
         IsInjective(ks), Build(ks, vs).level # 0
  PROVE  /\ Sound(Build(ks, vs)) /\ Build(ks, vs).keys = ks /\ Build(ks, vs).vals = vs
         /\ KeysOf(Build(ks, vs)) = ks /\ ValsOf(Build(ks, vs)) = vs
<1> DEFINE level == BuildLevel(n)
           start == Record(level, NewTable(level), n, ks, vs)
           P(made) == made = [m \in 0 .. n |-> IF m = 0 THEN start ELSE BuildStep(made[m - 1], m)]
           Good(t, i) == Begun(t, i, n, ks, vs)
           Arrays == UNION {[Places(l) -> Entries] : l \in Levels}
           Tables == Arrays \cup {<<>>}
           S == {Record(x[1], x[2], n, ks, vs) : x \in (Levels \cup {0}) \X Tables}
           next(i, t) == IF BuildStep(t, i + 1) \in S THEN BuildStep(t, i + 1) ELSE start
           step == [i \in Nat |-> [t \in S |-> next(i, t)]]
<1>1. n \in Nat /\ level \in Levels /\ ks \in Seq(Keys) /\ vs \in Seq(Vals) /\ Len(ks) = n /\ Len(vs) = n
  BY BuildLevels, BoundsAssumption
<1>2. Good(start, 0)
  <2>1. Table(NewTable(level), level) /\ Closed(NewTable(level), level) /\ Names(NewTable(level), {}, HashesOf(ks))
    BY <1>1, NewTables
  <2>2. start.level = level /\ start.a = NewTable(level) /\ start = Record(start.level, start.a, n, ks, vs)
    BY DEF Record
  <2>3. 1 .. 0 = {}
    OBVIOUS
  <2> HIDE DEF start, level
  <2> QED
    BY <1>1, <2>1, <2>2, <2>3 DEF Begun
<1> HIDE DEF level, start
<1>3. \A t, i : Good(t, i) => t \in S
  <2> SUFFICES ASSUME NEW t, NEW i, Good(t, i) PROVE t \in S
    OBVIOUS
  <2>1. t = Record(t.level, t.a, n, ks, vs)
    BY DEF Begun
  <2>2. t.level \in Levels \cup {0} /\ t.a \in Tables
    <3>1. CASE t.level = 0 /\ t.a = <<>>
      <4>1. <<>> \in Tables
        <5> HIDE DEF Arrays
        <5> QED
          OBVIOUS
      <4> HIDE DEF Tables
      <4> QED
        BY <3>1, <4>1
    <3>2. CASE t.level \in Levels /\ Table(t.a, t.level)
      <4>1. t.a \in [Places(t.level) -> Entries]
        BY <3>2 DEF Table
      <4> QED
        BY <3>2, <4>1
    <3> HIDE DEF Tables
    <3> QED
      BY <3>1, <3>2 DEF Begun
  <2>3. <<t.level, t.a>> \in (Levels \cup {0}) \X Tables
    BY <2>2
  <2> HIDE DEF Tables
  <2> QED
    BY <2>1, <2>3
<1>4. ASSUME NEW t, NEW i \in 0 .. n - 1, Good(t, i) PROVE Good(BuildStep(t, i + 1), i + 1)
  BY <1>4, BuildSteps
<1> HIDE DEF Good, S
<1>5. \E made : P(made)
  <2>1. start \in S /\ \A i \in Nat, t \in S : next(i, t) \in S
    BY <1>2, <1>3
  <2>2. \A i \in 0 .. n - 1 : \A t : Good(t, i) => next(i, t) = BuildStep(t, i + 1)
    BY <1>3, <1>4
  <2> HIDE DEF next
  <2>3. step \in [Nat -> [S -> S]] /\ \A i \in Nat, t \in S : step[i][t] = next(i, t)
    BY <2>1
  <2> HIDE DEF step
  <2>4. PICK f \in [Nat -> S] : Follows(f, start, step)
    BY <2>1, <2>3, Recursion
  <2>5. f[0] = start /\ \A i \in Nat : f[i + 1] = next(i, f[i])
    BY <2>3, <2>4 DEF Follows
  <2> DEFINE N == {i \in Nat : i <= n => Good(f[i], i)}
  <2>6. N = Nat
    <3>1. N \in SUBSET Nat
      OBVIOUS
    <3>2. 0 \in N
      BY <1>2, <2>5
    <3>3. ASSUME NEW i \in N PROVE i + 1 \in N
      <4>1. i \in Nat /\ i + 1 \in Nat /\ (i <= n => Good(f[i], i))
        OBVIOUS
      <4>2. ASSUME i + 1 <= n PROVE Good(f[i + 1], i + 1)
        <5>1. i \in 0 .. n - 1 /\ i <= n
          BY <4>1, <4>2, <1>1
        <5>2. f[i + 1] = BuildStep(f[i], i + 1)
          BY <4>1, <5>1, <2>2, <2>5
        <5> QED
          BY <4>1, <5>1, <5>2, <1>4
      <4> QED
        BY <4>1, <4>2
    <3> HIDE DEF N
    <3> QED
      BY <3>1, <3>2, <3>3, Induction
  <2> DEFINE made == [m \in 0 .. n |-> f[m]]
  <2>7. ASSUME NEW m \in 0 .. n PROVE made[m] = IF m = 0 THEN start ELSE BuildStep(made[m - 1], m)
    <3>1. CASE m = 0
      BY <3>1, <2>5
    <3>2. CASE m # 0
      <4>1. m - 1 \in 0 .. n - 1 /\ m - 1 \in 0 .. n /\ m - 1 \in Nat /\ (m - 1) + 1 = m /\ m - 1 <= n
        BY <3>2, <1>1
      <4>2. m - 1 \in N
        BY <4>1, <2>6
      <4>3. Good(f[m - 1], m - 1)
        BY <4>1, <4>2
      <4>4. f[m] = BuildStep(f[m - 1], m)
        BY <4>1, <4>3, <2>2, <2>5
      <4> QED
        BY <3>2, <4>1, <4>4
    <3> QED
      BY <3>1, <3>2
  <2>8. made = [m \in 0 .. n |-> made[m]]
    OBVIOUS
  <2> HIDE DEF made
  <2>9. P(made)
    BY <2>7, <2>8
  <2> QED
    BY <2>9
<1> DEFINE made == CHOOSE f : P(f)
<1>6. P(made)
  BY <1>5, Zenon
<1>7. Build(ks, vs) = made[n]
  BY <1>1, Zenon DEF Build, start, level, Record
<1> HIDE DEF made
<1>8. \A m \in 0 .. n : made[m] = IF m = 0 THEN start ELSE BuildStep(made[m - 1], m)
  BY <1>6
<1> HIDE DEF P
<1> DEFINE M == {m \in Nat : m <= n => Good(made[m], m)}
<1>9. M = Nat
  <2>1. M \in SUBSET Nat
    OBVIOUS
  <2>2. 0 \in M
    BY <1>1, <1>2, <1>8
  <2>3. ASSUME NEW m \in M PROVE m + 1 \in M
    <3>1. m \in Nat /\ m + 1 \in Nat /\ (m <= n => Good(made[m], m))
      OBVIOUS
    <3>2. ASSUME m + 1 <= n PROVE Good(made[m + 1], m + 1)
      <4>1. m \in 0 .. n - 1 /\ m <= n /\ m + 1 \in 0 .. n /\ m + 1 # 0 /\ (m + 1) - 1 = m
        BY <3>1, <3>2, <1>1
      <4>2. made[m + 1] = BuildStep(made[m], m + 1)
        BY <4>1, <1>8
      <4> QED
        BY <3>1, <4>1, <4>2, <1>4
    <3> QED
      BY <3>1, <3>2
  <2> HIDE DEF M
  <2> QED
    BY <2>1, <2>2, <2>3, Induction
<1> DEFINE t == Build(ks, vs)
<1>10. Begun(t, n, n, ks, vs)
  <2>1. n \in M
    BY <1>1, <1>9
  <2> QED
    BY <2>1, <1>1, <1>7 DEF Good
<1>11. t.level # 0
  OBVIOUS
<1> HIDE DEF t
<1>12. /\ t = Record(t.level, t.a, n, ks, vs) /\ t.level \in Levels /\ Table(t.a, t.level) /\ Closed(t.a, t.level)
       /\ Names(t.a, 1 .. n, HashesOf(ks))
  BY <1>10, <1>11 DEF Begun
<1>13. t.keys = ks /\ t.vals = vs /\ t.pop = n
  BY <1>12 DEF Record
<1>14. LiveIn(t) = 1 .. n /\ Cardinality(1 .. n) = n
  <2>1. DOMAIN ks = 1 .. n /\ \A i \in 1 .. n : ks[i] # None
    BY NoneAssumption
  <2>2. LiveIn(t) = 1 .. n
    BY <1>13, <2>1 DEF LiveIn
  <2> QED
    BY <1>1, <2>2, FS_Interval
<1>15. Listed(t)
  <2>1. ks \in Seq(Keys \cup {None}) /\ vs \in Seq(Vals \cup {None})
    BY <1>1
  <2>2. \A i \in 1 .. n : ks[i] = None <=> vs[i] = None
    BY NoneAssumption
  <2>3. \A i, j \in 1 .. n : ks[i] = ks[j] => i = j
    BY DEF IsInjective
  <2>4. n <= MaxList
    BY BoundsAssumption
  <2> QED
    BY <1>1, <1>13, <1>14, <2>1, <2>2, <2>3, <2>4 DEF Listed
<1>16. Sound(t)
  BY <1>12, <1>13, <1>14, <1>15 DEF Sound, Tabled
<1>17. Kept(1 .. Len(ks), ks) = ks /\ Kept(1 .. Len(vs), vs) = vs
  BY <1>1, KeptAll
<1>18. KeysOf(t) = ks /\ ValsOf(t) = vs
  BY <1>1, <1>13, <1>14, <1>17 DEF KeysOf, ValsOf
<1> QED
  BY <1>13, <1>16, <1>18 DEF t

\* The empty map
LEMMA NewMaps ==
  ValidHash => Sound(NewMap) /\ NewMap.keys = <<>> /\ NewMap.pop = 0
<1> DEFINE t == NewMap
<1>1. t = Record(FirstLevel, NewTable(FirstLevel), 0, <<>>, <<>>)
  BY DEF NewMap, Record
<1>2. t.level = FirstLevel /\ t.a = NewTable(FirstLevel) /\ t.pop = 0 /\ t.keys = <<>> /\ t.vals = <<>>
  BY <1>1 DEF Record
<1> HIDE DEF t
<1>3. FirstLevel \in Levels
  BY SizesAssumption DEF Levels
<1>4. LiveIn(t) = {}
  BY <1>2 DEF LiveIn
<1>5. Listed(t)
  <2>1. Cardinality({}) = 0
    BY FS_EmptySet
  <2> QED
    BY <1>2, <1>4, <2>1, BoundsAssumption DEF Listed
<1>6. Tabled(t)
  BY <1>2, <1>3, <1>4, NewTables DEF Tabled
<1> QED
  BY <1>1, <1>2, <1>5, <1>6 DEF Sound, t

-----------------------------------------------------------------------------
(* Theorems about the map *)

MapInv == ValidHash /\ hash \in HashFunctions /\ Sound(tab) /\ shared \subseteq {"keys", "vals"} /\ spoiled = FALSE

LEMMA SoundIsRight ==
  ASSUME Sound(tab), ValidHash
  PROVE  MapOK(tab) /\ InOrder(tab) /\ IndicesRight(tab) /\ PopExact
<1>1. /\ Listed(tab) /\ tab.level \in Levels /\ Table(tab.a, tab.level) /\ Closed(tab.a, tab.level)
      /\ Names(tab.a, LiveIn(tab), HashesOf(tab.keys))
  BY DEF Sound, Tabled
<1>2. tab.pop \in 0 .. Len(tab.keys) /\ LiveIn(tab) \subseteq DOMAIN tab.keys
  BY <1>1, Live DEF LiveIn
<1>3. MapOK(tab)
  BY <1>1, <1>2 DEF MapOK, Listed, Table, Levels, Places
<1>4. UsedIn(tab) = UsedOf(tab.a)
  BY DEF UsedIn, UsedOf
<1>5. InOrder(tab)
  BY <1>1, <1>4 DEF InOrder, Closed, Table, Packed
<1>6. IndicesRight(tab)
  <2>1. /\ {tab.a[p].i : p \in UsedOf(tab.a)} = LiveIn(tab)
        /\ \A p, q \in UsedOf(tab.a) : tab.a[p].i = tab.a[q].i => p = q
    BY <1>1 DEF Names
  <2>2. \A p \in UsedOf(tab.a) : tab.a[p].h = hash[tab.keys[tab.a[p].i]]
    <3> TAKE p \in UsedOf(tab.a)
    <3>1. tab.a[p].i \in DOMAIN tab.keys
      BY <1>2, <2>1
    <3> QED
      BY <1>1, <3>1 DEF Names, HashesOf
  <2> QED
    BY <1>4, <2>1, <2>2 DEF IndicesRight
<1> QED
  BY <1>1, <1>3, <1>5, <1>6 DEF PopExact, Listed

LEMMA MapInvInit == MapInit => MapInv
<1> SUFFICES ASSUME MapInit PROVE MapInv
  OBVIOUS
<1>1. hash \in HashFunctions /\ shared = {} /\ spoiled = FALSE
  BY DEF MapInit
<1>2. ValidHash
  BY <1>1, HashAssumption DEF ValidHash, Hash
<1>3. PICK n \in 0 .. MaxGiven :
        \E ks \in {s \in [1 .. n -> Keys] : IsInjective(s)}, vs \in [1 .. n -> Vals] :
          tab = Build(ks, vs) /\ tab.level # 0
  BY DEF MapInit
<1>4. PICK ks \in [1 .. n -> Keys], vs \in [1 .. n -> Vals] :
        IsInjective(ks) /\ tab = Build(ks, vs) /\ tab.level # 0
  BY <1>3
<1>5. n \in 0 .. MaxList
  BY BoundsAssumption
<1>6. Sound(tab)
  BY <1>2, <1>4, <1>5, Building
<1> QED
  BY <1>1, <1>2, <1>6 DEF MapInv

\* The soundness of the next table depends on the present hashes.
LEMMA SoundNext ==
  ASSUME ValidHash, hash' = hash, NEW u, tab' = u, Sound(u)
  PROVE  ValidHash' /\ Sound(tab)'
<1>1. LiveIn(tab)' = LiveIn(u) /\ HashesOf(tab.keys)' = HashesOf(u.keys)
  BY DEF LiveIn, HashesOf
<1>2. Listed(u) /\ Tabled(u) /\ u = Record(u.level, u.a, u.pop, u.keys, u.vals)
  BY DEF Sound
<1>3. Listed(tab)'
  BY <1>1, <1>2 DEF Listed
<1>4. Tabled(tab)'
  BY <1>1, <1>2 DEF Tabled
<1> QED
  BY <1>2, <1>3, <1>4 DEF Sound, ValidHash

LEMMA MapInvNext == MapInv /\ [MapNext]_mapVars => MapInv'
<1> SUFFICES ASSUME MapInv, [MapNext]_mapVars PROVE MapInv'
  OBVIOUS
<1>0. ValidHash /\ hash \in HashFunctions /\ Sound(tab) /\ shared \subseteq {"keys", "vals"} /\ spoiled = FALSE
  BY DEF MapInv
<1>1. ASSUME UNCHANGED <<hash, tab>> PROVE ValidHash' /\ Sound(tab)'
  BY <1>0, <1>1, SoundNext
<1>2. ASSUME NEW lists, Writes(lists, lists) PROVE shared' \subseteq {"keys", "vals"} /\ spoiled' = FALSE
  BY <1>0, <1>2 DEF Writes
<1>3. CASE Count
  BY <1>0, <1>1, <1>3 DEF Count, MapInv
<1>4. ASSUME NEW which \in {"keys", "vals"}, ListOf(which) PROVE MapInv'
  <2>1. ASSUME tab.pop = Len(tab[which]) PROVE UNCHANGED <<tab, spoiled>> /\ shared' = shared \cup {which}
    BY <1>4, <2>1 DEF ListOf
  <2>2. ASSUME tab.pop # Len(tab[which]) PROVE tab' = Compact(tab) /\ spoiled' = spoiled /\ shared' = {which}
    BY <1>4, <2>2 DEF ListOf
  <2>3. hash' = hash
    BY <1>4 DEF ListOf
  <2>4. Sound(Compact(tab))
    BY <1>0, Compacts
  <2>5. tab' \in {tab, Compact(tab)} /\ spoiled' = spoiled /\ shared' \subseteq {"keys", "vals"}
    BY <1>0, <2>1, <2>2
  <2>6. ValidHash' /\ Sound(tab)'
    <3>1. CASE tab' = tab
      BY <1>0, <2>3, <3>1, SoundNext
    <3>2. CASE tab' = Compact(tab)
      BY <1>0, <2>3, <2>4, <3>2, SoundNext
    <3> QED
      BY <2>5, <3>1, <3>2
  <2> QED
    BY <1>0, <2>3, <2>5, <2>6 DEF MapInv
<1>5. ASSUME NEW which \in {"keys", "vals"}, Release(which) PROVE MapInv'
  BY <1>0, <1>1, <1>5 DEF Release, MapInv
<1>6. ASSUME NEW k \in Keys, Get(k) \/ HasKey(k) PROVE MapInv'
  <2>1. hash' = hash /\ tab' = tab /\ shared' = shared /\ spoiled' = spoiled
    BY <1>6, Zenon DEF Get, HasKey
  <2> QED
    BY <1>0, <1>1, <2>1 DEF MapInv
<1>7. ASSUME NEW k \in Keys, DeleteKey(k) PROVE MapInv'
  <2>1. CASE Matches(tab, k) = {}
    BY <1>0, <1>1, <1>7, <2>1 DEF DeleteKey, MapInv
  <2>2. CASE Matches(tab, k) # {}
    <3>1. tab' = Delete(tab, k) /\ hash' = hash /\ Writes({"keys", "vals"}, {"keys", "vals"})
      BY <1>7, <2>2 DEF DeleteKey
    <3>2. Sound(Delete(tab, k))
      BY <1>0, <2>2, Deletes
    <3>3. ValidHash' /\ Sound(tab)'
      BY <1>0, <3>1, <3>2, SoundNext
    <3> QED
      BY <1>0, <1>2, <3>1, <3>3 DEF MapInv
  <2> QED
    BY <2>1, <2>2
<1>8. ASSUME NEW k \in Keys, NEW v \in Vals, SetOld(k, v) PROVE MapInv'
  <2>1. Matches(tab, k) # {} /\ tab' = Replace(tab, k, v) /\ hash' = hash /\ Writes({"vals"}, {"vals"})
    BY <1>8 DEF SetOld
  <2>2. Sound(Replace(tab, k, v))
    BY <1>0, <2>1, SetsOld
  <2>3. ValidHash' /\ Sound(tab)'
    BY <1>0, <2>1, <2>2, SoundNext
  <2> QED
    BY <1>0, <1>2, <2>1, <2>3 DEF MapInv
<1>9. ASSUME NEW k \in Keys, NEW v \in Vals, SetNew(k, v) PROVE MapInv'
  <2>1. /\ Matches(tab, k) = {} /\ Len(tab.keys) < MaxList /\ Enter(tab, k).t.level # 0
        /\ tab' = Added(tab, k, v) /\ hash' = hash /\ Writes({"keys", "vals"}, {"keys", "vals"})
    BY <1>9 DEF SetNew, Added
  <2>2. Sound(Added(tab, k, v))
    BY <1>0, <2>1, SetsNew
  <2>3. ValidHash' /\ Sound(tab)'
    BY <1>0, <2>1, <2>2, SoundNext
  <2> QED
    BY <1>0, <1>2, <2>1, <2>3 DEF MapInv
<1>10. CASE UNCHANGED mapVars
  BY <1>0, <1>1, <1>10 DEF mapVars, MapInv
<1> QED
  BY <1>3, <1>4, <1>5, <1>6, <1>7, <1>8, <1>9, <1>10 DEF MapNext

\* In every state the table and the lists belong together: lookups find what
\* insertion, deletion, resizing and compaction left (search.c:610-771).
THEOREM MapSound == MapSpec => []TableSound
<1>1. MapInv => TableSound
  BY SoundIsRight DEF MapInv, TableSound, MapTypeOK
<1> QED
  BY <1>1, MapInvInit, MapInvNext, PTL DEF MapSpec

\* A list that was given out is never written to (search.c:677-685).
THEOREM ListsStay == MapSpec => []ListsKept
<1>1. MapInv => ListsKept
  BY DEF MapInv, ListsKept
<1> QED
  BY <1>1, MapInvInit, MapInvNext, PTL DEF MapSpec

\* Where memory does not run out, pop counts the keys that are there, as
\* hashmap_compact asserts (search.c:667).
THEOREM PopRight == MapSpec => []PopExact
<1>1. MapInv => PopExact
  BY SoundIsRight DEF MapInv
<1> QED
  BY <1>1, MapInvInit, MapInvNext, PTL DEF MapSpec

-----------------------------------------------------------------------------
(* The map implements an ordered map *)

Pairs(ks, vs) == [m \in 1 .. Len(ks) |-> [key |-> ks[m], val |-> vs[m]]]

LEMMA PairsMore ==
  ASSUME NEW ks \in Seq(Keys), NEW vs \in Seq(Vals), Len(ks) = Len(vs), NEW k \in Keys, NEW v \in Vals
  PROVE  Pairs(Append(ks, k), Append(vs, v)) = Append(Pairs(ks, vs), [key |-> k, val |-> v])
<1> DEFINE P == [key : Keys, val : Vals]
           n == Len(ks)
           x == Pairs(ks, vs)
           e == [key |-> k, val |-> v]
           y == Pairs(Append(ks, k), Append(vs, v))
<1>1. /\ n \in Nat /\ Len(Append(ks, k)) = n + 1 /\ Append(ks, k)[n + 1] = k /\ Append(vs, v)[n + 1] = v
      /\ \A m \in 1 .. n : Append(ks, k)[m] = ks[m] /\ Append(vs, v)[m] = vs[m] /\ ks[m] \in Keys /\ vs[m] \in Vals
  OBVIOUS
<1>2. x \in Seq(P) /\ Len(x) = n /\ \A m \in 1 .. n : x[m] = [key |-> ks[m], val |-> vs[m]]
  <2>1. x \in [1 .. n -> P]
    BY <1>1 DEF Pairs
  <2> QED
    BY <1>1, <2>1 DEF Pairs
<1>3. y = [m \in 1 .. n + 1 |-> [key |-> Append(ks, k)[m], val |-> Append(vs, v)[m]]]
  BY <1>1 DEF Pairs
<1> HIDE DEF n, x, y
<1>4. \A m \in 1 .. n + 1 : m \in 1 .. n \/ m = n + 1
  BY <1>1
<1>5. \A m \in 1 .. n + 1 : y[m] = IF m = n + 1 THEN e ELSE x[m]
  BY <1>1, <1>2, <1>3, <1>4
<1>6. e \in P
  OBVIOUS
<1> HIDE DEF e, P
<1> DEFINE z == Append(x, e)
<1>7. z \in Seq(P) /\ Len(z) = n + 1 /\ z[n + 1] = e /\ \A m \in 1 .. n : z[m] = x[m]
  <2>1. Len(x) = n
    BY <1>2
  <2> QED
    BY <1>2, <1>6, <2>1
<1> HIDE DEF z
<1>8. z = [m \in 1 .. n + 1 |-> z[m]] /\ y = [m \in 1 .. n + 1 |-> y[m]]
  BY <1>1, <1>3, <1>7
<1>9. \A m \in 1 .. n + 1 : z[m] = y[m]
  BY <1>1, <1>4, <1>5, <1>7
<1>10. y = z
  BY <1>8, <1>9
<1> QED
  BY <1>10 DEF x, y, z, e

LEMMA PairsLess ==
  ASSUME NEW ks \in Seq(Keys), NEW vs \in Seq(Vals), Len(ks) = Len(vs), NEW k \in 1 .. Len(ks)
  PROVE  Pairs(RemoveAt(ks, k), RemoveAt(vs, k)) = RemoveAt(Pairs(ks, vs), k)
<1> DEFINE P == [key : Keys, val : Vals]
           n == Len(ks)
           x == Pairs(ks, vs)
           r == RemoveAt(x, k)
           y == Pairs(RemoveAt(ks, k), RemoveAt(vs, k))
<1>1. n \in Nat /\ \A m \in 1 .. n : ks[m] \in Keys /\ vs[m] \in Vals
  OBVIOUS
<1>2. x \in Seq(P) /\ Len(x) = n /\ \A m \in 1 .. n : x[m] = [key |-> ks[m], val |-> vs[m]]
  <2>1. x \in [1 .. n -> P]
    BY <1>1 DEF Pairs
  <2> QED
    BY <1>1, <2>1 DEF Pairs
<1>3. Len(RemoveAt(ks, k)) = n - 1 /\ \A m \in 1 .. n - 1 : RemoveAt(ks, k)[m] = IF m < k THEN ks[m] ELSE ks[m + 1]
  BY Removal
<1>4. \A m \in 1 .. n - 1 : RemoveAt(vs, k)[m] = IF m < k THEN vs[m] ELSE vs[m + 1]
  BY Removal
<1> HIDE DEF x, P
<1>5. r \in Seq(P) /\ Len(r) = n - 1 /\ \A m \in 1 .. n - 1 : r[m] = IF m < k THEN x[m] ELSE x[m + 1]
  BY <1>2, Removal
<1>6. y = [m \in 1 .. n - 1 |-> [key |-> RemoveAt(ks, k)[m], val |-> RemoveAt(vs, k)[m]]]
  BY <1>3 DEF Pairs
<1> HIDE DEF y, r
<1>7. ASSUME NEW m \in 1 .. n - 1 PROVE y[m] = r[m]
  <2>1. m \in 1 .. n /\ m + 1 \in 1 .. n
    BY <1>1
  <2>2. y[m] = [key |-> RemoveAt(ks, k)[m], val |-> RemoveAt(vs, k)[m]]
    BY <1>6
  <2>3. CASE m < k
    <3>1. RemoveAt(ks, k)[m] = ks[m] /\ RemoveAt(vs, k)[m] = vs[m] /\ r[m] = x[m]
      BY <2>3, <1>3, <1>4, <1>5
    <3> QED
      BY <3>1, <2>1, <2>2, <1>2
  <2>4. CASE ~(m < k)
    <3>1. RemoveAt(ks, k)[m] = ks[m + 1] /\ RemoveAt(vs, k)[m] = vs[m + 1] /\ r[m] = x[m + 1]
      BY <2>4, <1>3, <1>4, <1>5
    <3> QED
      BY <3>1, <2>1, <2>2, <1>2
  <2> QED
    BY <2>3, <2>4
<1>8. r = [m \in 1 .. n - 1 |-> r[m]] /\ y = [m \in 1 .. n - 1 |-> y[m]]
  <2>1. n - 1 \in Int /\ DOMAIN r = 1 .. n - 1
    BY <1>1, <1>5
  <2> QED
    BY <1>5, <1>6, <2>1
<1> QED
  BY <1>7, <1>8 DEF r, y, x

\* The ordered map that the lists stand for
LEMMA AssocIs == Sound(tab) => assoc = Pairs(KeysOf(tab), ValsOf(tab)) /\ DOMAIN assoc = 1 .. tab.pop /\ Len(assoc) = tab.pop
<1> SUFFICES ASSUME Sound(tab) PROVE assoc = Pairs(KeysOf(tab), ValsOf(tab)) /\ DOMAIN assoc = 1 .. tab.pop /\ Len(assoc) = tab.pop
  OBVIOUS
<1>1. tab.pop = Cardinality(LiveIn(tab))
  BY DEF Sound, Listed
<1>2. Len(KeysOf(tab)) = tab.pop /\ tab.pop \in Nat
  BY Contents
<1>3. assoc = [m \in 1 .. tab.pop |-> [key |-> KeysOf(tab)[m], val |-> ValsOf(tab)[m]]]
  BY <1>1 DEF assoc, KeysOf, ValsOf
<1> QED
  BY <1>2, <1>3 DEF Pairs

LEMMA AssocFields ==
  ASSUME Sound(tab)
  PROVE  \A m \in 1 .. tab.pop : assoc[m].key = KeysOf(tab)[m] /\ assoc[m].val = ValsOf(tab)[m]
<1>1. assoc = Pairs(KeysOf(tab), ValsOf(tab)) /\ DOMAIN assoc = 1 .. tab.pop
  BY AssocIs
<1>2. Len(KeysOf(tab)) = tab.pop
  BY Contents
<1> QED
  BY <1>1, <1>2 DEF Pairs

\* Where a key is
LEMMA Where ==
  ASSUME Sound(tab), NEW k \in Keys
  PROVE  /\ Ordered!Has(k) <=> \E m \in 1 .. tab.pop : KeysOf(tab)[m] = k
         /\ \A m \in 1 .. tab.pop : KeysOf(tab)[m] = k => Ordered!Has(k) /\ Ordered!Place(k) = m
<1>1. assoc = Pairs(KeysOf(tab), ValsOf(tab)) /\ DOMAIN assoc = 1 .. tab.pop
  BY AssocIs
<1>2. Len(KeysOf(tab)) = tab.pop /\ \A l, m \in 1 .. tab.pop : KeysOf(tab)[l] = KeysOf(tab)[m] => l = m
  BY Contents
<1>3. \A m \in 1 .. tab.pop : assoc[m].key = KeysOf(tab)[m]
  BY AssocFields
<1>4. Ordered!Has(k) <=> \E m \in 1 .. tab.pop : KeysOf(tab)[m] = k
  BY <1>1, <1>3 DEF Ordered!Has
<1>5. ASSUME NEW m \in 1 .. tab.pop, KeysOf(tab)[m] = k PROVE Ordered!Place(k) = m
  <2>1. m \in DOMAIN assoc /\ assoc[m].key = k /\ \A l \in DOMAIN assoc : assoc[l].key = k => l = m
    BY <1>1, <1>2, <1>3, <1>5
  <2> QED
    BY <2>1 DEF Ordered!Place
<1> QED
  BY <1>4, <1>5

LEMMA AssocNext ==
  ASSUME NEW u, tab' = u, Sound(u), Sound(tab)'
  PROVE  assoc' = Pairs(KeysOf(u), ValsOf(u))
<1>1. (assoc = Pairs(KeysOf(tab), ValsOf(tab)) /\ DOMAIN assoc = 1 .. tab.pop /\ Len(assoc) = tab.pop)'
  BY AssocIs, PTL
<1> QED
  BY <1>1 DEF KeysOf, ValsOf, LiveIn

LEMMA AssocStays == ASSUME tab' = tab PROVE assoc' = assoc
BY DEF assoc, LiveIn

\* A map is made from a list of distinct keys and a list of values.
LEMMA OrderedInit == MapInit /\ MapInv => Ordered!AInit
<1> SUFFICES ASSUME MapInit, MapInv PROVE Ordered!AInit
  OBVIOUS
<1>1. Sound(tab) /\ res = <<"done">>
  BY DEF MapInv, MapInit, Done
<1>2. /\ KeysOf(tab) \in Seq(Keys) /\ ValsOf(tab) \in Seq(Vals) /\ Len(KeysOf(tab)) = tab.pop /\ Len(ValsOf(tab)) = tab.pop
      /\ tab.pop \in Nat /\ \A l, m \in 1 .. tab.pop : KeysOf(tab)[l] = KeysOf(tab)[m] => l = m
  BY <1>1, Contents
<1>3. assoc = Pairs(KeysOf(tab), ValsOf(tab)) /\ DOMAIN assoc = 1 .. tab.pop
  BY <1>1, AssocIs
<1> DEFINE c == tab.pop
           ks == KeysOf(tab)
           vs == ValsOf(tab)
           P == [key : Keys, val : Vals]
<1>4. \A m \in 1 .. c : assoc[m] = [key |-> ks[m], val |-> vs[m]]
  BY <1>2, <1>3 DEF Pairs
<1>6. assoc = [m \in 1 .. c |-> assoc[m]]
  BY <1>2, <1>3 DEF Pairs
<1> HIDE DEF c, ks, vs
<1>5. \A m \in 1 .. c : ks[m] \in Keys /\ vs[m] \in Vals
  <2>1. ks \in Seq(Keys) /\ vs \in Seq(Vals) /\ Len(ks) = c /\ Len(vs) = c
    BY <1>2 DEF ks, vs, c
  <2> QED
    BY <2>1
<1>7. \A m \in 1 .. c : assoc[m] \in P /\ assoc[m].key = ks[m]
  <2> TAKE m \in 1 .. c
  <2>1. assoc[m] = [key |-> ks[m], val |-> vs[m]]
    BY <1>4
  <2>2. ks[m] \in Keys /\ vs[m] \in Vals
    BY <1>5
  <2> QED
    BY <2>1, <2>2
<1> HIDE DEF P
<1>8. assoc \in Seq(P)
  <2>1. c \in Nat
    BY <1>2 DEF c
  <2>2. assoc \in [1 .. c -> P]
    BY <1>6, <1>7
  <2> QED
    BY <2>1, <2>2
<1>9. Ordered!Distinct(assoc)
  <2>1. DOMAIN assoc = 1 .. c /\ \A l, m \in 1 .. c : ks[l] = ks[m] => l = m
    BY <1>2, <1>3 DEF ks, c
  <2> QED
    BY <2>1, <1>7 DEF Ordered!Distinct
<1> QED
  BY <1>1, <1>8, <1>9 DEF Ordered!AInit, P

\* Every call does, and answers, what the ordered map does and answers.
LEMMA OrderedNext == MapInv /\ MapInv' /\ [MapNext]_mapVars => [Ordered!ANext]_(Ordered!avars)
<1> SUFFICES ASSUME MapInv, MapInv', [MapNext]_mapVars PROVE [Ordered!ANext]_(Ordered!avars)
  OBVIOUS
<1>0. ValidHash /\ Sound(tab) /\ Sound(tab)'
  BY DEF MapInv
<1> DEFINE ks == KeysOf(tab)
           vs == ValsOf(tab)
           c == tab.pop
<1>1. /\ ks \in Seq(Keys) /\ vs \in Seq(Vals) /\ Len(ks) = c /\ Len(vs) = c /\ c \in Nat
      /\ DOMAIN ks = 1 .. c /\ \A m \in 1 .. c : ks[m] \in Keys /\ vs[m] \in Vals
  <2>1. ks \in Seq(Keys) /\ vs \in Seq(Vals) /\ Len(ks) = c /\ Len(vs) = c /\ c \in Nat /\ DOMAIN ks = 1 .. c
    BY <1>0, Contents
  <2> HIDE DEF ks, vs, c
  <2>2. \A m \in 1 .. c : ks[m] \in Keys /\ vs[m] \in Vals
    BY <2>1
  <2> QED
    BY <2>1, <2>2
<1>2. /\ assoc = Pairs(ks, vs) /\ DOMAIN assoc = 1 .. c /\ Len(assoc) = c
  BY <1>0, AssocIs
<1>3. \A k \in Keys : /\ Ordered!Has(k) <=> \E m \in 1 .. c : ks[m] = k
                      /\ \A m \in 1 .. c : ks[m] = k => Ordered!Has(k) /\ Ordered!Place(k) = m
  BY <1>0, Where
<1>4. \A m \in 1 .. c : assoc[m].key = ks[m] /\ assoc[m].val = vs[m]
  BY <1>0, AssocFields
<1>5. \A k \in Keys : Matches(tab, k) = {} <=> ~Ordered!Has(k)
  BY <1>0, <1>3, Finding
<1> HIDE DEF assoc, ks, vs, c
<1>6. CASE Count
  <2>1. res' = <<"count", c>> /\ tab' = tab
    BY <1>6 DEF Count, c
  <2>2. assoc' = assoc
    BY <2>1, AssocStays
  <2>3. Ordered!ACount
    BY <1>2, <2>1, <2>2 DEF Ordered!ACount
  <2> QED
    BY <2>3 DEF Ordered!ANext
<1>7. ASSUME NEW which \in {"keys", "vals"}, ListOf(which) PROVE Ordered!ANext
  <2>1. /\ [n \in DOMAIN assoc |-> assoc[n].key] = ks
        /\ [n \in DOMAIN assoc |-> assoc[n].val] = vs
    <3>1. ks = [m \in 1 .. c |-> ks[m]] /\ vs = [m \in 1 .. c |-> vs[m]]
      BY <1>1
    <3>2. \A m \in 1 .. c : assoc[m].key = ks[m] /\ assoc[m].val = vs[m]
      BY <1>4
    <3>3. DOMAIN assoc = 1 .. c
      BY <1>2
    <3> QED
      BY ONLY <3>1, <3>2, <3>3
  <2>2. assoc' = assoc /\ res' = <<which, IF which = "keys" THEN ks ELSE vs>>
    <3>1. CASE tab.pop = Len(tab[which])
      <4>1. tab' = tab /\ res' = <<which, tab[which]>>
        BY <1>7, <3>1 DEF ListOf
      <4>2. tab.keys = ks /\ tab.vals = vs
        <5>1. /\ tab.keys \in Seq(Keys \cup {None}) /\ tab.vals \in Seq(Vals \cup {None})
              /\ Len(tab.keys) = Len(tab.vals) /\ tab.pop = Cardinality(LiveIn(tab))
          BY <1>0 DEF Sound, Listed
        <5>2. LiveIn(tab) \in SUBSET (1 .. Len(tab.keys)) /\ Len(tab.keys) \in Nat
          BY <1>0, Live DEF Sound
        <5>3. which = "keys" \/ which = "vals"
          OBVIOUS
        <5>4. Cardinality(LiveIn(tab)) = Len(tab.keys)
          BY <3>1, <5>1, <5>3
        <5>5. IsFiniteSet(1 .. Len(tab.keys)) /\ Cardinality(1 .. Len(tab.keys)) = Len(tab.keys)
          BY <5>2, FS_Interval
        <5>6. LiveIn(tab) = 1 .. Len(tab.keys)
          BY <5>2, <5>4, <5>5, FS_Subset
        <5>7. Kept(1 .. Len(tab.keys), tab.keys) = tab.keys /\ Kept(1 .. Len(tab.vals), tab.vals) = tab.vals
          BY <5>1, KeptAll
        <5> QED
          BY <5>1, <5>6, <5>7 DEF ks, vs, KeysOf, ValsOf
      <4>3. assoc' = assoc
        BY <4>1, AssocStays
      <4> QED
        BY <4>1, <4>2, <4>3
    <3>2. CASE tab.pop # Len(tab[which])
      <4>1. tab' = Compact(tab) /\ res' = <<which, tab'[which]>>
        BY <1>7, <3>2 DEF ListOf
      <4>2. /\ Sound(Compact(tab)) /\ KeysOf(Compact(tab)) = ks /\ ValsOf(Compact(tab)) = vs
            /\ Compact(tab).keys = ks /\ Compact(tab).vals = vs
        BY <1>0, Compacts DEF ks, vs
      <4>3. assoc' = assoc
        BY <1>0, <1>2, <4>1, <4>2, AssocNext
      <4> QED
        BY <4>1, <4>2, <4>3
    <3> QED
      BY <3>1, <3>2
  <2>3. CASE which = "keys"
    <3>1. Ordered!AKeys
      BY <2>1, <2>2, <2>3 DEF Ordered!AKeys
    <3> QED
      BY <3>1 DEF Ordered!ANext
  <2>4. CASE which = "vals"
    <3>1. Ordered!AValues
      BY <2>1, <2>2, <2>4 DEF Ordered!AValues
    <3> QED
      BY <3>1 DEF Ordered!ANext
  <2> QED
    BY <2>3, <2>4
<1>8. ASSUME NEW which \in {"keys", "vals"}, Release(which) PROVE UNCHANGED Ordered!avars
  <2>1. tab' = tab /\ res' = res
    BY <1>8 DEF Release
  <2>2. assoc' = assoc
    BY <2>1, AssocStays
  <2> QED
    BY <2>1, <2>2 DEF Ordered!avars
<1>9. ASSUME NEW k \in Keys, Get(k) PROVE Ordered!ANext
  <2>1. res' = <<"value", Lookup(tab, k, Missing)>> /\ tab' = tab
    BY <1>9 DEF Get
  <2>2. assoc' = assoc
    BY <2>1, AssocStays
  <2>3. /\ \A m \in 1 .. c : ks[m] = k => Lookup(tab, k, Missing) = vs[m]
        /\ (\A m \in 1 .. c : ks[m] # k) => Lookup(tab, k, Missing) = Missing
    BY <1>0, Finding DEF ks, vs, c
  <2>4. Lookup(tab, k, Missing) = IF Ordered!Has(k) THEN assoc[Ordered!Place(k)].val ELSE Missing
    <3>1. CASE Ordered!Has(k)
      <4>1. PICK m \in 1 .. c : ks[m] = k
        BY <1>3, <3>1
      <4>2. Ordered!Place(k) = m
        BY <1>3, <4>1
      <4>3. Lookup(tab, k, Missing) = vs[m]
        BY <2>3, <4>1
      <4>4. assoc[m].val = vs[m]
        BY <1>4
      <4> QED
        BY <3>1, <4>2, <4>3, <4>4
    <3>2. CASE ~Ordered!Has(k)
      BY <1>3, <2>3, <3>2
    <3> QED
      BY <3>1, <3>2
  <2>5. Ordered!AGet(k)
    BY <2>1, <2>2, <2>4 DEF Ordered!AGet
  <2> QED
    BY <2>5 DEF Ordered!ANext
<1>10. ASSUME NEW k \in Keys, HasKey(k) PROVE Ordered!ANext
  <2>1. res' = <<"has", Lookup(tab, k, None) # None>> /\ tab' = tab
    BY <1>10 DEF HasKey
  <2>2. assoc' = assoc
    BY <2>1, AssocStays
  <2>3. /\ \A m \in 1 .. c : ks[m] = k => Lookup(tab, k, None) = vs[m]
        /\ (\A m \in 1 .. c : ks[m] # k) => Lookup(tab, k, None) = None
    BY <1>0, Finding DEF ks, vs, c
  <2>4. \A m \in 1 .. c : vs[m] # None
    BY <1>1, NoneAssumption
  <2>5. (Lookup(tab, k, None) # None) <=> Ordered!Has(k)
    BY <1>3, <2>3, <2>4
  <2>6. (Lookup(tab, k, None) # None) = Ordered!Has(k)
    BY <2>5 DEF Ordered!Has
  <2>7. Ordered!AHas(k)
    BY <2>1, <2>2, <2>6 DEF Ordered!AHas
  <2> QED
    BY <2>7 DEF Ordered!ANext
<1>11. ASSUME NEW k \in Keys, DeleteKey(k) PROVE Ordered!ANext
  <2>1. CASE Matches(tab, k) = {}
    <3>1. res' = <<"value", Missing>> /\ tab' = tab
      BY <1>11, <2>1 DEF DeleteKey
    <3>2. assoc' = assoc /\ ~Ordered!Has(k)
      BY <1>5, <2>1, <3>1, AssocStays
    <3>3. Ordered!ADelete(k)
      BY <3>1, <3>2 DEF Ordered!ADelete
    <3> QED
      BY <3>3 DEF Ordered!ANext
  <2>2. CASE Matches(tab, k) # {}
    <3>1. res' = <<"done">> /\ tab' = Delete(tab, k)
      BY <1>11, <2>2 DEF DeleteKey, Done
    <3>2. /\ Sound(Delete(tab, k))
          /\ \E m \in 1 .. c : /\ ks[m] = k /\ KeysOf(Delete(tab, k)) = RemoveAt(ks, m)
                               /\ ValsOf(Delete(tab, k)) = RemoveAt(vs, m)
      BY <1>0, <2>2, Deletes DEF ks, vs, c
    <3>3. PICK m \in 1 .. c : /\ ks[m] = k /\ KeysOf(Delete(tab, k)) = RemoveAt(ks, m)
                              /\ ValsOf(Delete(tab, k)) = RemoveAt(vs, m)
      BY <3>2
    <3>4. assoc' = Pairs(RemoveAt(ks, m), RemoveAt(vs, m))
      BY <1>0, <3>1, <3>2, <3>3, AssocNext
    <3>5. assoc' = RemoveAt(assoc, m)
      BY <1>1, <1>2, <3>4, PairsLess
    <3>6. Ordered!Has(k) /\ Ordered!Place(k) = m
      BY <1>3, <3>3
    <3>7. Ordered!ADelete(k)
      BY <3>1, <3>5, <3>6 DEF Ordered!ADelete, Ordered!RemoveAt, RemoveAt
    <3> QED
      BY <3>7 DEF Ordered!ANext
  <2> QED
    BY <2>1, <2>2
<1>12. ASSUME NEW k \in Keys, NEW v \in Vals, SetOld(k, v) PROVE Ordered!ANext
  <2>1. Matches(tab, k) # {} /\ tab' = Replace(tab, k, v) /\ res' = <<"done">>
    BY <1>12 DEF SetOld, Done
  <2>2. /\ Sound(Replace(tab, k, v))
        /\ \E m \in 1 .. c : /\ ks[m] = k /\ KeysOf(Replace(tab, k, v)) = ks
                             /\ ValsOf(Replace(tab, k, v)) = [vs EXCEPT ![m] = v]
    BY <1>0, <2>1, SetsOld DEF ks, vs, c
  <2>3. PICK m \in 1 .. c : /\ ks[m] = k /\ KeysOf(Replace(tab, k, v)) = ks
                            /\ ValsOf(Replace(tab, k, v)) = [vs EXCEPT ![m] = v]
    BY <2>2
  <2>4. assoc' = Pairs(ks, ValsOf(Replace(tab, k, v)))
    BY <1>0, <2>1, <2>2, <2>3, AssocNext
  <2>5. assoc' = [assoc EXCEPT ![m].val = v]
    <3> DEFINE us == ValsOf(Replace(tab, k, v))
               e == [key |-> ks[m], val |-> v]
               y == [assoc EXCEPT ![m] = e]
    <3>1. us = [vs EXCEPT ![m] = v]
      BY <2>3
    <3>2. m \in 1 .. Len(ks) /\ Len(ks) = Len(vs) /\ ks \in Seq(Keys) /\ vs \in Seq(Vals) /\ assoc = Pairs(ks, vs)
      BY <1>1, <1>2
    <3>3. assoc[m] = [key |-> ks[m], val |-> vs[m]]
      BY <3>2 DEF Pairs
    <3>4. [assoc[m] EXCEPT !.val = v] = e
      BY <3>3
    <3>5. [assoc EXCEPT ![m].val = v] = y
      BY <3>4
    <3> HIDE DEF us, e, y
    <3>6. e = [key |-> ks[m], val |-> v] /\ y = [assoc EXCEPT ![m] = e]
      BY DEF e, y
    <3>7. us[m] = v /\ \A j \in 1 .. Len(ks) : j # m => us[j] = vs[j]
      BY <1>12, <3>1, <3>2
    <3>8. DOMAIN assoc = 1 .. Len(ks) /\ \A j \in 1 .. Len(ks) : assoc[j] = [key |-> ks[j], val |-> vs[j]]
      BY <3>2 DEF Pairs
    <3>9. y = [j \in 1 .. Len(ks) |-> IF j = m THEN e ELSE assoc[j]]
      BY <3>6, <3>8
    <3>10. \A j \in 1 .. Len(ks) : [key |-> ks[j], val |-> us[j]] = IF j = m THEN e ELSE assoc[j]
      BY <3>6, <3>7, <3>8
    <3>11. Pairs(ks, us) = y
      BY <3>9, <3>10 DEF Pairs
    <3> QED
      BY <2>4, <3>5, <3>11 DEF us
  <2>6. Ordered!Has(k) /\ Ordered!Place(k) = m
    BY <1>3, <2>3
  <2>7. Ordered!ASet(k, v)
    BY <2>1, <2>5, <2>6 DEF Ordered!ASet
  <2> QED
    BY <2>7 DEF Ordered!ANext
<1>13. ASSUME NEW k \in Keys, NEW v \in Vals, SetNew(k, v) PROVE Ordered!ANext
  <2>1. /\ Matches(tab, k) = {} /\ Len(tab.keys) < MaxList /\ Enter(tab, k).t.level # 0
        /\ tab' = Added(tab, k, v) /\ res' = <<"done">>
    BY <1>13 DEF SetNew, Added, Done
  <2>2. Sound(Added(tab, k, v)) /\ KeysOf(Added(tab, k, v)) = Append(ks, k) /\ ValsOf(Added(tab, k, v)) = Append(vs, v)
    BY <1>0, <2>1, SetsNew DEF ks, vs
  <2>3. assoc' = Pairs(Append(ks, k), Append(vs, v))
    BY <1>0, <2>1, <2>2, AssocNext
  <2>4. assoc' = Append(assoc, [key |-> k, val |-> v])
    BY <1>1, <1>2, <2>3, PairsMore
  <2>5. ~Ordered!Has(k)
    BY <1>5, <2>1
  <2>6. Ordered!ASet(k, v)
    BY <2>1, <2>4, <2>5 DEF Ordered!ASet
  <2> QED
    BY <2>6 DEF Ordered!ANext
<1>14. CASE UNCHANGED mapVars
  <2>1. tab' = tab /\ res' = res
    BY <1>14 DEF mapVars
  <2>2. assoc' = assoc
    BY <2>1, AssocStays
  <2> QED
    BY <2>1, <2>2 DEF Ordered!avars
<1> QED
  BY <1>6, <1>7, <1>8, <1>9, <1>10, <1>11, <1>12, <1>13, <1>14 DEF MapNext

\* The map implements the ordered map: what a program is told depends on the
\* order in which it added and deleted keys, and on nothing in the table.
THEOREM MapAnswers == MapSpec => AnswersRight
<1> QED
  BY MapInvInit, MapInvNext, OrderedInit, OrderedNext, PTL DEF MapSpec, AnswersRight, Ordered!ASpec

-----------------------------------------------------------------------------
(* The cache of imports *)

\* What the map finds for k, or None
Finds(t, k, r) ==
  \/ \E m \in 1 .. t.pop : KeysOf(t)[m] = k /\ r = ValsOf(t)[m]
  \/ (\A m \in 1 .. t.pop : KeysOf(t)[m] # k) /\ r = None

LEMMA FindsOnly ==
  ASSUME NEW t, Sound(t), ValidHash, NEW k \in Keys, NEW r
  PROVE  Finds(t, k, r) <=> Lookup(t, k, None) = r
<1>1. /\ \A m \in 1 .. t.pop : KeysOf(t)[m] = k => Lookup(t, k, None) = ValsOf(t)[m]
      /\ (\A m \in 1 .. t.pop : KeysOf(t)[m] # k) => Lookup(t, k, None) = None
  BY Finding
<1> QED
  BY <1>1 DEF Finds

LEMMA CacheReplaces ==
  ASSUME NEW t, Sound(t), ValidHash, NEW k \in Keys, Matches(t, k) # {}, NEW v \in Vals
  PROVE  /\ Sound(Replace(t, k, v)) /\ Lookup(Replace(t, k, v), k, None) = v
         /\ \A q \in Keys \ {k} : Lookup(Replace(t, k, v), q, None) = Lookup(t, q, None)
<1> DEFINE u == Replace(t, k, v)
           ks == KeysOf(t)
           vs == ValsOf(t)
<1>1. Sound(u) /\ \E m \in 1 .. t.pop : ks[m] = k /\ KeysOf(u) = ks /\ ValsOf(u) = [vs EXCEPT ![m] = v]
  BY SetsOld
<1>2. PICK m \in 1 .. t.pop : ks[m] = k /\ KeysOf(u) = ks /\ ValsOf(u) = [vs EXCEPT ![m] = v]
  BY <1>1
<1>3. t.pop \in Nat /\ DOMAIN ks = 1 .. t.pop /\ vs \in Seq(Vals) /\ Len(vs) = t.pop
  BY Contents
<1> HIDE DEF u
<1>4. u.pop = t.pop
  BY <1>1, <1>2, <1>3, Contents
<1> HIDE DEF ks, vs
<1>5. ValsOf(u)[m] = v /\ \A j \in 1 .. t.pop : j # m => ValsOf(u)[j] = vs[j]
  BY <1>2, <1>3
<1>6. Finds(u, k, v)
  BY <1>2, <1>4, <1>5 DEF Finds
<1>7. ASSUME NEW q \in Keys \ {k} PROVE Lookup(u, q, None) = Lookup(t, q, None)
  <2>1. Finds(t, q, Lookup(t, q, None))
    BY FindsOnly
  <2>2. \A j \in 1 .. t.pop : ks[j] = q => ValsOf(u)[j] = vs[j]
    BY <1>2, <1>5
  <2>3. Finds(u, q, Lookup(t, q, None))
    BY <1>2, <1>4, <2>1, <2>2 DEF Finds, ks, vs
  <2> QED
    BY <1>1, <2>3, FindsOnly DEF u
<1> QED
  BY <1>1, <1>6, <1>7, FindsOnly DEF u

LEMMA CacheAdds ==
  ASSUME NEW t, Sound(t), ValidHash, NEW k \in Keys, Matches(t, k) = {}, Len(t.keys) < MaxList,
         Enter(t, k).t.level # 0, NEW v \in Vals
  PROVE  /\ Sound(Added(t, k, v)) /\ Lookup(Added(t, k, v), k, None) = v
         /\ \A q \in Keys \ {k} : Lookup(Added(t, k, v), q, None) = Lookup(t, q, None)
<1> DEFINE u == Added(t, k, v)
           ks == KeysOf(t)
           vs == ValsOf(t)
           n == t.pop
<1>1. Sound(u) /\ KeysOf(u) = Append(ks, k) /\ ValsOf(u) = Append(vs, v)
  BY SetsNew
<1>2. n \in Nat /\ Len(ks) = n /\ Len(vs) = n /\ ks \in Seq(Keys) /\ vs \in Seq(Vals)
  BY Contents
<1> HIDE DEF u
<1>3. u.pop = Len(KeysOf(u))
  BY <1>1, Contents
<1> HIDE DEF ks, vs, n
<1>4. u.pop = n + 1
  BY <1>1, <1>2, <1>3
<1>5. /\ KeysOf(u)[n + 1] = k /\ ValsOf(u)[n + 1] = v
      /\ \A j \in 1 .. n : KeysOf(u)[j] = ks[j] /\ ValsOf(u)[j] = vs[j]
  BY <1>1, <1>2
<1>6. /\ n + 1 \in 1 .. u.pop /\ \A j \in 1 .. n : j \in 1 .. u.pop
      /\ \A j \in 1 .. u.pop : j \in 1 .. n \/ j = n + 1
  BY <1>2, <1>4
<1>7. Finds(u, k, v)
  BY <1>5, <1>6 DEF Finds
<1>8. ASSUME NEW q \in Keys \ {k} PROVE Lookup(u, q, None) = Lookup(t, q, None)
  <2>1. Finds(t, q, Lookup(t, q, None))
    BY FindsOnly
  <2>2. ASSUME NEW m \in 1 .. n, ks[m] = q, Lookup(t, q, None) = vs[m] PROVE Finds(u, q, Lookup(t, q, None))
    BY <2>2, <1>5, <1>6 DEF Finds
  <2>3. ASSUME \A m \in 1 .. n : ks[m] # q, Lookup(t, q, None) = None PROVE Finds(u, q, Lookup(t, q, None))
    <3>1. \A m \in 1 .. u.pop : KeysOf(u)[m] # q
      BY <2>3, <1>5, <1>6
    <3> QED
      BY <2>3, <3>1 DEF Finds
  <2>4. Finds(u, q, Lookup(t, q, None))
    BY <2>1, <2>2, <2>3 DEF Finds, ks, vs, n
  <2> QED
    BY <1>1, <2>4, FindsOnly DEF u
<1> QED
  BY <1>1, <1>7, <1>8, FindsOnly DEF u

LEMMA CacheDeletes ==
  ASSUME NEW t, Sound(t), ValidHash, NEW k \in Keys, Matches(t, k) # {}
  PROVE  /\ Sound(Delete(t, k)) /\ Lookup(Delete(t, k), k, None) = None
         /\ \A q \in Keys \ {k} : Lookup(Delete(t, k), q, None) = Lookup(t, q, None)
<1> DEFINE u == Delete(t, k)
           ks == KeysOf(t)
           vs == ValsOf(t)
           n == t.pop
<1>1. Sound(u) /\ \E m \in 1 .. n : ks[m] = k /\ KeysOf(u) = RemoveAt(ks, m) /\ ValsOf(u) = RemoveAt(vs, m)
  BY Deletes
<1>2. PICK m \in 1 .. n : ks[m] = k /\ KeysOf(u) = RemoveAt(ks, m) /\ ValsOf(u) = RemoveAt(vs, m)
  BY <1>1
<1>3. /\ n \in Nat /\ Len(ks) = n /\ Len(vs) = n /\ ks \in Seq(Keys) /\ vs \in Seq(Vals)
      /\ \A i, j \in 1 .. n : ks[i] = ks[j] => i = j
  BY Contents
<1> HIDE DEF u
<1>4. u.pop = Len(KeysOf(u))
  BY <1>1, Contents
<1> HIDE DEF ks, vs, n
<1>5. m \in 1 .. Len(ks) /\ m \in 1 .. Len(vs)
  BY <1>2, <1>3
<1>6. Len(RemoveAt(ks, m)) = n - 1 /\ \A j \in 1 .. n - 1 : RemoveAt(ks, m)[j] = IF j < m THEN ks[j] ELSE ks[j + 1]
  BY <1>3, <1>5, Removal
<1>7. \A j \in 1 .. n - 1 : RemoveAt(vs, m)[j] = IF j < m THEN vs[j] ELSE vs[j + 1]
  BY <1>3, <1>5, Removal, ZenonT(40)
<1>8. \A j \in 1 .. u.pop : \E i \in 1 .. n \ {m} : KeysOf(u)[j] = ks[i] /\ ValsOf(u)[j] = vs[i]
  <2> TAKE j \in 1 .. u.pop
  <2>1. j \in 1 .. n - 1 /\ j \in 1 .. n /\ j + 1 \in 1 .. n
    BY <1>2, <1>3, <1>4, <1>6
  <2>2. CASE j < m
    <3>1. j \in 1 .. n \ {m} /\ KeysOf(u)[j] = ks[j] /\ ValsOf(u)[j] = vs[j]
      BY <2>1, <2>2, <1>2, <1>5, <1>6, <1>7
    <3> QED
      BY <3>1
  <2>3. CASE ~(j < m)
    <3>1. j + 1 \in 1 .. n \ {m} /\ KeysOf(u)[j] = ks[j + 1] /\ ValsOf(u)[j] = vs[j + 1]
      BY <2>1, <2>3, <1>2, <1>5, <1>6, <1>7
    <3> QED
      BY <3>1
  <2> QED
    BY <2>2, <2>3
<1>9. \A i \in 1 .. n \ {m} : \E j \in 1 .. u.pop : KeysOf(u)[j] = ks[i] /\ ValsOf(u)[j] = vs[i]
  <2> TAKE i \in 1 .. n \ {m}
  <2>1. CASE i < m
    <3>1. i \in 1 .. n - 1 /\ i \in 1 .. u.pop
      BY <2>1, <1>2, <1>3, <1>4, <1>5, <1>6
    <3> QED
      BY <2>1, <3>1, <1>2, <1>6, <1>7
  <2>2. CASE ~(i < m)
    <3>1. i - 1 \in 1 .. n - 1 /\ i - 1 \in 1 .. u.pop /\ ~(i - 1 < m) /\ (i - 1) + 1 = i
      BY <2>2, <1>2, <1>3, <1>4, <1>5, <1>6
    <3>2. KeysOf(u)[i - 1] = ks[i] /\ ValsOf(u)[i - 1] = vs[i]
      BY <3>1, <1>2, <1>6, <1>7
    <3> QED
      BY <3>1, <3>2
  <2> QED
    BY <2>1, <2>2
<1>10. \A i \in 1 .. n \ {m} : ks[i] # k
  BY <1>2, <1>3
<1>11. Finds(u, k, None)
  BY <1>8, <1>10 DEF Finds
<1>12. ASSUME NEW q \in Keys \ {k} PROVE Lookup(u, q, None) = Lookup(t, q, None)
  <2>1. Finds(t, q, Lookup(t, q, None))
    BY FindsOnly
  <2>2. ASSUME NEW i \in 1 .. n, ks[i] = q, Lookup(t, q, None) = vs[i] PROVE Finds(u, q, Lookup(t, q, None))
    <3>1. i \in 1 .. n \ {m}
      BY <2>2, <1>2
    <3>2. PICK j \in 1 .. u.pop : KeysOf(u)[j] = ks[i] /\ ValsOf(u)[j] = vs[i]
      BY <3>1, <1>9
    <3> QED
      BY <2>2, <3>2 DEF Finds
  <2>3. ASSUME \A i \in 1 .. n : ks[i] # q, Lookup(t, q, None) = None PROVE Finds(u, q, Lookup(t, q, None))
    <3>1. \A j \in 1 .. u.pop : KeysOf(u)[j] # q
      BY <2>3, <1>8
    <3> QED
      BY <2>3, <3>1 DEF Finds
  <2>4. Finds(u, q, Lookup(t, q, None))
    BY <2>1, <2>2, <2>3 DEF Finds, ks, vs, n
  <2> QED
    BY <1>1, <2>4, FindsOnly DEF u
<1> QED
  BY <1>1, <1>11, <1>12, FindsOnly DEF u

\* Put, where a new key is given a table
LEMMA Putting ==
  ASSUME NEW t, Sound(t), ValidHash, NEW k \in Keys, NEW v \in Vals,
         Matches(t, k) = {} => Len(t.keys) < MaxList /\ Put(t, k, v).level # 0
  PROVE  /\ Sound(Put(t, k, v)) /\ Lookup(Put(t, k, v), k, None) = v
         /\ \A q \in Keys \ {k} : Lookup(Put(t, k, v), q, None) = Lookup(t, q, None)
<1>1. CASE Matches(t, k) # {}
  <2>1. Put(t, k, v) = Replace(t, k, v)
    BY <1>1 DEF Put
  <2> QED
    BY <1>1, <2>1, CacheReplaces
<1>2. CASE Matches(t, k) = {}
  <2>1. Put(t, k, v) = Added(t, k, v)
    BY <1>2 DEF Put, Added
  <2>2. Added(t, k, v).level = Enter(t, k).t.level
    BY DEF Added, Enter
  <2> QED
    BY <1>2, <2>1, <2>2, CacheAdds
<1> QED
  BY <1>1, <1>2

\* The imports of p that keep their result
RunningIn(s, p) == {n \in DOMAIN s : s[n].kept /\ s[n].path = p}
Import == [path : Paths, kept : BOOLEAN]

LEMMA RunningOnes ==
  ASSUME NEW s \in Seq(Import), NEW p
  PROVE  IsFiniteSet(RunningIn(s, p)) /\ Cardinality(RunningIn(s, p)) \in Nat
<1>1. Len(s) \in Nat /\ RunningIn(s, p) \subseteq 1 .. Len(s)
  BY DEF RunningIn
<1>2. IsFiniteSet(1 .. Len(s))
  BY <1>1, FS_Interval
<1> QED
  BY <1>1, <1>2, FS_Subset, FS_CardinalityType

LEMMA Pushed ==
  ASSUME NEW s \in Seq(Import), NEW e \in Import, NEW p
  PROVE  Cardinality(RunningIn(Append(s, e), p)) =
           Cardinality(RunningIn(s, p)) + (IF e.kept /\ e.path = p THEN 1 ELSE 0)
<1> DEFINE n == Len(s) + 1
<1>1. /\ Len(s) \in Nat /\ DOMAIN s = 1 .. Len(s) /\ DOMAIN Append(s, e) = 1 .. n
      /\ Append(s, e)[n] = e /\ \A j \in 1 .. Len(s) : Append(s, e)[j] = s[j]
  OBVIOUS
<1>2. \A j \in 1 .. n : j \in 1 .. Len(s) \/ j = n
  BY <1>1
<1>3. n \in 1 .. n /\ n \notin 1 .. Len(s) /\ \A j \in 1 .. Len(s) : j \in 1 .. n
  BY <1>1
<1>4. IsFiniteSet(RunningIn(s, p)) /\ Cardinality(RunningIn(s, p)) \in Nat
  BY RunningOnes
<1> HIDE DEF n
<1>5. CASE e.kept /\ e.path = p
  <2>1. RunningIn(Append(s, e), p) = RunningIn(s, p) \cup {n}
    BY <1>1, <1>2, <1>3, <1>5 DEF RunningIn
  <2>2. n \notin RunningIn(s, p)
    BY <1>1, <1>3 DEF RunningIn
  <2>3. Cardinality(RunningIn(s, p) \cup {n}) = Cardinality(RunningIn(s, p)) + 1
    BY <1>4, <2>2, FS_AddElement
  <2> QED
    BY <1>5, <2>1, <2>3
<1>6. CASE ~(e.kept /\ e.path = p)
  <2>1. RunningIn(Append(s, e), p) = RunningIn(s, p)
    BY <1>1, <1>2, <1>3, <1>6 DEF RunningIn
  <2> QED
    BY <1>4, <1>6, <2>1
<1> QED
  BY <1>5, <1>6

LEMMA Popped ==
  ASSUME NEW s \in Seq(Import), s # <<>>
  PROVE  /\ Front(s) \in Seq(Import) /\ Last(s) \in Import
         /\ \A p : Cardinality(RunningIn(s, p)) =
                     Cardinality(RunningIn(Front(s), p)) + (IF Last(s).kept /\ Last(s).path = p THEN 1 ELSE 0)
<1>1. Front(s) \in Seq(Import) /\ Last(s) \in Import /\ s = Append(Front(s), Last(s))
  BY DEF Front, Last
<1>2. ASSUME NEW p
      PROVE  Cardinality(RunningIn(Append(Front(s), Last(s)), p)) =
               Cardinality(RunningIn(Front(s), p)) + (IF Last(s).kept /\ Last(s).path = p THEN 1 ELSE 0)
  BY <1>1, Pushed
<1> QED
  BY <1>1, <1>2

ImportInv ==
  /\ ValidHash /\ hash \in HashFunctions /\ Sound(cache)
  /\ importing \in Seq(Import) /\ MarksRight

\* The cache after a step, where hashes stay what they are
LEMMA CacheNext ==
  ASSUME ValidHash, hash' = hash, NEW u, cache' = u, Sound(u)
  PROVE  /\ ValidHash' /\ Sound(cache)'
         /\ \A p : Cached(p)' = Lookup(u, p, None)
<1>1. LiveIn(cache)' = LiveIn(u) /\ HashesOf(cache.keys)' = HashesOf(u.keys)
  BY DEF LiveIn, HashesOf
<1>2. Listed(u) /\ Tabled(u) /\ u = Record(u.level, u.a, u.pop, u.keys, u.vals)
  BY DEF Sound
<1>3. Listed(cache)'
  BY <1>1, <1>2 DEF Listed
<1>4. Tabled(cache)'
  BY <1>1, <1>2 DEF Tabled
<1>5. \A p : Matches(cache, p)' = Matches(u, p)
  BY DEF Matches, Start, Stop
<1>6. \A p : Cached(p)' = Lookup(u, p, None)
  BY <1>5 DEF Cached, Lookup
<1> QED
  BY <1>2, <1>3, <1>4, <1>6 DEF Sound, ValidHash

LEMMA Marks ==
  MarksRight <=> \A p \in Paths : Cardinality(RunningIn(importing, p)) = IF Cached(p) = Running THEN 1 ELSE 0
  BY DEF MarksRight, RunningIn

LEMMA MarkKinds == None # Running /\ None \notin Results /\ Running \notin Results /\ Results \subseteq Vals /\ Running \in Vals
  BY NoneAssumption, PathsAssumption DEF Results

LEMMA EmptyCache ==
  ASSUME ValidHash, hash' = hash, cache' = NewMap, importing' = <<>>
  PROVE  ValidHash' /\ Sound(cache)' /\ MarksRight'
<1>1. Sound(NewMap) /\ NewMap.pop = 0
  BY NewMaps
<1>2. ValidHash' /\ Sound(cache)' /\ \A p : Cached(p)' = Lookup(NewMap, p, None)
  BY <1>1, CacheNext
<1>3. ASSUME NEW p \in Paths PROVE Cardinality(RunningIn(importing, p))' = 0 /\ Cached(p)' # Running
  <2>1. \A m \in 1 .. NewMap.pop : KeysOf(NewMap)[m] # p
    BY <1>1
  <2>2. Finds(NewMap, p, None)
    BY <2>1 DEF Finds
  <2>3. Lookup(NewMap, p, None) = None
    BY <1>1, <2>2, PathsAssumption, FindsOnly
  <2>4. RunningIn(importing, p)' = {}
    BY DEF RunningIn
  <2>5. Cardinality({}) = 0
    BY FS_EmptySet
  <2> QED
    BY <1>2, <2>3, <2>4, <2>5, MarkKinds
<1> QED
  BY <1>2, <1>3 DEF MarksRight, RunningIn

LEMMA ImportInvInit == ImportInit => ImportInv
<1> SUFFICES ASSUME ImportInit PROVE ImportInv
  OBVIOUS
<1>1. hash \in HashFunctions /\ cache = NewMap /\ importing = <<>>
  BY DEF ImportInit
<1>2. ValidHash
  BY <1>1, HashAssumption DEF ValidHash, Hash
<1>3. Sound(cache) /\ NewMap.pop = 0
  BY <1>1, <1>2, NewMaps
<1>4. ASSUME NEW p \in Paths PROVE Cardinality(RunningIn(importing, p)) = 0 /\ Cached(p) # Running
  <2>1. \A m \in 1 .. NewMap.pop : KeysOf(NewMap)[m] # p
    BY <1>3
  <2>2. Finds(cache, p, None)
    BY <1>1, <2>1 DEF Finds
  <2>3. Lookup(cache, p, None) = None
    BY <1>2, <1>3, <2>2, PathsAssumption, FindsOnly
  <2>4. RunningIn(importing, p) = {}
    BY <1>1 DEF RunningIn
  <2>5. Cardinality({}) = 0
    BY FS_EmptySet
  <2> QED
    BY <2>3, <2>4, <2>5, MarkKinds DEF Cached
<1> QED
  BY <1>1, <1>2, <1>3, <1>4, Marks DEF ImportInv

LEMMA ImportInvNext == ImportInv /\ [ImportNext]_importVars => ImportInv'
<1> SUFFICES ASSUME ImportInv, [ImportNext]_importVars PROVE ImportInv'
  OBVIOUS
<1>1. /\ ValidHash /\ hash \in HashFunctions /\ Sound(cache) /\ importing \in Seq(Import)
      /\ \A p \in Paths : Cardinality(RunningIn(importing, p)) = IF Cached(p) = Running THEN 1 ELSE 0
  BY Marks DEF ImportInv
<1>2. ASSUME hash' = hash, cache' = cache, importing' = importing PROVE ImportInv'
  <2>1. ValidHash' /\ Sound(cache)' /\ \A p : Cached(p)' = Lookup(cache, p, None)
    BY <1>1, <1>2, CacheNext
  <2>2. MarksRight'
    BY <1>1, <1>2, <2>1 DEF MarksRight, RunningIn, Cached
  <2> QED
    BY <1>1, <1>2, <2>1, <2>2 DEF ImportInv
<1>3. ASSUME NEW p \in Paths, ImportStarts(p) PROVE ImportInv'
  <2> DEFINE u == Put(cache, p, Running)
             e == [path |-> p, kept |-> TRUE]
  <2>1. /\ Cached(p) = None /\ Len(cache.keys) < MaxList /\ u.level # 0
        /\ cache' = u /\ importing' = Append(importing, e) /\ hash' = hash
    BY <1>3 DEF ImportStarts
  <2>2. Sound(u) /\ Lookup(u, p, None) = Running /\ \A q \in Keys \ {p} : Lookup(u, q, None) = Cached(q)
    BY <1>1, <2>1, PathsAssumption, Putting DEF Cached
  <2>3. e \in Import /\ e.kept /\ e.path = p
    BY DEF Import
  <2> HIDE DEF u, e
  <2>4. ValidHash' /\ Sound(cache)' /\ \A q : Cached(q)' = Lookup(u, q, None)
    BY <1>1, <2>1, <2>2, CacheNext
  <2>5. ASSUME NEW q \in Paths
        PROVE  Cardinality(RunningIn(Append(importing, e), q)) = IF Lookup(u, q, None) = Running THEN 1 ELSE 0
    <3>1. Cardinality(RunningIn(Append(importing, e), q)) =
            Cardinality(RunningIn(importing, q)) + (IF e.kept /\ e.path = q THEN 1 ELSE 0)
      BY <1>1, <2>3, Pushed
    <3>2. CASE q = p
      <4>1. Cardinality(RunningIn(importing, q)) = 0
        BY <1>1, <2>1, <3>2, MarkKinds
      <4> QED
        BY <2>2, <2>3, <3>1, <3>2, <4>1
    <3>3. CASE q # p
      <4>1. Lookup(u, q, None) = Cached(q)
        BY <2>2, <3>3, PathsAssumption
      <4>2. Cardinality(RunningIn(importing, q)) = IF Cached(q) = Running THEN 1 ELSE 0
        BY <1>1
      <4> QED
        BY <2>3, <3>1, <3>3, <4>1, <4>2
    <3> QED
      BY <3>2, <3>3
  <2>6. MarksRight'
    BY <2>1, <2>4, <2>5 DEF MarksRight, RunningIn
  <2>7. Append(importing, e) \in Seq(Import)
    BY <1>1, <2>3
  <2> QED
    BY <1>1, <2>1, <2>4, <2>6, <2>7 DEF ImportInv
<1>4. ASSUME NEW p \in Paths, ImportCyclic(p) PROVE ImportInv'
  BY <1>2, <1>4 DEF ImportCyclic
<1>5. ASSUME NEW p \in Paths, ImportWithArgs(p) PROVE ImportInv'
  <2> DEFINE e == [path |-> p, kept |-> FALSE]
  <2>1. hash' = hash /\ cache' = cache /\ importing' = Append(importing, e)
    BY <1>5 DEF ImportWithArgs
  <2>2. e \in Import /\ e.kept = FALSE
    BY DEF Import
  <2> HIDE DEF e
  <2>3. ValidHash' /\ Sound(cache)' /\ \A q : Cached(q)' = Lookup(cache, q, None)
    BY <1>1, <2>1, CacheNext
  <2>4. ASSUME NEW q \in Paths PROVE Cardinality(RunningIn(Append(importing, e), q)) = IF Cached(q) = Running THEN 1 ELSE 0
    <3>1. Cardinality(RunningIn(Append(importing, e), q)) =
            Cardinality(RunningIn(importing, q)) + (IF e.kept /\ e.path = q THEN 1 ELSE 0)
      BY <1>1, <2>2, Pushed
    <3>2. Cardinality(RunningIn(importing, q)) = IF Cached(q) = Running THEN 1 ELSE 0
      BY <1>1
    <3> QED
      BY <2>2, <3>1, <3>2
  <2>5. MarksRight'
    BY <2>1, <2>3, <2>4 DEF MarksRight, RunningIn, Cached
  <2>6. Append(importing, e) \in Seq(Import)
    BY <1>1, <2>2
  <2> QED
    BY <1>1, <2>1, <2>3, <2>5, <2>6 DEF ImportInv
\* An import ends, and its mark with it: u is the cache then
<1>6. ASSUME importing # <<>>, NEW u, cache' = u, importing' = Front(importing), hash' = hash,
             IF Last(importing).kept
             THEN /\ Sound(u) /\ Lookup(u, Last(importing).path, None) # Running
                  /\ \A q \in Keys \ {Last(importing).path} : Lookup(u, q, None) = Cached(q)
             ELSE u = cache
      PROVE  ImportInv'
  <2> DEFINE e == Last(importing)
             s == Front(importing)
  <2>1. /\ s \in Seq(Import) /\ e \in Import
        /\ \A q : Cardinality(RunningIn(importing, q)) =
                    Cardinality(RunningIn(s, q)) + (IF e.kept /\ e.path = q THEN 1 ELSE 0)
    BY <1>1, <1>6, Popped
  <2>2. Sound(u)
    BY <1>1, <1>6
  <2>3. ValidHash' /\ Sound(cache)' /\ \A q : Cached(q)' = Lookup(u, q, None)
    BY <1>1, <1>6, <2>2, CacheNext
  <2>4. /\ e.kept => Lookup(u, e.path, None) # Running /\ \A q \in Keys \ {e.path} : Lookup(u, q, None) = Cached(q)
        /\ ~e.kept => u = cache
    BY <1>6
  <2> HIDE DEF e, s
  <2>5. ASSUME NEW q \in Paths
        PROVE  Cardinality(RunningIn(s, q)) = IF Lookup(u, q, None) = Running THEN 1 ELSE 0
    <3>1. /\ Cardinality(RunningIn(importing, q)) = Cardinality(RunningIn(s, q)) + (IF e.kept /\ e.path = q THEN 1 ELSE 0)
          /\ Cardinality(RunningIn(importing, q)) = IF Cached(q) = Running THEN 1 ELSE 0
          /\ Cardinality(RunningIn(s, q)) \in Nat
      BY <1>1, <2>1, RunningOnes
    <3>2. CASE e.kept /\ e.path = q
      <4>1. Cardinality(RunningIn(s, q)) = 0
        BY <3>1, <3>2
      <4> QED
        BY <2>4, <3>2, <4>1
    <3>3. CASE ~(e.kept /\ e.path = q)
      <4>1. Lookup(u, q, None) = Cached(q)
        BY <2>4, <3>3, PathsAssumption DEF Cached
      <4> QED
        BY <3>1, <3>3, <4>1
    <3> QED
      BY <3>2, <3>3
  <2>6. MarksRight'
    BY <1>6, <2>3, <2>5 DEF MarksRight, RunningIn, s
  <2> QED
    BY <1>1, <1>6, <2>1, <2>3, <2>6 DEF ImportInv, s
\* The innermost import has its mark.
<1>7. ASSUME importing # <<>>, Last(importing).kept
      PROVE  Last(importing).path \in Keys /\ Matches(cache, Last(importing).path) # {}
  <2> DEFINE e == Last(importing)
             s == Front(importing)
  <2>1. /\ s \in Seq(Import) /\ e \in Import /\ e.kept
        /\ \A q : Cardinality(RunningIn(importing, q)) =
                    Cardinality(RunningIn(s, q)) + (IF e.kept /\ e.path = q THEN 1 ELSE 0)
    BY <1>1, <1>7, Popped
  <2> HIDE DEF e, s
  <2>2. e.path \in Paths
    BY <2>1 DEF Import
  <2>3. Cardinality(RunningIn(s, e.path)) \in Nat
    BY <2>1, RunningOnes
  <2>4. Cardinality(RunningIn(importing, e.path)) = Cardinality(RunningIn(s, e.path)) + 1
    BY <2>1
  <2>5. Cached(e.path) = Running
    BY <1>1, <2>2, <2>3, <2>4
  <2>6. Matches(cache, e.path) # {}
    BY <2>5, MarkKinds DEF Cached, Lookup
  <2> QED
    BY <2>2, <2>6, PathsAssumption DEF e
<1>8. ASSUME NEW r \in Results, ImportEnds(r) PROVE ImportInv'
  <2> DEFINE u == IF Last(importing).kept THEN Put(cache, Last(importing).path, r) ELSE cache
  <2>1. importing # <<>> /\ cache' = u /\ importing' = Front(importing) /\ hash' = hash
    BY <1>8 DEF ImportEnds
  <2>2. ASSUME Last(importing).kept
        PROVE  /\ Sound(u) /\ Lookup(u, Last(importing).path, None) # Running
               /\ \A q \in Keys \ {Last(importing).path} : Lookup(u, q, None) = Cached(q)
    <3> DEFINE p == Last(importing).path
    <3>1. u = Put(cache, p, r) /\ p \in Keys /\ Matches(cache, p) # {} /\ r \in Vals /\ r # Running
      BY <1>7, <2>1, <2>2, MarkKinds
    <3> HIDE DEF u, p
    <3>2. Sound(u) /\ Lookup(u, p, None) = r /\ \A q \in Keys \ {p} : Lookup(u, q, None) = Lookup(cache, q, None)
      BY <1>1, <3>1, Putting
    <3> QED
      BY <3>1, <3>2 DEF p, Cached
  <2>3. ~Last(importing).kept => u = cache
    OBVIOUS
  <2> HIDE DEF u
  <2> QED
    BY <1>6, <2>1, <2>2, <2>3
<1>9. CASE ImportFails
  <2> DEFINE u == IF Last(importing).kept THEN Delete(cache, Last(importing).path) ELSE cache
  <2>1. importing # <<>> /\ cache' = u /\ importing' = Front(importing) /\ hash' = hash
    BY <1>9 DEF ImportFails
  <2>2. ASSUME Last(importing).kept
        PROVE  /\ Sound(u) /\ Lookup(u, Last(importing).path, None) # Running
               /\ \A q \in Keys \ {Last(importing).path} : Lookup(u, q, None) = Cached(q)
    <3> DEFINE p == Last(importing).path
    <3>1. u = Delete(cache, p) /\ p \in Keys /\ Matches(cache, p) # {}
      BY <1>7, <2>1, <2>2
    <3> HIDE DEF u, p
    <3>2. Sound(u) /\ Lookup(u, p, None) = None /\ \A q \in Keys \ {p} : Lookup(u, q, None) = Lookup(cache, q, None)
      BY <1>1, <3>1, CacheDeletes
    <3> QED
      BY <3>1, <3>2, MarkKinds DEF p, Cached
  <2>3. ~Last(importing).kept => u = cache
    OBVIOUS
  <2> HIDE DEF u
  <2> QED
    BY <1>6, <2>1, <2>2, <2>3
<1>10. CASE FileThrows \/ Caught
  <2>1. hash' = hash /\ cache' = cache /\ importing' = importing
    BY <1>10 DEF FileThrows, Caught
  <2> QED
    BY <1>2, <2>1
<1>11. CASE ClearImportCache
  <2>1. hash' = hash /\ cache' = NewMap /\ importing' = <<>>
    BY <1>11 DEF ClearImportCache
  <2> QED
    BY <1>1, <2>1, EmptyCache DEF ImportInv
<1>12. CASE UNCHANGED importVars
  BY <1>2, <1>12 DEF importVars
<1> QED
  BY <1>3, <1>4, <1>5, <1>8, <1>9, <1>10, <1>11, <1>12 DEF ImportNext

\* A file is marked as running in the cache exactly while one import of it
\* runs, however errors are thrown and caught and files import each other.
THEOREM ImportsRight == ImportSpec => []MarksRight
<1>1. ImportInv => MarksRight
  BY DEF ImportInv
<1> QED
  BY <1>1, ImportInvInit, ImportInvNext, PTL DEF ImportSpec
=============================================================================
