--------------------------- MODULE BuddyHeapProofs ---------------------------
(***************************************************************************)
(* Proofs about what Buddy's heap accounts for: every empty block is listed *)
(* or about to be met by the merge, the merge joins all it can, and the     *)
(* counters are exact.  From it follows that Buddy implements Heap.         *)
(***************************************************************************)
EXTENDS BuddyProofs, FiniteSetTheorems

-----------------------------------------------------------------------------
(* Lengths divisible by the size of a block *)

\* What 2m divides, m divides.
LEMMA HalfDivides ==
  ASSUME NEW n \in Nat, NEW m \in Nat, m > 0, n % (2 * m) = 0
  PROVE  n % m = 0
<1>1. PICK q \in Int : n = (2 * m) * q
  OBVIOUS
<1>2. n = m * (2 * q)
  BY <1>1
<1> QED
  BY <1>2


\* Taking the lowest set bit off a length leaves the next power of two a divisor.
LEMMA HalfLeaves ==
  ASSUME NEW n \in Nat, NEW s \in Nat, s > 0, s =< n, n % (2 * s) = s
  PROVE  (n - s) % (2 * s) = 0
<1>1. PICK q \in Int : n = (2 * s) * q + s
  OBVIOUS
<1>2. PICK d \in Nat, m \in Nat : d = n - s /\ m = 2 * s
  OBVIOUS
<1>3. d = m * q /\ m > 0
  BY <1>1, <1>2
<1>4. d % m = 0
  BY ONLY <1>3, d \in Nat, m \in Nat, q \in Int
<1> QED
  BY <1>2, <1>4

\* What twice a block's size divides, twice a smaller block's size divides.
LEMMA SmallerDivides ==
  ASSUME NEW n \in Nat, NEW b \in Buckets, NEW k \in Buckets, k =< b,
         n % (2 * Size[b]) = 0
  PROVE  n % (2 * Size[k]) = 0
<1> DEFINE N == {d \in 0 .. b - k : n % (2 * Size[b - d]) # 0}
<1>0. b \in Nat /\ k \in Nat /\ 0 .. b \subseteq Buckets
  BY BucketAssumption DEF Buckets
<1>s. SUFFICES ASSUME n % (2 * Size[k]) # 0 PROVE FALSE
  OBVIOUS
<1>1. N # {}
  <2>1. b - k \in 0 .. b - k /\ b - (b - k) = k
    BY <1>0
  <2>2. b - k \in N
    BY <1>s, <2>1
  <2> QED
    BY <2>2
<1>2. PICK d \in N : \A e \in N : d =< e
  <2>1. N \in SUBSET Nat
    BY <1>0
  <2> HIDE DEF N
  <2> QED
    BY <1>1, <2>1, LeastElement
<1>3. d \in 0 .. b - k /\ n % (2 * Size[b - d]) # 0
  OBVIOUS
<1>4. d # 0 /\ d - 1 \in 0 .. b - k /\ d - 1 \notin N
  <2>1. d # 0
    BY <1>0, <1>3
  <2>2. d - 1 \in 0 .. b - k /\ ~(d =< d - 1)
    BY <1>0, <1>3, <2>1
  <2> QED
    BY <1>2, <2>1, <2>2
<1>5. n % (2 * Size[b - (d - 1)]) = 0
  BY <1>4
<1>6. PICK c \in Buckets : c = b - d /\ c + 1 \in Buckets /\ c + 1 = b - (d - 1)
  BY <1>0, <1>3, <1>4
<1>7. Size[c + 1] = 2 * Size[c] /\ Size[c] \in Nat /\ Size[c] > 0
  BY <1>6, SizeAssumption, SizeFacts
<1>8. n % (2 * (2 * Size[c])) = 0 /\ 2 * Size[c] \in Nat /\ 2 * Size[c] > 0
  BY <1>5, <1>6, <1>7
<1>9. n % (2 * Size[c]) = 0
  BY <1>8, HalfDivides
<1> QED
  BY <1>3, <1>6, <1>9

\* The blocks carved off one run ascend, and what is left stays divisible.
LEMMA CarveLeaves ==
  ASSUME NEW n \in Nat, NEW b \in Buckets, LowestBit(b, n)
  PROVE  /\ (n - Size[b]) % (2 * Size[b]) = 0
         /\ \A k \in Buckets : n % (2 * Size[k]) = 0 => k < b
<1>1. Size[b] \in Nat /\ Size[b] > 0 /\ Size[b] =< n /\ n % (2 * Size[b]) = Size[b]
  BY SizeFacts DEF LowestBit
<1>2. (n - Size[b]) % (2 * Size[b]) = 0
  <2>1. PICK s \in Nat : s = Size[b]
    BY <1>1
  <2>2. s > 0 /\ s =< n /\ n % (2 * s) = s
    BY ONLY <1>1, <2>1
  <2>3. (n - s) % (2 * s) = 0
    BY ONLY n \in Nat, s \in Nat, <2>2, HalfLeaves
  <2> QED
    BY <2>1, <2>3
<1>3. ASSUME NEW k \in Buckets, n % (2 * Size[k]) = 0, ~(k < b) PROVE FALSE
  <2>1. b =< k
    BY <1>3, BucketAssumption DEF Buckets
  <2>2. n % (2 * Size[b]) = 0
    BY <1>3, <2>1, SmallerDivides
  <2> QED
    BY <1>1, <2>2
<1> QED
  BY <1>2, <1>3

-----------------------------------------------------------------------------
(* Empty blocks and their lists, outside the merge *)

\* what is on a list; Listed(b) is On(buckets[b])
On(s) == {s[i] : i \in DOMAIN s}

\* of any heap of blocks mm of types ty: no block is dead, and every empty one
\* other than x is on the list of its bucket
AllListed(mm, ty, bs, x) ==
  \A a \in DOMAIN mm :
    a # x => /\ ty[a] # "freed"
             /\ ty[a] = "empty" => a \in On(bs[mm[a]])

\* Pushing a block puts it on the list and takes none off.
LEMMA OnPush ==
  ASSUME NEW s \in Seq(Nat), NEW a \in Nat
  PROVE  a \in On(Push(s, a)) /\ On(s) \subseteq On(Push(s, a))
<1> DEFINE t == Push(s, a)
<1>0. Len(s) \in Nat
  OBVIOUS
<1>1. /\ t \in Seq(Nat) /\ Len(t) = Len(s) + 1 /\ t[1] = a /\ Len(s) \in Nat
      /\ \A i \in 2 .. Len(s) + 1 : t[i] = s[i - 1]
  BY <1>0, PushFacts
<1> HIDE DEF t
<1>2. DOMAIN t = 1 .. Len(s) + 1 /\ DOMAIN s = 1 .. Len(s)
  BY <1>1
<1>3. a \in On(t)
  BY <1>1, <1>2 DEF On
<1>4. ASSUME NEW i \in DOMAIN s PROVE s[i] \in On(t)
  <2>1. i + 1 \in DOMAIN t /\ i + 1 \in 2 .. Len(s) + 1 /\ i + 1 - 1 = i
    BY <1>1, <1>2
  <2>2. t[i + 1] = s[i]
    BY <1>1, <2>1
  <2> QED
    BY <2>1, <2>2 DEF On
<1> QED
  BY <1>3, <1>4 DEF On, t

\* Popping takes only the first block off.
LEMMA OnTail ==
  ASSUME NEW s \in Seq(Nat), s # << >>, NEW x \in On(s), x # Head(s)
  PROVE  x \in On(Tail(s))
<1> DEFINE t == Tail(s)
<1>1. /\ t \in Seq(Nat) /\ Len(s) \in Nat /\ Len(s) > 0 /\ Head(s) = s[1]
      /\ Len(t) = Len(s) - 1
      /\ \A i \in 1 .. Len(s) - 1 : t[i] = s[i + 1]
  BY TailFacts
<1> HIDE DEF t
<1>2. DOMAIN t = 1 .. Len(s) - 1 /\ DOMAIN s = 1 .. Len(s)
  BY <1>1
<1>3. PICK i \in 1 .. Len(s) : x = s[i]
  BY <1>2 DEF On
<1>4. i # 1 /\ i - 1 \in DOMAIN t /\ t[i - 1] = s[i]
  BY <1>1, <1>2, <1>3
<1> QED
  BY <1>3, <1>4 DEF On, t

\* Outside the merge and the collection, FreeListsComplete says just that.
LEMMA CompleteServing ==
  ASSUME FreeListsComplete, pc \in {"idle", "alloc"}
  PROVE  \A x : AllListed(mmInfo, type, buckets, x)
BY DEF FreeListsComplete, AllListed, Listed, On, heads

\* mm_free puts the block it empties on its list.
LEMMA FreeLinkLists ==
  ASSUME IInv, FreeListsComplete, NEW a \in heads, FreeLink(a), pc' = pc, ~Merging
  PROVE  FreeListsComplete'
<1>1. /\ heads' = heads /\ mmInfo' = mmInfo /\ a \in Nat /\ mmInfo[a] \in Buckets
      /\ type' = [type EXCEPT ![a] = "empty"]
      /\ buckets' = [buckets EXCEPT ![mmInfo[a]] = Push(buckets[mmInfo[a]], a)]
  BY HeapFacts DEF FreeLink, heads
<1>2. buckets \in [Buckets -> Seq(Nat)] /\ type \in [heads -> Types] /\ mmInfo \in [heads -> Buckets]
  BY HeapFacts DEF TypeOK, HeapTypes
<1>3. /\ a \in On(buckets'[mmInfo[a]])
      /\ \A b \in Buckets : On(buckets[b]) \subseteq On(buckets'[b])
  <2>1. /\ a \in On(Push(buckets[mmInfo[a]], a))
        /\ On(buckets[mmInfo[a]]) \subseteq On(Push(buckets[mmInfo[a]], a))
    BY <1>1, <1>2, OnPush
  <2> QED
    BY <1>1, <1>2, <2>1
<1>4. \A x \in heads : type[x] = "freed" => pc \notin {"idle", "alloc"}
  BY DEF FreeListsComplete
<1>5. \A x \in heads : type[x] = "empty" => x \in On(buckets[mmInfo[x]])
  BY DEF FreeListsComplete, Listed, On, Merging
<1>6. ASSUME NEW x \in heads
      PROVE  /\ type'[x] = "freed" => pc \notin {"idle", "alloc"}
             /\ type'[x] = "empty" => x \in On(buckets'[mmInfo[x]])
  <2>1. CASE x = a
    BY <2>1, <1>1, <1>2, <1>3
  <2>2. CASE x # a
    <3>1. type'[x] = type[x] /\ mmInfo[x] \in Buckets
      BY <2>2, <1>1, <1>2
    <3> QED
      BY <3>1, <1>3, <1>4, <1>5
  <2> QED
    BY <2>1, <2>2
<1> QED
  BY <1>1, <1>6 DEF FreeListsComplete, Listed, On

\* The first block of a free list is empty and of the list's bucket.
LEMMA FirstListed ==
  ASSUME IInv, NEW b \in Buckets, buckets[b] # << >>
  PROVE  /\ SoundList(Tail(buckets[b]), b, mmInfo, type)
         /\ Head(buckets[b]) \in DOMAIN mmInfo /\ Head(buckets[b]) \in Nat
         /\ mmInfo[Head(buckets[b])] = b /\ type[Head(buckets[b])] = "empty"
<1>1. PICK s : s = buckets[b]
  OBVIOUS
<1>2. s # << >> /\ SoundList(s, b, mmInfo, type)
  BY <1>1, HeapFacts
<1>3. /\ SoundList(Tail(s), b, mmInfo, type)
      /\ Head(s) \in DOMAIN mmInfo /\ Head(s) \in Nat
      /\ type[Head(s)] = "empty" /\ mmInfo[Head(s)] = b
  BY <1>2, SoundPop
<1> QED
  BY <1>1, <1>3

\* allocL takes one block off its list, the one it hands out.
LEMMA AllocLLists ==
  ASSUME IInv, FreeListsComplete, AllocL
  PROVE  FreeListsComplete'
<1> DEFINE h == Head(buckets[req])
<1>0. /\ buckets \in [Buckets -> Seq(Nat)] /\ type \in [heads -> Types]
      /\ mmInfo \in [heads -> Buckets] /\ req \in Buckets
  BY HeapFacts DEF TypeOK, HeapTypes, CallTypes
<1>1. /\ heads' = heads /\ mmInfo' = mmInfo /\ pc = "alloc" /\ pc' = "idle"
      /\ buckets[req] # << >>
      /\ buckets' = [buckets EXCEPT ![req] = Tail(buckets[req])]
      /\ type' = [type EXCEPT ![h] = "used"]
  BY DEF AllocL, heads, Return, Over
<1> HIDE DEF h
<1>2. \A x \in heads : type[x] # "freed" /\ (type[x] = "empty" => x \in On(buckets[mmInfo[x]]))
  BY <1>1 DEF FreeListsComplete, Listed, On
<1>3. \A b \in Buckets : \A x \in On(buckets[b]) : x # h => x \in On(buckets'[b])
  <2>1. \A x \in On(buckets[req]) : x # h => x \in On(Tail(buckets[req]))
    BY <1>0, <1>1, OnTail DEF h
  <2> QED
    BY <1>0, <1>1, <2>1
<1>4. ASSUME NEW x \in heads
      PROVE  type'[x] # "freed" /\ (type'[x] = "empty" => x \in On(buckets'[mmInfo[x]]))
  <2>1. CASE x = h
    BY <2>1, <1>0, <1>1
  <2>2. CASE x # h
    <3>1. type'[x] = type[x] /\ mmInfo[x] \in Buckets
      BY <2>2, <1>0, <1>1
    <3> QED
      BY <2>2, <3>1, <1>2, <1>3
  <2> QED
    BY <2>1, <2>2
<1> QED
  BY <1>1, <1>4 DEF FreeListsComplete, Listed, On

\* splitTo puts every half on its list, and takes only the block it splits off.
LEMMA SplitListed ==
  ASSUME NEW c \in Nat, NEW from \in Buckets, NEW to \in Buckets, to =< from,
         NEW hs, NEW ts, NEW old,
         hs \in [DOMAIN hs -> Buckets], DOMAIN hs \subseteq Nat,
         ts \in [DOMAIN hs -> Types],
         Halves(c, from, to) \cap DOMAIN hs = {},
         old \in [Buckets -> Seq(Nat)],
         AllListed(hs, ts, old, c),
         SplitAndTake(c, from, to, old, hs, ts), pc' = "idle"
  PROVE  FreeListsComplete'
<1>1. /\ heads' = DOMAIN hs \cup Halves(c, from, to) \cup {c}
      /\ type'[c] = "used"
      /\ \A a \in DOMAIN hs : a # c => mmInfo'[a] = hs[a] /\ type'[a] = ts[a]
      /\ \A k \in to .. from - 1 : /\ c + Size[k] \in heads'
                                   /\ mmInfo'[c + Size[k]] = k
                                   /\ type'[c + Size[k]] = "empty"
  BY SplitShape
<1>2. buckets' = [k \in Buckets |-> IF k \in to .. from - 1
                                    THEN Push(old[k], c + Size[k])
                                    ELSE old[k]]
  BY DEF SplitAndTake
<1>0. \A k \in to .. from - 1 : k \in Buckets /\ c + Size[k] \in Nat
  <2>1. \A k \in to .. from - 1 : k \in Buckets
    BY BucketAssumption DEF Buckets
  <2> QED
    BY <2>1, SizeFacts
<1>3. ASSUME NEW k \in Buckets
      PROVE  /\ On(old[k]) \subseteq On(buckets'[k])
             /\ k \in to .. from - 1 => c + Size[k] \in On(buckets'[k])
  <2>1. CASE k \in to .. from - 1
    <3>1. buckets'[k] = Push(old[k], c + Size[k])
      BY <1>2, <2>1
    <3> QED
      BY <3>1, <2>1, <1>0, OnPush
  <2>2. CASE k \notin to .. from - 1
    BY <1>2, <2>2
  <2> QED
    BY <2>1, <2>2
<1>4. ASSUME NEW a \in heads'
      PROVE  type'[a] # "freed" /\ (type'[a] = "empty" => a \in On(buckets'[mmInfo'[a]]))
  <2>1. CASE a = c
    BY <2>1, <1>1
  <2>2. CASE a \in DOMAIN hs /\ a # c
    <3>1. mmInfo'[a] = hs[a] /\ type'[a] = ts[a] /\ hs[a] \in Buckets
      BY <2>2, <1>1
    <3>2. ts[a] # "freed" /\ (ts[a] = "empty" => a \in On(old[hs[a]]))
      BY <2>2 DEF AllListed
    <3> QED
      BY <3>1, <3>2, <1>3
  <2>3. CASE a \in Halves(c, from, to)
    <3>1. PICK k \in to .. from - 1 : a = c + Size[k]
      BY <2>3 DEF Halves
    <3> QED
      BY <3>1, <1>0, <1>1, <1>3
  <2> QED
    BY <1>1, <2>1, <2>2, <2>3
<1> QED
  BY <1>4 DEF FreeListsComplete, Listed, On

\* allocS, splitting a larger block
LEMMA AllocSLists ==
  ASSUME IInv, FreeListsComplete, AllocS
  PROVE  FreeListsComplete'
<1>0. /\ buckets \in [Buckets -> Seq(Nat)] /\ req \in Buckets
      /\ mmInfo \in [DOMAIN mmInfo -> Buckets] /\ DOMAIN mmInfo \subseteq Nat
      /\ type \in [DOMAIN mmInfo -> Types]
      /\ pc = "alloc" /\ pc' = "idle"
  BY HeapFacts DEF TypeOK, HeapTypes, CallTypes, heads, AllocS, Return, Over
<1>1. PICK from \in Buckets :
        /\ SplitSource(from)
        /\ SplitAndTake(Head(buckets[from]), from, req,
                        [buckets EXCEPT ![from] = Tail(buckets[from])], mmInfo, type)
  BY DEF AllocS
<1> DEFINE c == Head(buckets[from])
           old == [buckets EXCEPT ![from] = Tail(buckets[from])]
<1>2. buckets[from] # << >> /\ req =< from
  BY <1>0, <1>1, BucketAssumption DEF SplitSource, Buckets
<1>3. /\ SoundList(Tail(buckets[from]), from, mmInfo, type)
      /\ c \in DOMAIN mmInfo /\ c \in Nat /\ mmInfo[c] = from
  BY <1>2, FirstListed
<1>4. SplitAndTake(c, from, req, old, mmInfo, type)
  BY <1>1
<1>5. old \in [Buckets -> Seq(Nat)]
  BY <1>0, <1>3 DEF SoundList
<1>6. \A b \in Buckets : \A x \in On(buckets[b]) : x # c => x \in On(old[b])
  <2>1. \A x \in On(buckets[from]) : x # c => x \in On(Tail(buckets[from]))
    BY <1>0, <1>2, OnTail
  <2> QED
    BY <1>0, <2>1
<1> HIDE DEF c, old
<1>7. AllListed(mmInfo, type, old, c)
  <2>1. \A x : AllListed(mmInfo, type, buckets, x)
    BY <1>0, CompleteServing
  <2> QED
    BY <2>1, <1>0, <1>6 DEF AllListed
<1>8. Halves(c, from, req) \cap DOMAIN mmInfo = {}
  <2>1. \A a, b \in DOMAIN mmInfo : a < b => a + Size[mmInfo[a]] =< b
    BY HeapFacts DEF NoOverlap, heads, End
  <2>2. \A a \in DOMAIN mmInfo : a + Size[mmInfo[a]] \in Nat /\ Size[mmInfo[a]] > 0
    BY HeapFacts DEF heads, End
  <2>3. \A a \in DOMAIN mmInfo : \/ a = c
                                 \/ a + Size[mmInfo[a]] =< c
                                 \/ c + Size[from] =< a
    BY <1>0, <1>3, <2>1
  <2> QED
    BY <1>0, <1>2, <1>3, <1>4, <2>1, <2>3, SplitLayout
<1> QED
  BY <1>0, <1>2, <1>3, <1>4, <1>5, <1>7, <1>8, SplitListed

\* allocateMore, obtaining an arena
LEMMA MmapLists ==
  ASSUME IInv, FreeListsComplete, NEW p \in Bases, Mmap(p)
  PROVE  FreeListsComplete'
<1> DEFINE from == ArenaBucket
<1>0. /\ buckets \in [Buckets -> Seq(Nat)] /\ req \in Buckets
      /\ mmInfo \in [DOMAIN mmInfo -> Buckets] /\ DOMAIN mmInfo \subseteq Nat
      /\ type \in [DOMAIN mmInfo -> Types]
      /\ pc = "alloc" /\ pc' = "idle" /\ p \in Nat
  BY HeapFacts, HeapAssumption DEF TypeOK, HeapTypes, CallTypes, heads, Mmap, NeedMore, Return, Over
<1>1. from \in Buckets /\ req =< from /\ Size[from] \in Nat
  BY <1>0, BucketAssumption, SizeFacts DEF ArenaBucket, Buckets
<1>2. SplitAndTake(p, from, req, buckets, mmInfo, type) /\ Fresh(p, Size[from])
  BY DEF Mmap
<1> HIDE DEF from
<1>3. AllListed(mmInfo, type, buckets, p)
  BY <1>0, CompleteServing
<1>4. Halves(p, from, req) \cap DOMAIN mmInfo = {}
  <2>1. \A a, b \in DOMAIN mmInfo : a < b => a + Size[mmInfo[a]] =< b
    BY HeapFacts DEF NoOverlap, heads, End
  <2>2. ASSUME NEW a \in heads
        PROVE  a + Size[mmInfo[a]] =< p \/ p + Size[from] =< a
    <3>1. PICK i \in Arenas : al[i].p =< a /\ End(a) =< ArenaEnd(i)
      BY HeapFacts DEF BlocksInArenas
    <3>2. p + Size[from] < al[i].p \/ ArenaEnd(i) < p
      BY <1>2, <3>1 DEF Fresh, Arenas
    <3>3. /\ al[i].p \in Nat /\ ArenaEnd(i) \in Nat /\ a \in Nat /\ End(a) \in Nat
          /\ End(a) = a + Size[mmInfo[a]]
      BY <3>1, HeapFacts
    <3> QED
      BY <1>0, <1>1, <3>1, <3>2, <3>3
  <2>3. \A a \in DOMAIN mmInfo : \/ a = p
                                 \/ a + Size[mmInfo[a]] =< p
                                 \/ p + Size[from] =< a
    BY <2>2 DEF heads
  <2> QED
    BY <1>0, <1>1, <1>2, <2>1, <2>3, SplitLayout
<1> QED
  BY <1>0, <1>1, <1>2, <1>3, <1>4, SplitListed

-----------------------------------------------------------------------------
(* The merge, step by step *)

\* the conjuncts of AccountsInv about empty blocks
WasteInv == FreeListsComplete /\ Coalesced /\ BehindClean /\ RunAlone /\ CarveAscends

\* Outside the merge only the lists matter.
LEMMA WasteServing ==
  ASSUME FreeListsComplete', ~Merging'
  PROVE  WasteInv'
BY DEF WasteInv, Coalesced, BehindClean, RunAlone, CarveAscends, Merging

\* What lies between the run's start and the end of the cursor's arena is not
\* merged yet.
LEMMA NotMerged ==
  ASSUME IInv, Merging, NEW a \in Nat, GapStart =< a, a =< ArenaEnd(scan.arena)
  PROVE  ~Merged(a)
<1>1. /\ scan.arena \in Arenas /\ scan.arena \in Nat /\ al[scan.arena].p =< GapStart
      /\ GapStart \in Int
  BY HeapFacts DEF IInv, ScanOK, Merging
<1>2. ASSUME NEW i \in Arenas, InArena(a, i), i < scan.arena \/ (i = scan.arena /\ a < GapStart)
      PROVE  FALSE
  <2>1. i # scan.arena
    BY <1>1, <1>2
  <2>2. ArenaEnd(i) < al[scan.arena].p \/ ArenaEnd(scan.arena) < al[i].p
    BY <1>1, <2>1, HeapFacts DEF ArenasApart
  <2>3. al[i].p =< a /\ a < ArenaEnd(i)
    BY <1>2 DEF InArena
  <2> QED
    BY <1>1, <2>2, <2>3, HeapFacts
<1> QED
  BY <1>2 DEF Merged

\* No block ends where an arena starts.
LEMMA NoneBefore ==
  ASSUME IInv, NEW i \in Arenas, NEW a \in heads
  PROVE  End(a) # al[i].p
<1>1. PICK k \in Arenas : al[k].p =< a /\ End(a) =< ArenaEnd(k)
  BY HeapFacts DEF BlocksInArenas
<1>2. k # i => ArenaEnd(k) < al[i].p \/ ArenaEnd(i) < al[k].p
  BY HeapFacts DEF ArenasApart
<1>3. /\ a \in Nat /\ End(a) \in Nat /\ a < End(a)
      /\ al[k].p \in Nat /\ ArenaEnd(k) \in Nat /\ al[i].p \in Nat /\ ArenaEnd(i) \in Nat
      /\ al[i].p =< ArenaEnd(i)
  BY <1>1, HeapFacts DEF ArenaEnd
<1> QED
  BY <1>1, <1>2, <1>3

\* Coalesced, as a relation between two blocks
Pairs ==
  Merging =>
    \A a, e \in heads :
      e = End(a) /\ Merged(a) /\ type[a] = "empty" /\ Merged(e) /\ type[e] = "empty"
      => mmInfo[a] < mmInfo[e]

LEMMA PairsNow == Coalesced => Pairs
BY DEF Coalesced, Pairs

LEMMA PairsNext == Pairs' => Coalesced'
<1> SUFFICES ASSUME Pairs', Merging', NEW a \in heads', NEW e \in heads', e = End(a)',
                    Merged(a)', type'[a] = "empty", Merged(e)', type'[e] = "empty"
             PROVE  mmInfo'[a] < mmInfo'[e]
  BY DEF Coalesced, Merged, InArena
<1> QED
  BY DEF Pairs

\* Taking a block into the run makes it empty, and nothing merged changes.
LEMMA MergeEmptyWaste ==
  ASSUME IInv, WasteInv, MergeEmpty
  PROVE  WasteInv'
<1> DEFINE c == scan.at
<1>0. pc = "merge" /\ ~AtEnd /\ pc' = "merge" /\ type[c] # "used" /\ Merging /\ ~Gap
  BY DEF MergeEmpty, Merging, Gap
<1>1. /\ c \in heads /\ scan.arena \in Arenas /\ c \in Nat
      /\ End(c) =< ArenaEnd(scan.arena) /\ c < End(c) /\ End(c) \in Nat
  BY <1>0, CursorBlock, HeapFacts
<1>2. /\ UNCHANGED <<mmInfo, al, buckets>> /\ heads' = heads /\ Arenas' = Arenas
      /\ type' = [type EXCEPT ![c] = "empty"] /\ type \in [heads -> Types]
      /\ scan' = [scan EXCEPT !.at = End(c), !.empty = scan.empty + Size[mmInfo[c]]]
  BY HeapFacts DEF MergeEmpty, arenaVars, heads, Arenas, TypeOK, HeapTypes
<1>3. /\ scan'.arena = scan.arena /\ scan'.at = End(c)
      /\ scan'.empty = scan.empty + Size[mmInfo[c]] /\ GapStart' = GapStart
  <2>1. scan \in [arena : Nat, at : Nat, empty : Nat]
    BY HeapFacts DEF TypeOK, HeapTypes, CallTypes
  <2>2. PICK e \in Nat, n \in Nat : e = End(c) /\ n = scan.empty + Size[mmInfo[c]]
    BY <1>1, HeapFacts
  <2>3. scan' = [scan EXCEPT !.at = e, !.empty = n]
    BY <1>2, <2>2
  <2>4. scan'.arena = scan.arena /\ scan'.at = e /\ scan'.empty = n
    BY <2>1, <2>3
  <2> QED
    BY <2>2, <2>4, <1>1, HeapFacts DEF GapStart
<1>4. \A a \in heads : /\ Merged(a)' <=> Merged(a)
                       /\ End(a)' = End(a) /\ mmInfo'[a] = mmInfo[a]
                       /\ Merged(a) => a # c
                       /\ a # c => type'[a] = type[a]
                       /\ a = c => type'[a] = "empty"
  <2>1. \A a \in heads : (Merged(a)' <=> Merged(a)) /\ End(a)' = End(a)
    BY <1>2, <1>3 DEF Merged, InArena, ArenaEnd, End
  <2>2. ~Merged(c)
    <3>1. GapStart =< c /\ c =< ArenaEnd(scan.arena)
      BY <1>1, HeapFacts
    <3> QED
      BY <1>0, <1>1, <3>1, NotMerged
  <2> QED
    BY <2>1, <2>2, <1>2
<1>5. FreeListsComplete'
  BY <1>0, <1>2, <1>4 DEF WasteInv, FreeListsComplete, Listed
<1>6. Pairs'
  BY <1>0, <1>2, <1>4, PairsNow DEF WasteInv, Pairs
<1>7. BehindClean'
  <2>1. ASSUME NEW a \in heads, GapStart =< a, a < End(c)
        PROVE  type'[a] = "empty"
    <3>1. CASE a < c
      BY <3>1, <2>1, <1>0, <1>4 DEF WasteInv, BehindClean
    <3>2. CASE a = c
      BY <3>2, <1>4
    <3>3. CASE c < a
      BY <3>3, <2>1, <1>1, HeapFacts DEF NoOverlap
    <3> QED
      BY <3>1, <3>2, <3>3, <1>1, HeapFacts
  <2> QED
    BY <2>1, <1>0, <1>2, <1>3, <1>4 DEF WasteInv, BehindClean
<1>8. RunAlone'
  <2>1. \A a \in heads : ~(Merged(a) /\ type[a] = "empty" /\ End(a) = GapStart)
    BY <1>0 DEF WasteInv, RunAlone
  <2> QED
    BY <2>1, <1>2, <1>3, <1>4 DEF RunAlone
<1> QED
  BY <1>0, <1>5, <1>6, <1>7, <1>8, PairsNext DEF WasteInv, CarveAscends

\* A block in use between the runs separates them.
LEMMA MergeUsedWaste ==
  ASSUME IInv, WasteInv, MergeUsed
  PROVE  WasteInv'
<1> DEFINE c == scan.at
<1>0. /\ pc = "merge" /\ ~AtEnd /\ pc' = "merge" /\ type[c] = "used" /\ scan.empty = 0
      /\ Merging
  BY DEF MergeUsed, Merging
<1>1. /\ c \in heads /\ scan.arena \in Arenas /\ c \in Nat
      /\ c < End(c) /\ End(c) \in Nat /\ GapStart = c
  BY <1>0, CursorBlock, HeapFacts
<1>2. /\ UNCHANGED <<mmInfo, type, al, buckets>> /\ heads' = heads /\ Arenas' = Arenas
      /\ scan' = [scan EXCEPT !.at = End(c)]
  BY DEF MergeUsed, arenaVars, blockVars, heads, Arenas
<1>3. scan'.arena = scan.arena /\ scan'.at = End(c) /\ scan'.empty = 0 /\ GapStart' = End(c)
  <2>1. scan \in [arena : Nat, at : Nat, empty : Nat]
    BY HeapFacts DEF TypeOK, HeapTypes, CallTypes
  <2>2. scan'.arena = scan.arena /\ scan'.at = End(c) /\ scan'.empty = 0
    BY <1>0, <1>1, <1>2, <2>1
  <2> QED
    BY <2>2, <1>1 DEF GapStart
<1>4. \A a \in heads : /\ Merged(a)' => Merged(a) \/ a = c
                       /\ End(a)' = End(a)
                       /\ a \in Nat
                       /\ a < c => End(a) =< c
                       /\ c < a => End(c) =< a
  <2>1. \A a \in heads : /\ End(a)' = End(a) /\ a \in Nat
                         /\ a < c => End(a) =< c
                         /\ c < a => End(c) =< a
    BY <1>1, <1>2, HeapFacts DEF NoOverlap, End
  <2>2. ASSUME NEW a \in heads, Merged(a)', a # c PROVE Merged(a)
    <3>1. a < End(c) => a < c
      BY <1>1, <2>1, <2>2
    <3> QED
      BY <3>1, <2>2, <1>1, <1>2, <1>3 DEF Merged, InArena, ArenaEnd
  <2> QED
    BY <2>1, <2>2
<1>5. FreeListsComplete'
  BY <1>0, <1>2, <1>4 DEF WasteInv, FreeListsComplete, Listed
<1>6. Pairs'
  BY <1>0, <1>2, <1>4, PairsNow DEF WasteInv, Pairs
<1>7. BehindClean'
  <2>1. \A a \in heads : Merged(a)' => type'[a] # "freed"
    BY <1>0, <1>2, <1>4 DEF WasteInv, BehindClean
  <2> QED
    BY <2>1, <1>0, <1>1, <1>2, <1>3, <1>4 DEF BehindClean
<1>8. RunAlone'
  <2>1. ASSUME NEW a \in heads, type[a] = "empty", End(a) = End(c) PROVE FALSE
    <3>1. a # c
      BY <2>1, <1>0
    <3> QED
      BY <3>1, <2>1, <1>1, <1>4, HeapFacts
  <2> QED
    BY <2>1, <1>2, <1>3, <1>4 DEF RunAlone
<1> QED
  BY <1>0, <1>5, <1>6, <1>7, <1>8, PairsNext DEF WasteInv, CarveAscends

\* When a run ends, nothing before it could have been merged with it.
LEMMA RunEndsWaste ==
  ASSUME IInv, WasteInv, RunEnds
  PROVE  WasteInv'
<1> DEFINE g == scan.at - scan.empty
           Kept == {a \in heads : Outside(a)}
<1>0. /\ pc = "merge" /\ pc' = "carve" /\ scan.empty > 0 /\ Merging /\ Merging'
      /\ AtEnd \/ type[scan.at] = "used"
  BY DEF RunEnds, Merging
<1>1. /\ mmInfo' = [a \in Kept |-> mmInfo[a]] /\ type' = [a \in Kept |-> type[a]]
      /\ heads' = Kept /\ Arenas' = Arenas /\ UNCHANGED <<al, buckets, scan>>
  BY DEF RunEnds, Restrict, arenaVars, heads, Arenas
<1>2. /\ scan.at \in heads \/ AtEnd
      /\ scan.empty =< scan.at
  BY <1>0 DEF IInv, ScanOK
<1>3. /\ GapStart' = GapStart /\ GapStart = g /\ scan.at \in Nat /\ g < scan.at
      /\ AtEnd' <=> AtEnd
  BY <1>0, <1>1, <1>2, HeapFacts DEF GapStart, AtEnd, ArenaEnd
<1>4. \A a \in heads : a \in Kept <=> a < g \/ scan.at =< a
  BY DEF Outside
<1> HIDE DEF g
<1>5. \A a \in Kept : /\ a \in heads /\ mmInfo'[a] = mmInfo[a] /\ type'[a] = type[a]
                      /\ End(a)' = End(a) /\ (Merged(a)' <=> Merged(a))
  <2>1. \A a \in Kept : a \in heads /\ mmInfo'[a] = mmInfo[a] /\ type'[a] = type[a]
    BY <1>1
  <2>2. \A a \in Kept : End(a)' = End(a)
    BY <2>1 DEF End
  <2>3. \A a \in Kept : Merged(a)' <=> Merged(a)
    BY <1>1, <1>3 DEF Merged, InArena, ArenaEnd
  <2> QED
    BY <2>1, <2>2, <2>3
<1>6. FreeListsComplete'
  BY <1>0, <1>1, <1>5 DEF WasteInv, FreeListsComplete, Listed
<1>7. Pairs'
  BY <1>0, <1>1, <1>5, PairsNow DEF WasteInv, Pairs
<1>8. BehindClean'
  BY <1>0, <1>1, <1>3, <1>5 DEF WasteInv, BehindClean
<1>9. CarveAscends'
  <2>1. AtEnd' \/ type'[scan'.at] = "used"
    <3>1. CASE AtEnd
      BY <3>1, <1>3
    <3>2. CASE ~AtEnd
      <4>1. scan.at \in Kept
        BY <3>2, <1>2, <1>3, <1>4
      <4> QED
        BY <4>1, <3>2, <1>0, <1>1, <1>5
    <3> QED
      BY <3>1, <3>2
  <2>2. \A a \in heads : ~(Merged(a) /\ type[a] = "empty" /\ End(a) = GapStart)
    BY <1>0 DEF WasteInv, RunAlone
  <2> QED
    BY <2>1, <2>2, <1>1, <1>3, <1>5 DEF CarveAscends
<1> QED
  BY <1>0, <1>6, <1>7, <1>8, <1>9, PairsNext DEF WasteInv, RunAlone

\* Each block carved off a run is larger than the one before it, and listed.
LEMMA CarveWaste ==
  ASSUME IInv, WasteInv, Carve
  PROVE  WasteInv'
<1>0. pc = "carve" /\ Merging
  BY DEF Carve, Merging
<1>1. PICK c : c = scan.at - scan.empty
  OBVIOUS
<1>2. PICK b \in Buckets :
        /\ LowestBit(b, scan.empty)
        /\ mmInfo' = [a \in heads \cup {c} |-> IF a = c THEN b ELSE mmInfo[a]]
        /\ type' = [a \in heads \cup {c} |-> IF a = c THEN "empty" ELSE type[a]]
        /\ buckets' = [buckets EXCEPT ![b] = Push(buckets[b], c)]
        /\ scan' = [scan EXCEPT !.empty = scan.empty - Size[b]]
        /\ pc' = IF scan.empty = Size[b] THEN "merge" ELSE "carve"
  BY <1>1 DEF Carve
<1>3. /\ scan.arena \in Arenas /\ scan.empty =< scan.at /\ scan.empty > 0
      /\ al[scan.arena].p =< c /\ scan.at =< ArenaEnd(scan.arena)
      /\ scan.at \in heads \/ AtEnd
      /\ \A a \in heads : End(a) =< c \/ scan.at =< a
  BY <1>0, <1>1 DEF IInv, ScanOK, GapStart
<1>4. /\ GapStart = c /\ c \in Nat /\ scan.at \in Nat /\ scan.empty \in Nat /\ c < scan.at
      /\ scan.at = c + scan.empty
      /\ Size[b] \in Nat /\ Size[b] > 0 /\ Size[b] =< scan.empty
  <2>1. Size[b] \in Nat /\ Size[b] > 0
    BY SizeFacts
  <2>2. Size[b] =< scan.empty
    BY <1>2 DEF LowestBit
  <2>3. scan.at \in Nat /\ scan.empty \in Nat /\ GapStart = scan.at - scan.empty
    BY HeapFacts
  <2> QED
    BY <1>1, <1>3, <2>1, <2>2, <2>3
<1>5. /\ scan'.arena = scan.arena /\ scan'.at = scan.at
      /\ scan'.empty = scan.empty - Size[b]
      /\ GapStart' = c + Size[b] /\ GapStart' =< scan.at
  <2>1. scan \in [arena : Nat, at : Nat, empty : Nat]
    BY HeapFacts DEF TypeOK, HeapTypes, CallTypes
  <2>2. PICK n \in Nat : n = scan.empty - Size[b]
    BY <1>4
  <2>3. scan' = [scan EXCEPT !.empty = n]
    BY <1>2, <2>2
  <2>4. scan'.arena = scan.arena /\ scan'.at = scan.at /\ scan'.empty = n
    BY <2>1, <2>3
  <2> QED
    BY <2>2, <2>4, <1>4 DEF GapStart
<1>6. /\ heads' = heads \cup {c} /\ c \notin heads
      /\ UNCHANGED al /\ Arenas' = Arenas
      /\ mmInfo'[c] = b /\ type'[c] = "empty" /\ End(c)' = c + Size[b]
      /\ \A a \in heads : /\ mmInfo'[a] = mmInfo[a] /\ type'[a] = type[a] /\ End(a)' = End(a)
                          /\ mmInfo[a] \in Buckets /\ a \in Nat /\ End(a) \in Nat /\ a < End(a)
  <2>1. c \notin heads
    BY <1>3, <1>4, HeapFacts
  <2>2. heads' = heads \cup {c}
    BY <1>2 DEF heads
  <2>3. UNCHANGED al /\ Arenas' = Arenas
    BY DEF Carve, arenaVars, Arenas
  <2>4. /\ mmInfo'[c] = b /\ type'[c] = "empty"
        /\ \A a \in heads : mmInfo'[a] = mmInfo[a] /\ type'[a] = type[a]
    BY <1>2, <2>1
  <2> QED
    BY <2>1, <2>2, <2>3, <2>4, HeapFacts DEF End
<1>7. AtEnd' <=> AtEnd
  BY <1>5, <1>6 DEF AtEnd, ArenaEnd
<1>8. \A a \in heads : Merged(a)' => Merged(a)
  <2>1. \A a \in heads : a < c + Size[b] => a < c
    BY <1>3, <1>4, <1>5, <1>6
  <2> QED
    BY <2>1, <1>4, <1>5, <1>6 DEF Merged, InArena, ArenaEnd
<1>9. FreeListsComplete'
  <2>1. /\ c \in On(buckets'[b])
        /\ \A k \in Buckets : On(buckets[k]) \subseteq On(buckets'[k])
    <3>1. buckets \in [Buckets -> Seq(Nat)]
      BY HeapFacts DEF TypeOK, HeapTypes
    <3>2. c \in On(Push(buckets[b], c)) /\ On(buckets[b]) \subseteq On(Push(buckets[b], c))
      BY <3>1, <1>4, OnPush
    <3> QED
      BY <3>1, <3>2, <1>2
  <2>2. \A a \in heads : Merged(a) /\ type[a] = "empty" => a \in On(buckets[mmInfo[a]])
    BY <1>0 DEF WasteInv, FreeListsComplete, Listed, On
  <2>3. \A a \in heads' : Merged(a)' /\ type'[a] = "empty" => a \in On(buckets'[mmInfo'[a]])
    BY <2>1, <2>2, <1>6, <1>8
  <2> QED
    BY <2>3, <1>2 DEF FreeListsComplete, Listed, On
<1>10. ASSUME NEW e \in heads, Merged(e)' PROVE e # c + Size[b]
  <2>1. ~Merged(c + Size[b])
    <3>1. /\ c + Size[b] \in Nat /\ GapStart =< c + Size[b]
          /\ ArenaEnd(scan.arena) \in Nat /\ c + Size[b] =< ArenaEnd(scan.arena)
      BY <1>3, <1>4, <1>5, HeapFacts
    <3> QED
      BY <3>1, <1>0, NotMerged
  <2> QED
    BY <2>1, <1>8, <1>10
<1>11. Pairs'
  <2>1. \A a, e \in heads :
          e = End(a) /\ Merged(a) /\ type[a] = "empty" /\ Merged(e) /\ type[e] = "empty"
          => mmInfo[a] < mmInfo[e]
    BY <1>0, PairsNow DEF WasteInv, Pairs
  <2>2. ASSUME NEW a \in heads, NEW e \in heads, e = End(a), Merged(a)', type[a] = "empty",
               Merged(e)', type[e] = "empty"
        PROVE  mmInfo'[a] < mmInfo'[e]
    BY <2>1, <2>2, <1>6, <1>8
  <2>3. ASSUME NEW a \in heads, End(a) = c, Merged(a)', type[a] = "empty"
        PROVE  mmInfo'[a] < b
    <3>1. scan.empty % (2 * Size[mmInfo[a]]) = 0
      BY <2>3, <1>0, <1>4, <1>8 DEF WasteInv, CarveAscends
    <3> QED
      BY <3>1, <1>2, <1>4, <1>6, CarveLeaves
  <2>4. ASSUME NEW e \in heads', Merged(e)' PROVE e # End(c)'
    BY <2>4, <1>4, <1>6, <1>10
  <2>5. ASSUME NEW a \in heads', NEW e \in heads', e = End(a)',
               Merged(a)', type'[a] = "empty", Merged(e)', type'[e] = "empty"
        PROVE  mmInfo'[a] < mmInfo'[e]
    <3>1. CASE a = c
      BY <3>1, <2>4, <2>5
    <3>2. CASE a \in heads /\ e = c
      BY <3>2, <2>3, <2>5, <1>6
    <3>3. CASE a \in heads /\ e \in heads
      BY <3>3, <2>2, <2>5, <1>6
    <3> QED
      BY <3>1, <3>2, <3>3, <2>5, <1>6
  <2> QED
    BY <2>5 DEF Pairs
<1>12. BehindClean'
  <2>1. \A a \in heads' : Merged(a)' => type'[a] # "freed"
    BY <1>0, <1>6, <1>8 DEF WasteInv, BehindClean
  <2>2. \A a \in heads' : ~(GapStart' =< a /\ a < scan.at)
    BY <1>3, <1>4, <1>5, <1>6
  <2> QED
    BY <2>1, <2>2, <1>5 DEF BehindClean
<1>13. AtEnd' \/ type'[scan'.at] = "used"
  BY <1>0, <1>3, <1>5, <1>6, <1>7 DEF WasteInv, CarveAscends
<1>14. RunAlone'
  <2>1. pc' = "merge" => scan'.empty = 0
    BY <1>2, <1>4, <1>5
  <2> QED
    BY <2>1, <1>13 DEF RunAlone
<1>15. CarveAscends'
  <2>1. (scan.empty - Size[b]) % (2 * Size[b]) = 0
    BY <1>2, <1>4, CarveLeaves
  <2>2. ASSUME NEW a \in heads', End(a)' = GapStart'
        PROVE  a = c
    BY <2>2, <1>3, <1>4, <1>5, <1>6
  <2>3. ASSUME NEW a \in heads', End(a)' = GapStart'
        PROVE  scan'.empty % (2 * Size[mmInfo'[a]]) = 0
    BY <2>1, <2>2, <2>3, <1>5, <1>6
  <2> QED
    BY <2>3, <1>13 DEF CarveAscends
<1> QED
  BY <1>9, <1>11, <1>12, <1>14, <1>15, PairsNext DEF WasteInv

\* The walk over an arena starts with nothing of it merged.
LEMMA StartArenaWaste ==
  ASSUME IInv, NEW i \in Arenas, StartArena(i), pc' = "merge", UNCHANGED <<mmInfo, type, al>>,
         \A a \in heads : \A j \in Arenas : j < i /\ InArena(a, j) =>
           /\ type[a] # "freed"
           /\ type[a] = "empty" => a \in On(buckets'[mmInfo[a]])
           /\ \A e \in heads : /\ e = End(a) /\ type[a] = "empty" /\ type[e] = "empty"
                               /\ \E k \in Arenas : k < i /\ InArena(e, k)
                              => mmInfo[a] < mmInfo[e]
  PROVE  WasteInv'
<1>1. scan' = [arena |-> i, at |-> al[i].p, empty |-> 0]
  BY DEF StartArena
<1>2. /\ heads' = heads /\ Arenas' = Arenas /\ GapStart' = al[i].p /\ al[i].p \in Nat
      /\ scan'.arena = i /\ scan'.at = al[i].p /\ scan'.empty = 0
  BY <1>1, HeapFacts DEF heads, Arenas, GapStart
<1>3. \A a \in heads : /\ End(a)' = End(a) /\ a \in Nat
                       /\ Merged(a)' => \E j \in Arenas : j < i /\ InArena(a, j)
  <2>1. \A a \in heads : End(a)' = End(a) /\ a \in Nat
    BY HeapFacts DEF End
  <2>2. ASSUME NEW a \in heads, Merged(a)'
        PROVE  \E j \in Arenas : j < i /\ InArena(a, j)
    BY <1>2, <2>1, <2>2 DEF Merged, InArena, ArenaEnd
  <2> QED
    BY <2>1, <2>2
<1>4. FreeListsComplete'
  BY <1>2, <1>3 DEF FreeListsComplete, Listed, On
<1>5. Pairs'
  BY <1>2, <1>3 DEF Pairs
<1>6. BehindClean'
  BY <1>2, <1>3 DEF BehindClean
<1>7. RunAlone'
  BY <1>2, <1>3, NoneBefore DEF RunAlone
<1> QED
  BY <1>4, <1>5, <1>6, <1>7, PairsNext DEF WasteInv, CarveAscends

\* The lists are dropped when nothing of the heap counts as merged yet.
LEMMA MergeBeginWaste ==
  ASSUME IInv, WasteInv, MergeBegin
  PROVE  WasteInv'
<1>0. pc = "collect" /\ UNCHANGED <<mmInfo, type, al>>
  BY DEF MergeBegin, arenaVars
<1>1. CASE al # << >>
  <2>1. pc' = "merge" /\ StartArena(1)
    BY <1>1 DEF MergeBegin
  <2>2. 1 \in Arenas /\ \A j \in Arenas : ~(j < 1)
    BY <1>1, HeapFacts DEF TypeOK, HeapTypes, CallTypes, Arenas
  <2> QED
    BY <1>0, <2>1, <2>2, StartArenaWaste
<1>2. CASE al = << >>
  <2>1. GCDone
    BY <1>2 DEF MergeBegin
  <2>2. ~Merging'
    BY <2>1, GCDoneStep
  <2>3. heads' = {}
    <3>1. Arenas = {}
      BY <1>2 DEF Arenas
    <3>2. heads = {}
      BY <3>1, HeapFacts DEF BlocksInArenas
    <3> QED
      BY <3>2, <1>0 DEF heads
  <2>4. FreeListsComplete'
    BY <2>3 DEF FreeListsComplete
  <2> QED
    BY <2>2, <2>4, WasteServing
<1> QED
  BY <1>1, <1>2

\* Behind a finished arena everything is merged, and after the last one all of
\* the heap.
LEMMA ArenaDoneWaste ==
  ASSUME IInv, WasteInv, ArenaDone
  PROVE  WasteInv'
<1>0. /\ pc = "merge" /\ AtEnd /\ scan.empty = 0 /\ Merging
      /\ UNCHANGED <<mmInfo, type, buckets, al>>
  BY DEF ArenaDone, blockVars, arenaVars, Merging
<1>1. /\ heads' = heads /\ Arenas' = Arenas
      /\ scan.arena \in Nat /\ Len(al) \in Nat /\ Arenas = 1 .. Len(al) /\ scan.arena \in Arenas
  BY <1>0, HeapFacts DEF heads, Arenas, TypeOK, HeapTypes, IInv, ScanOK
<1>2. GapStart = ArenaEnd(scan.arena)
  BY <1>0, <1>1, HeapFacts DEF AtEnd
<1>3. \A a \in heads : \A j \in Arenas : j =< scan.arena /\ InArena(a, j) => Merged(a)
  BY <1>1, <1>2 DEF Merged, InArena
<1>4. /\ \A a \in heads : Merged(a) => /\ type[a] # "freed"
                                       /\ type[a] = "empty" => a \in Listed(mmInfo[a])
      /\ \A a, e \in heads :
           e = End(a) /\ Merged(a) /\ type[a] = "empty" /\ Merged(e) /\ type[e] = "empty"
           => mmInfo[a] < mmInfo[e]
  BY <1>0, PairsNow DEF WasteInv, FreeListsComplete, BehindClean, Pairs
<1>5. CASE scan.arena < Len(al)
  <2>1. pc' = "merge" /\ StartArena(scan.arena + 1)
    BY <1>0, <1>5 DEF ArenaDone
  <2>2. PICK i : i = scan.arena + 1
    OBVIOUS
  <2>3. i \in Arenas /\ \A j \in Arenas : j < i => j =< scan.arena
    BY <1>1, <1>5, <2>2
  <2>4. ASSUME NEW a \in heads, NEW j \in Arenas, j < i, InArena(a, j)
        PROVE  Merged(a)
    BY <1>3, <2>3, <2>4
  <2>5. StartArena(i)
    BY <2>1, <2>2
  <2>7. \A a \in heads : Merged(a) => /\ type[a] # "freed"
                                      /\ type[a] = "empty" => a \in On(buckets'[mmInfo[a]])
    BY <1>0, <1>4 DEF Listed, On
  <2>8. \A a \in heads : \A j \in Arenas : j < i /\ InArena(a, j) =>
           /\ type[a] # "freed"
           /\ type[a] = "empty" => a \in On(buckets'[mmInfo[a]])
           /\ \A e \in heads : /\ e = End(a) /\ type[a] = "empty" /\ type[e] = "empty"
                               /\ \E k \in Arenas : k < i /\ InArena(e, k)
                              => mmInfo[a] < mmInfo[e]
    <3>1. ASSUME NEW a \in heads, NEW j \in Arenas, j < i, InArena(a, j),
                 NEW e \in heads, e = End(a), type[a] = "empty", type[e] = "empty",
                 \E k \in Arenas : k < i /\ InArena(e, k)
          PROVE  mmInfo[a] < mmInfo[e]
      <4>1. Merged(a) /\ Merged(e)
        BY <2>4, <3>1
      <4> QED
        BY <1>4, <3>1, <4>1
    <3>2. ASSUME NEW a \in heads, NEW j \in Arenas, j < i, InArena(a, j)
          PROVE  type[a] # "freed" /\ (type[a] = "empty" => a \in On(buckets'[mmInfo[a]]))
      <4>1. Merged(a)
        BY <2>4, <3>2
      <4> QED
        BY <2>7, <4>1
    <3> QED
      BY <3>1, <3>2
  <2> QED
    BY <1>0, <2>1, <2>3, <2>5, <2>8, StartArenaWaste
<1>6. CASE ~(scan.arena < Len(al))
  <2>1. GCDone
    BY <1>6 DEF ArenaDone
  <2>2. ~Merging'
    BY <2>1, GCDoneStep
  <2>3. ASSUME NEW a \in heads PROVE Merged(a)
    <3>1. PICK i \in Arenas : al[i].p =< a /\ End(a) =< ArenaEnd(i)
      BY HeapFacts DEF BlocksInArenas
    <3>2. InArena(a, i) /\ i =< scan.arena
      BY <3>1, <1>1, <1>6, HeapFacts DEF InArena
    <3> QED
      BY <3>1, <3>2, <1>3
  <2>4. \A a \in heads' : /\ type'[a] # "freed"
                          /\ type'[a] = "empty" => a \in On(buckets'[mmInfo'[a]])
    BY <2>3, <1>0, <1>1, <1>4 DEF Listed, On
  <2>5. FreeListsComplete'
    <3>1. \A a \in heads' : a \in On(buckets'[mmInfo'[a]]) <=> a \in Listed(mmInfo[a])'
      BY DEF Listed, On
    <3> QED
      BY <2>4, <3>1, Zenon DEF FreeListsComplete
  <2> QED
    BY <2>2, <2>5, WasteServing
<1> QED
  BY <1>5, <1>6

\* Every step keeps the empty blocks accounted for.
LEMMA WasteStep == IInv /\ WasteInv /\ [Next]_vars => WasteInv'
<1> SUFFICES ASSUME IInv, WasteInv, [Next]_vars PROVE WasteInv'
  OBVIOUS
<1>0. FreeListsComplete
  BY DEF WasteInv
<1>s. ASSUME UNCHANGED <<mmInfo, type, buckets, al, scan>>,
             \/ ~Merging' /\ ~Merging /\ (pc' \in {"idle", "alloc"} => pc \in {"idle", "alloc"})
             \/ pc' = pc
      PROVE  WasteInv'
  <2>1. heads' = heads /\ Arenas' = Arenas
    BY <1>s DEF heads, Arenas
  <2>2. CASE ~Merging' /\ ~Merging /\ (pc' \in {"idle", "alloc"} => pc \in {"idle", "alloc"})
    <3>1. FreeListsComplete'
      BY <1>0, <1>s, <2>1, <2>2 DEF FreeListsComplete, Listed, Merging
    <3> QED
      BY <2>2, <3>1, WasteServing
  <2>3. CASE pc' = pc
    BY <1>s, <2>1, <2>3 DEF WasteInv, FreeListsComplete, Coalesced, BehindClean, RunAlone,
       CarveAscends, Merging, Merged, InArena, Listed, End, ArenaEnd, AtEnd, GapStart
  <2> QED
    BY <1>s, <2>2, <2>3
<1>u. CASE UNCHANGED vars
  BY <1>u, <1>s DEF vars, blockVars, arenaVars, callVars
<1>n. CASE Next
  <2>1. ASSUME NEW b \in Buckets, Request(b) PROVE WasteInv'
    BY <2>1, <1>s DEF Request, Merging, blockVars, arenaVars
  <2>2. ASSUME NEW a \in heads, Free(a) \/ GCFree(a) PROVE WasteInv'
    <3>1. FreeLink(a) /\ pc' = pc /\ ~Merging /\ ~Merging'
      BY <2>2 DEF Free, GCFree, callVars, Merging
    <3> QED
      BY <3>1, <1>0, FreeLinkLists, WasteServing
  <2>3. ASSUME NEW a \in heads, GCMark(a) PROVE WasteInv'
    <3>1. /\ pc = "collect" /\ pc' = pc /\ UNCHANGED <<mmInfo, buckets>> /\ heads' = heads
          /\ type' = [type EXCEPT ![a] = "freed"] /\ type \in [heads -> Types]
      BY <2>3, HeapFacts DEF GCMark, callVars, heads, TypeOK, HeapTypes
    <3>2. \A x \in heads : type'[x] = "empty" => type[x] = "empty"
      BY <3>1
    <3>3. FreeListsComplete'
      BY <1>0, <3>1, <3>2 DEF FreeListsComplete, Listed
    <3> QED
      BY <3>1, <3>3, WasteServing DEF Merging
  <2>4. CASE CollectNow \/ SwitchGC \/ Signal
    BY <2>4, <1>s DEF CollectNow, SwitchGC, Signal, callVars, Merging, blockVars, arenaVars
  <2>5. CASE AllocL
    BY <2>5, <1>0, AllocLLists, WasteServing DEF AllocL, Return, Over, Merging
  <2>6. CASE AllocS
    BY <2>6, <1>0, AllocSLists, WasteServing DEF AllocS, Return, Over, Merging
  <2>7. CASE ThrowInterrupted \/ MaybeGC \/ ForceGC \/ ThrowOOM \/ MmapFails
    BY <2>7, <1>s DEF ThrowInterrupted, MaybeGC, ForceGC, ThrowOOM, MmapFails, NeedMore, Over,
                      Merging, blockVars, arenaVars
  <2>8. ASSUME NEW p \in Bases, Mmap(p) PROVE WasteInv'
    BY <2>8, <1>0, MmapLists, WasteServing DEF Mmap, Return, Over, Merging
  <2> QED
    BY <1>n, <2>1, <2>2, <2>3, <2>4, <2>5, <2>6, <2>7, <2>8, MergeBeginWaste, MergeEmptyWaste,
       MergeUsedWaste, RunEndsWaste, CarveWaste, ArenaDoneWaste DEF Next, Serve, Collect
<1> QED
  BY <1>u, <1>n

-----------------------------------------------------------------------------
(* The counters *)

\* the blocks of bucket b that count as in use, in a heap of blocks mm of types ty
InUse(b, mm, ty) == {a \in DOMAIN mm : mm[a] = b /\ ty[a] # "empty"}

\* the conjuncts of AccountsInv about counters
CountInv == IsFiniteSet(heads) /\ IsFiniteSet(ArenaBytes) /\ CtrsExact /\ WithinLimit

LEMMA CtrsNow ==
  CtrsExact => \A b \in Buckets : ctrs[b] = Cardinality(InUse(b, mmInfo, type))
BY DEF CtrsExact, InUse, heads

LEMMA CtrsNext ==
  (\A b \in Buckets : ctrs'[b] = Cardinality(InUse(b, mmInfo', type'))) => CtrsExact'
BY DEF CtrsExact, InUse, heads

LEMMA InUseFinite ==
  ASSUME NEW mm, NEW ty, NEW b, IsFiniteSet(DOMAIN mm)
  PROVE  IsFiniteSet(InUse(b, mm, ty)) /\ Cardinality(InUse(b, mm, ty)) \in Nat
<1>1. InUse(b, mm, ty) \in SUBSET DOMAIN mm
  BY DEF InUse
<1>2. IsFiniteSet(InUse(b, mm, ty))
  BY <1>1, FS_Subset
<1> QED
  BY <1>2, FS_CardinalityType

\* A block that becomes empty is one less in use.
LEMMA LeavesUse ==
  ASSUME NEW mm, NEW ty \in [DOMAIN mm -> Types], IsFiniteSet(DOMAIN mm),
         NEW a \in DOMAIN mm, ty[a] # "empty", NEW b
  PROVE  Cardinality(InUse(b, mm, [ty EXCEPT ![a] = "empty"]))
           = IF mm[a] = b THEN Cardinality(InUse(b, mm, ty)) - 1
                          ELSE Cardinality(InUse(b, mm, ty))
<1> DEFINE S == InUse(b, mm, ty)
           T == InUse(b, mm, [ty EXCEPT ![a] = "empty"])
<1>1. T = S \ {a} /\ (a \in S <=> mm[a] = b)
  BY DEF InUse
<1>2. IsFiniteSet(S)
  BY InUseFinite
<1> HIDE DEF S, T
<1>3. Cardinality(S \ {a}) = IF a \in S THEN Cardinality(S) - 1 ELSE Cardinality(S)
  BY <1>2, FS_RemoveElement
<1> QED
  BY <1>1, <1>3 DEF S, T

\* mm_free uncounts the block it frees.
LEMMA FreeLinkCounts ==
  ASSUME IInv, CountInv, NEW a \in heads, type[a] # "empty", mmInfo' = mmInfo,
         type' = [type EXCEPT ![a] = "empty"], ctrs' = Uncount(a)
  PROVE  IsFiniteSet(heads') /\ CtrsExact'
<1>1. /\ mmInfo \in [heads -> Buckets] /\ type \in [heads -> Types] /\ ctrs \in [Buckets -> Int]
      /\ heads' = heads
  BY HeapFacts DEF TypeOK, HeapTypes, heads
<1>2. IsFiniteSet(heads) /\ \A b \in Buckets : ctrs[b] = Cardinality(InUse(b, mmInfo, type))
  BY CtrsNow DEF CountInv
<1>3. ASSUME NEW b \in Buckets
      PROVE  ctrs'[b] = Cardinality(InUse(b, mmInfo', type'))
  <2>1. Cardinality(InUse(b, mmInfo, type'))
          = IF mmInfo[a] = b THEN Cardinality(InUse(b, mmInfo, type)) - 1
                             ELSE Cardinality(InUse(b, mmInfo, type))
    <3>1. type \in [DOMAIN mmInfo -> Types] /\ IsFiniteSet(DOMAIN mmInfo) /\ a \in DOMAIN mmInfo
      BY <1>1, <1>2 DEF heads
    <3>2. Cardinality(InUse(b, mmInfo, [type EXCEPT ![a] = "empty"]))
            = IF mmInfo[a] = b THEN Cardinality(InUse(b, mmInfo, type)) - 1
                               ELSE Cardinality(InUse(b, mmInfo, type))
      BY <3>1, LeavesUse
    <3> QED
      BY <3>2
  <2> QED
    BY <2>1, <1>1, <1>2 DEF Uncount
<1> QED
  BY <1>1, <1>2, <1>3, CtrsNext

\* allocL counts the block it hands out.
LEMMA AllocLCounts ==
  ASSUME IInv, CountInv, AllocL
  PROVE  IsFiniteSet(heads') /\ CtrsExact'
<1> DEFINE h == Head(buckets[req])
<1>1. /\ mmInfo \in [heads -> Buckets] /\ type \in [heads -> Types] /\ ctrs \in [Buckets -> Int]
      /\ req \in Buckets
      /\ heads' = heads /\ mmInfo' = mmInfo
      /\ buckets[req] # << >>
      /\ type' = [type EXCEPT ![h] = "used"]
      /\ ctrs' = [ctrs EXCEPT ![req] = ctrs[req] + 1]
  BY HeapFacts DEF TypeOK, HeapTypes, CallTypes, heads, AllocL
<1>2. IsFiniteSet(heads) /\ \A b \in Buckets : ctrs[b] = Cardinality(InUse(b, mmInfo, type))
  BY CtrsNow DEF CountInv
<1>3. h \in heads /\ mmInfo[h] = req /\ type[h] = "empty"
  BY <1>1, FirstListed DEF heads
<1> HIDE DEF h
<1>4. ASSUME NEW b \in Buckets
      PROVE  ctrs'[b] = Cardinality(InUse(b, mmInfo', type'))
  <2> DEFINE S == InUse(b, mmInfo, type)
  <2>1. IsFiniteSet(S)
    BY <1>2, InUseFinite DEF heads
  <2>2. /\ h \notin S
        /\ InUse(b, mmInfo', type') = IF b = req THEN S \cup {h} ELSE S
    BY <1>1, <1>3 DEF InUse, heads
  <2> HIDE DEF S
  <2>3. Cardinality(S \cup {h}) = Cardinality(S) + 1
    BY <2>1, <2>2, FS_AddElement
  <2>4. ctrs[b] = Cardinality(S)
    BY <1>2 DEF S
  <2> QED
    BY <2>2, <2>3, <2>4, <1>1
<1> QED
  BY <1>1, <1>2, <1>4, CtrsNext

\* Of the pieces of a split only the one handed out counts.
LEMMA SplitCounts ==
  ASSUME NEW c \in Nat, NEW from \in Buckets, NEW to \in Buckets, to =< from,
         NEW hs, NEW ts, NEW old,
         hs \in [DOMAIN hs -> Buckets], DOMAIN hs \subseteq Nat,
         ts \in [DOMAIN hs -> Types], IsFiniteSet(DOMAIN hs),
         c \in DOMAIN hs => ts[c] = "empty",
         Halves(c, from, to) \cap DOMAIN hs = {},
         ctrs \in [Buckets -> Int],
         \A b \in Buckets : ctrs[b] = Cardinality(InUse(b, hs, ts)),
         SplitAndTake(c, from, to, old, hs, ts)
  PROVE  IsFiniteSet(heads') /\ CtrsExact'
<1>1. /\ heads' = DOMAIN hs \cup Halves(c, from, to) \cup {c}
      /\ mmInfo'[c] = to /\ type'[c] = "used"
      /\ \A a \in DOMAIN hs : a # c => mmInfo'[a] = hs[a] /\ type'[a] = ts[a]
      /\ \A k \in to .. from - 1 : type'[c + Size[k]] = "empty"
  BY SplitShape
<1>2. IsFiniteSet(heads')
  <2>1. IsFiniteSet(0 .. c + Size[from])
    <3>1. 0 \in Int /\ c + Size[from] \in Int
      BY SizeFacts
    <3> QED
      BY <3>1, FS_Interval
  <2>2. Halves(c, from, to) \subseteq 0 .. c + Size[from]
    <3>1. \A k \in to .. from - 1 : k \in Buckets /\ k =< from
      BY BucketAssumption DEF Buckets
    <3>2. \A k \in to .. from - 1 : c + Size[k] \in 0 .. c + Size[from]
      BY <3>1, SizeFacts
    <3> QED
      BY <3>2 DEF Halves
  <2>3. IsFiniteSet(Halves(c, from, to))
    BY <2>1, <2>2, FS_Subset
  <2>4. IsFiniteSet(DOMAIN hs \cup Halves(c, from, to))
    BY <2>3, FS_Union
  <2> QED
    BY <2>4, <1>1, FS_AddElement
<1>3. ctrs' = [ctrs EXCEPT ![to] = ctrs[to] + 1]
  BY DEF SplitAndTake
<1>4. ASSUME NEW b \in Buckets
      PROVE  ctrs'[b] = Cardinality(InUse(b, mmInfo', type'))
  <2> DEFINE S == InUse(b, hs, ts)
  <2>1. IsFiniteSet(S)
    BY InUseFinite
  <2>2. c \notin S
    BY DEF InUse
  <2>3. InUse(b, mmInfo', type') = IF b = to THEN S \cup {c} ELSE S
    <3>1. \A a \in Halves(c, from, to) : type'[a] = "empty"
      BY <1>1 DEF Halves
    <3>2. \A a \in heads' : a \in InUse(b, mmInfo', type')
                            <=> \/ a = c /\ b = to
                                \/ a # c /\ a \in S
      BY <1>1, <3>1 DEF InUse, heads
    <3>3. InUse(b, mmInfo', type') \subseteq heads' /\ S \subseteq heads' /\ c \in heads'
      BY <1>1 DEF InUse, heads
    <3> HIDE DEF S
    <3> QED
      BY <3>2, <3>3, <2>2
  <2> HIDE DEF S
  <2>4. Cardinality(S \cup {c}) = Cardinality(S) + 1
    BY <2>1, <2>2, FS_AddElement
  <2>5. ctrs[b] = Cardinality(S)
    BY DEF S
  <2> QED
    BY <2>3, <2>4, <2>5, <1>3
<1> QED
  BY <1>2, <1>4, CtrsNext

\* An arena more is as many bytes more as it has.
LEMMA MmapCounts ==
  ASSUME IInv, CountInv, NEW p \in Bases, Mmap(p)
  PROVE  IsFiniteSet(ArenaBytes') /\ WithinLimit'
<1> DEFINE sz == Size[ArenaBucket]
<1>1. /\ Fresh(p, sz) /\ ~(heapAlloc + sz > HeapMax)
      /\ al' = Append(al, [p |-> p, sz |-> sz]) /\ heapAlloc' = heapAlloc + sz
  BY DEF Mmap, OverLimit
<1>2. p \in Nat /\ sz \in Nat /\ sz > 0 /\ heapAlloc \in Nat /\ HeapMax \in Nat
  <2>1. ArenaBucket \in Buckets
    BY HeapFacts, BucketAssumption DEF ArenaBucket, Buckets, TypeOK, CallTypes
  <2> QED
    BY <2>1, SizeFacts, HeapFacts, HeapAssumption DEF TypeOK, HeapTypes
<1> HIDE DEF sz
<1>n. PICK n : n = Len(al) + 1
  OBVIOUS
<1>3. /\ n \in Arenas' /\ n \notin Arenas /\ Arenas' = Arenas \cup {n}
      /\ \A i \in Arenas : al'[i] = al[i]
      /\ al'[n].p = p /\ al'[n].sz = sz
  BY <1>1, <1>2, <1>n, HeapFacts, AppendArena
<1> DEFINE New == p .. p + sz - 1
<1>4. ArenaBytes' = ArenaBytes \cup New
  <2>1. \A i \in Arenas : al'[i].p .. ArenaEnd(i)' - 1 = al[i].p .. ArenaEnd(i) - 1
    BY <1>3 DEF ArenaEnd
  <2>2. al'[n].p .. ArenaEnd(n)' - 1 = New
    <3>1. PICK e, q : e = ArenaEnd(n)' /\ q = al'[n].p
      OBVIOUS
    <3>2. e = p + sz /\ q = p
      BY <1>3, <3>1 DEF ArenaEnd
    <3> QED
      BY <3>1, <3>2, <1>2
  <2> HIDE DEF New
  <2>3. ArenaBytes' = UNION {al'[i].p .. ArenaEnd(i)' - 1 : i \in Arenas'}
    BY DEF ArenaBytes
  <2> QED
    BY <2>1, <2>2, <2>3, <1>3 DEF ArenaBytes
<1>5. ArenaBytes \cap New = {}
  <2>1. ASSUME NEW i \in Arenas, NEW x \in al[i].p .. ArenaEnd(i) - 1, x \in New PROVE FALSE
    <3>1. p + sz < al[i].p \/ ArenaEnd(i) < p
      BY <1>1 DEF Fresh, Arenas
    <3>2. al[i].p \in Nat /\ ArenaEnd(i) \in Nat
      BY HeapFacts
    <3> QED
      BY <2>1, <3>1, <3>2, <1>2
  <2> QED
    BY <2>1 DEF ArenaBytes
<1>6. IsFiniteSet(New) /\ Cardinality(New) = sz
  <2>1. PICK q \in Int : q = p + sz - 1
    BY <1>2
  <2>2. IsFiniteSet(p .. q) /\ Cardinality(p .. q) = IF p > q THEN 0 ELSE q - p + 1
    BY <1>2, FS_Interval
  <2> QED
    BY <2>1, <2>2, <1>2
<1>7. IsFiniteSet(ArenaBytes) /\ heapAlloc = Cardinality(ArenaBytes)
  BY DEF CountInv, WithinLimit
<1> HIDE DEF New
<1>8. IsFiniteSet(ArenaBytes \cup New) /\ Cardinality(ArenaBytes \cup New) = heapAlloc + sz
  <2>1. /\ IsFiniteSet(ArenaBytes \cup New)
        /\ Cardinality(ArenaBytes \cup New)
             = Cardinality(ArenaBytes) + Cardinality(New) - Cardinality(ArenaBytes \cap New)
    BY <1>6, <1>7, FS_Union
  <2>2. Cardinality(ArenaBytes \cap New) = 0
    BY <1>5, FS_EmptySet
  <2> QED
    BY <2>1, <2>2, <1>2, <1>6, <1>7
<1> QED
  BY <1>1, <1>2, <1>4, <1>8 DEF WithinLimit

\* The steps that leave the arenas alone.
LEMMA SameArenas ==
  ASSUME CountInv, UNCHANGED arenaVars
  PROVE  IsFiniteSet(ArenaBytes') /\ WithinLimit'
BY DEF CountInv, WithinLimit, ArenaBytes, Arenas, ArenaEnd, arenaVars

\* The merge uncounts a dead block when it comes to it.
LEMMA MergeEmptyCounts ==
  ASSUME IInv, CountInv, MergeEmpty
  PROVE  IsFiniteSet(heads') /\ CtrsExact'
<1> DEFINE c == scan.at
<1>1. /\ c \in heads /\ type[c] # "used" /\ mmInfo' = mmInfo /\ heads' = heads
      /\ type' = [type EXCEPT ![c] = "empty"] /\ type \in [heads -> Types]
      /\ ctrs' = IF type[c] = "freed" THEN Uncount(c) ELSE ctrs
  BY CursorBlock, HeapFacts DEF MergeEmpty, heads, TypeOK, HeapTypes
<1> HIDE DEF c
<1>2. CASE type[c] = "freed"
  <2>1. type[c] # "empty" /\ ctrs' = Uncount(c)
    BY <1>1, <1>2
  <2> QED
    BY <2>1, <1>1, FreeLinkCounts
<1>3. CASE type[c] # "freed"
  <2>1. type[c] = "empty"
    BY <1>1, <1>3 DEF Types
  <2>2. type' = type /\ ctrs' = ctrs
    BY <2>1, <1>1
  <2> QED
    BY <2>2, <1>1 DEF CountInv, CtrsExact, heads
<1> QED
  BY <1>2, <1>3

\* The headers that disappear at the end of a run are of empty blocks.
LEMMA RunEndsCounts ==
  ASSUME IInv, WasteInv, CountInv, RunEnds
  PROVE  IsFiniteSet(heads') /\ CtrsExact'
<1> DEFINE Kept == {a \in heads : Outside(a)}
<1>1. /\ pc = "merge" /\ ctrs' = ctrs
      /\ mmInfo' = [a \in Kept |-> mmInfo[a]] /\ type' = [a \in Kept |-> type[a]]
      /\ heads' = Kept
  BY DEF RunEnds, Restrict, heads
<1>2. \A a \in heads : a \notin Kept => type[a] = "empty"
  <2>1. \A a \in heads : GapStart =< a /\ a < scan.at => type[a] = "empty"
    BY <1>1 DEF WasteInv, BehindClean, Merging
  <2> QED
    BY <2>1, HeapFacts DEF Outside
<1> HIDE DEF Kept
<1>3. IsFiniteSet(heads')
  BY <1>1, FS_Subset DEF Kept, CountInv
<1>4. \A b : InUse(b, mmInfo', type') = InUse(b, mmInfo, type)
  <2>1. Kept \subseteq heads
    BY DEF Kept
  <2> QED
    BY <2>1, <1>1, <1>2 DEF InUse, heads
<1> QED
  BY <1>1, <1>3, <1>4, CtrsNow, CtrsNext DEF CountInv

\* The headers that carving writes are of empty blocks.
LEMMA CarveCounts ==
  ASSUME IInv, CountInv, Carve
  PROVE  IsFiniteSet(heads') /\ CtrsExact'
<1>1. PICK c : c = scan.at - scan.empty
  OBVIOUS
<1>2. PICK b \in Buckets :
        /\ mmInfo' = [a \in heads \cup {c} |-> IF a = c THEN b ELSE mmInfo[a]]
        /\ type' = [a \in heads \cup {c} |-> IF a = c THEN "empty" ELSE type[a]]
        /\ ctrs' = ctrs
  BY <1>1 DEF Carve
<1>3. c \notin heads
  <2>1. /\ scan.empty > 0 /\ scan.empty =< scan.at
        /\ \A a \in heads : End(a) =< c \/ scan.at =< a
    BY <1>1 DEF Carve, IInv, ScanOK, GapStart
  <2> QED
    BY <2>1, <1>1, HeapFacts
<1>4. heads' = heads \cup {c} /\ IsFiniteSet(heads')
  <2>1. heads' = heads \cup {c}
    BY <1>2 DEF heads
  <2> QED
    BY <2>1, FS_AddElement DEF CountInv
<1>5. \A k : InUse(k, mmInfo', type') = InUse(k, mmInfo, type)
  BY <1>2, <1>3 DEF InUse, heads
<1> QED
  BY <1>2, <1>4, <1>5, CtrsNow, CtrsNext DEF CountInv

\* Where allocS and allocateMore split: a block c of bucket from, outside of all
\* others, which is halved down to the bucket of the request.
SplitSite(c, from, old) ==
  /\ c \in Nat /\ from \in Buckets /\ req =< from
  /\ c \in heads => type[c] = "empty"
  /\ Halves(c, from, req) \cap heads = {}
  /\ \A a \in heads : a = c \/ End(a) =< c \/ c + Size[from] =< a
  /\ SplitAndTake(c, from, req, old, mmInfo, type)

LEMMA AllocSSite ==
  ASSUME IInv, AllocS
  PROVE  \E from, c, old : SplitSite(c, from, old)
<1>0. /\ buckets \in [Buckets -> Seq(Nat)] /\ req \in Buckets
      /\ mmInfo \in [heads -> Buckets] /\ heads \subseteq Nat
  BY HeapFacts DEF TypeOK, HeapTypes, CallTypes
<1>1. PICK from \in Buckets :
        /\ SplitSource(from)
        /\ SplitAndTake(Head(buckets[from]), from, req,
                        [buckets EXCEPT ![from] = Tail(buckets[from])], mmInfo, type)
  BY DEF AllocS
<1>2. PICK c, old : /\ c = Head(buckets[from])
                    /\ SplitAndTake(c, from, req, old, mmInfo, type)
  BY <1>1
<1>3. buckets[from] # << >> /\ req =< from
  BY <1>0, <1>1, BucketAssumption DEF SplitSource, Buckets
<1>4. c \in heads /\ c \in Nat /\ mmInfo[c] = from /\ type[c] = "empty"
  <2>1. c = Head(buckets[from]) /\ buckets[from] # << >>
    BY <1>2, <1>3
  <2> QED
    BY <2>1, <1>0, FirstListed DEF heads
<1>5. \A a \in heads : a = c \/ End(a) =< c \/ c + Size[from] =< a
  <2>1. End(c) = c + Size[from]
    BY <1>4 DEF End
  <2>2. \A a, b \in heads : a < b => End(a) =< b
    BY HeapFacts DEF NoOverlap
  <2> QED
    BY <2>1, <2>2, <1>0, <1>4
<1>6. Halves(c, from, req) \cap heads = {}
  <2>1. \A a, b \in DOMAIN mmInfo : a < b => a + Size[mmInfo[a]] =< b
    BY HeapFacts DEF NoOverlap, heads, End
  <2>2. \A a \in DOMAIN mmInfo : \/ a = c
                                 \/ a + Size[mmInfo[a]] =< c
                                 \/ c + Size[from] =< a
    BY <1>5 DEF heads, End
  <2>3. /\ mmInfo \in [DOMAIN mmInfo -> Buckets] /\ DOMAIN mmInfo \subseteq Nat
        /\ type \in [DOMAIN mmInfo -> Types]
    BY HeapFacts DEF TypeOK, HeapTypes, heads
  <2> QED
    BY <2>1, <2>2, <2>3, <1>0, <1>2, <1>3, <1>4, SplitLayout DEF heads
<1> QED
  BY <1>2, <1>3, <1>4, <1>5, <1>6 DEF SplitSite

LEMMA MmapSite ==
  ASSUME IInv, NEW p \in Bases, Mmap(p)
  PROVE  \E from, c, old : SplitSite(c, from, old)
<1>0. req \in Buckets /\ p \in Nat
  BY HeapFacts, HeapAssumption DEF TypeOK, CallTypes
<1>1. PICK from \in Buckets : from = ArenaBucket /\ req =< from /\ Size[from] \in Nat
                              /\ Size[from] > 0
  BY <1>0, BucketAssumption, SizeFacts DEF ArenaBucket, Buckets
<1>2. SplitAndTake(p, from, req, buckets, mmInfo, type) /\ Fresh(p, Size[from])
  BY <1>1 DEF Mmap
<1>3. ASSUME NEW a \in heads PROVE End(a) =< p \/ p + Size[from] =< a
  <2>1. PICK i \in Arenas : al[i].p =< a /\ End(a) =< ArenaEnd(i)
    BY HeapFacts DEF BlocksInArenas
  <2>2. p + Size[from] < al[i].p \/ ArenaEnd(i) < p
    BY <1>2, <2>1 DEF Fresh, Arenas
  <2>3. al[i].p \in Nat /\ ArenaEnd(i) \in Nat /\ a \in Nat /\ End(a) \in Nat
    BY <2>1, HeapFacts
  <2> QED
    BY <1>0, <1>1, <2>1, <2>2, <2>3
<1>4. p \notin heads
  BY <1>0, <1>1, <1>3, HeapFacts
<1>5. Halves(p, from, req) \cap heads = {}
  <2>1. \A a, b \in DOMAIN mmInfo : a < b => a + Size[mmInfo[a]] =< b
    BY HeapFacts DEF NoOverlap, heads, End
  <2>2. \A a \in DOMAIN mmInfo : \/ a = p
                                 \/ a + Size[mmInfo[a]] =< p
                                 \/ p + Size[from] =< a
    BY <1>3 DEF heads, End
  <2>3. /\ mmInfo \in [DOMAIN mmInfo -> Buckets] /\ DOMAIN mmInfo \subseteq Nat
        /\ type \in [DOMAIN mmInfo -> Types]
    BY HeapFacts DEF TypeOK, HeapTypes, heads
  <2> QED
    BY <2>1, <2>2, <2>3, <1>0, <1>1, <1>2, SplitLayout DEF heads
<1> QED
  BY <1>0, <1>1, <1>2, <1>3, <1>4, <1>5 DEF SplitSite

\* A split keeps the counters exact, wherever it happens.
LEMMA SiteCounts ==
  ASSUME IInv, CountInv, NEW from, NEW c, NEW old, SplitSite(c, from, old)
  PROVE  IsFiniteSet(heads') /\ CtrsExact'
<1>1. /\ mmInfo \in [DOMAIN mmInfo -> Buckets] /\ DOMAIN mmInfo \subseteq Nat
      /\ type \in [DOMAIN mmInfo -> Types] /\ ctrs \in [Buckets -> Int]
      /\ req \in Buckets
  BY HeapFacts DEF TypeOK, HeapTypes, CallTypes, heads
<1>2. IsFiniteSet(DOMAIN mmInfo) /\ \A b \in Buckets : ctrs[b] = Cardinality(InUse(b, mmInfo, type))
  BY CtrsNow DEF CountInv, heads
<1>3. /\ c \in Nat /\ from \in Buckets /\ req =< from
      /\ c \in DOMAIN mmInfo => type[c] = "empty"
      /\ Halves(c, from, req) \cap DOMAIN mmInfo = {}
      /\ SplitAndTake(c, from, req, old, mmInfo, type)
  BY DEF SplitSite, heads
<1> QED
  BY <1>1, <1>2, <1>3, SplitCounts

\* A block that the collector marks as dead still counts.
LEMMA GCMarkCounts ==
  ASSUME IInv, CountInv, NEW a \in heads, GCMark(a)
  PROVE  IsFiniteSet(heads') /\ CtrsExact'
<1>1. /\ mmInfo' = mmInfo /\ ctrs' = ctrs /\ heads' = heads
      /\ type[a] = "used" /\ type' = [type EXCEPT ![a] = "freed"] /\ type \in [heads -> Types]
  BY HeapFacts DEF GCMark, heads, TypeOK, HeapTypes
<1>2. \A b : InUse(b, mmInfo', type') = InUse(b, mmInfo, type)
  BY <1>1 DEF InUse, heads
<1> QED
  BY <1>1, <1>2, CtrsNow, CtrsNext DEF CountInv

\* Every step keeps the counters exact.
LEMMA CountStep == IInv /\ WasteInv /\ CountInv /\ [Next]_vars => CountInv'
<1> SUFFICES ASSUME IInv, WasteInv, CountInv, [Next]_vars PROVE CountInv'
  OBVIOUS
<1>s. ASSUME UNCHANGED <<mmInfo, type, ctrs>> PROVE IsFiniteSet(heads') /\ CtrsExact'
  BY <1>s DEF CountInv, CtrsExact, heads
<1>1. IsFiniteSet(ArenaBytes') /\ WithinLimit'
  <2>1. (\E p \in Bases : Mmap(p)) \/ UNCHANGED arenaVars
    BY DEF Next, Serve, Collect, Request, Free, GCFree, GCMark, CollectNow, SwitchGC, Signal,
           AllocL, AllocS, ThrowInterrupted, MaybeGC, ForceGC, ThrowOOM, MmapFails,
           MergeBegin, MergeEmpty, MergeUsed, RunEnds, Carve, ArenaDone, vars
  <2> QED
    BY <2>1, MmapCounts, SameArenas
<1>u. CASE UNCHANGED vars
  BY <1>u, <1>s, <1>1 DEF vars, blockVars, CountInv
<1>n. CASE Next
  <2>1. ASSUME NEW b \in Buckets, Request(b) PROVE IsFiniteSet(heads') /\ CtrsExact'
    BY <2>1, <1>s DEF Request, blockVars
  <2>2. ASSUME NEW a \in heads, Free(a) \/ GCFree(a) PROVE IsFiniteSet(heads') /\ CtrsExact'
    BY <2>2, FreeLinkCounts DEF Free, GCFree, FreeLink
  <2>3. ASSUME NEW p \in Bases, Mmap(p) PROVE IsFiniteSet(heads') /\ CtrsExact'
    <3>1. PICK from, c, old : SplitSite(c, from, old)
      BY <2>3, MmapSite
    <3> QED
      BY <3>1, SiteCounts
  <2>4. ASSUME AllocS PROVE IsFiniteSet(heads') /\ CtrsExact'
    <3>1. PICK from, c, old : SplitSite(c, from, old)
      BY <2>4, AllocSSite
    <3> QED
      BY <3>1, SiteCounts
  <2>5. ASSUME \/ CollectNow \/ SwitchGC \/ Signal \/ ThrowInterrupted \/ MaybeGC
               \/ ForceGC \/ ThrowOOM \/ MmapFails \/ MergeBegin \/ MergeUsed \/ ArenaDone
        PROVE  IsFiniteSet(heads') /\ CtrsExact'
    BY <2>5, <1>s DEF CollectNow, SwitchGC, Signal, ThrowInterrupted, MaybeGC, ForceGC,
                      ThrowOOM, MmapFails, MergeBegin, MergeUsed, ArenaDone, blockVars
  <2>6. IsFiniteSet(heads') /\ CtrsExact'
    BY <1>n, <2>1, <2>2, <2>3, <2>4, <2>5, AllocLCounts, GCMarkCounts, MergeEmptyCounts,
       RunEndsCounts, CarveCounts DEF Next, Serve, Collect
  <2> QED
    BY <2>6, <1>1 DEF CountInv
<1> QED
  BY <1>u, <1>n

-----------------------------------------------------------------------------
(* The theorems *)

\* At the start nothing is allocated, and nothing is lost.
LEMMA InitAccounts == Init => AccountsInv
<1> SUFFICES ASSUME Init PROVE AccountsInv
  OBVIOUS
<1>1. heads = {} /\ Arenas = {} /\ pc = "idle" /\ heapAlloc = 0
      /\ ctrs = [b \in Buckets |-> 0]
  BY DEF Init, heads, Arenas
<1>2. ArenaBytes = {} /\ \A b : {a \in heads : mmInfo[a] = b /\ type[a] # "empty"} = {}
  BY <1>1 DEF ArenaBytes
<1>3. IsFiniteSet({}) /\ Cardinality({}) = 0
  BY FS_EmptySet
<1>4. CtrsExact /\ WithinLimit /\ IsFiniteSet(heads) /\ IsFiniteSet(ArenaBytes)
  BY <1>1, <1>2, <1>3, HeapAssumption DEF CtrsExact, WithinLimit
<1> QED
  BY <1>1, <1>4 DEF AccountsInv, FreeListsComplete, Coalesced, BehindClean, RunAlone,
                    CarveAscends, Merging

\* The heap accounts for all it has in every reachable state.
LEMMA AccountsKept == Spec => [](IInv /\ AccountsInv)
<1>1. AccountsInv <=> WasteInv /\ CountInv
  BY DEF AccountsInv, WasteInv, CountInv
<1>2. AccountsInv' <=> WasteInv' /\ CountInv'
  BY DEF AccountsInv, WasteInv, CountInv
<1>3. Init => IInv /\ AccountsInv
  BY InitInv, InitAccounts
<1>4. IInv /\ AccountsInv /\ [Next]_vars => IInv' /\ AccountsInv'
  BY <1>1, <1>2, StepInv, WasteStep, CountStep
<1> QED
  BY <1>3, <1>4, PTL DEF Spec

\* No memory is lost or left in pieces: every empty block is on its free list,
\* except those the merge has yet to meet (freeFreedAndMerge drops all lists
\* first), and behind the merge no two neighbours could be one block.
THEOREM NothingIsWasted == Spec => []NothingWasted
<1>1. AccountsInv => NothingWasted
  BY DEF AccountsInv, NothingWasted
<1> QED
  BY <1>1, AccountsKept, PTL

\* What gc_maybeGC and allocateMore decide by is exact: the counters of the blocks in
\* use, and mm_heapAlloc, which never exceeds mm_heapMax.
THEOREM CountersStayExact == Spec => []CountersExact
<1>1. AccountsInv => CountersExact
  BY DEF AccountsInv, CountersExact
<1> QED
  BY <1>1, AccountsKept, PTL

-----------------------------------------------------------------------------
(* Out of memory *)

\* allocMore_rec is set only by a forced collection and cleared by what follows.
LEMMA RecStep == IInv /\ RecInv /\ [Next]_vars => RecInv'
<1> SUFFICES ASSUME IInv, RecInv, [Next]_vars PROVE RecInv'
  OBVIOUS
<1>0. allocMoreRec \in BOOLEAN /\ retry \in BOOLEAN /\ cut \in BOOLEAN /\ collected \in BOOLEAN
  BY HeapFacts DEF TypeOK, CallTypes
<1>1. CASE UNCHANGED vars
  BY <1>1 DEF vars, RecInv, Merging, OverLimit, ArenaBucket, arenaVars, callVars, histVars
<1>2. ASSUME NEW b \in Buckets, Request(b) PROVE RecInv'
  BY <1>2 DEF Request, RecInv, Merging
<1>3. ASSUME NEW a \in heads, Free(a) \/ GCFree(a) \/ GCMark(a) PROVE RecInv'
  BY <1>3 DEF Free, GCFree, GCMark, RecInv, Merging, OverLimit, ArenaBucket, arenaVars,
              callVars, histVars
<1>4. CASE CollectNow \/ SwitchGC \/ Signal
  BY <1>4 DEF CollectNow, SwitchGC, Signal, RecInv, Merging, OverLimit, ArenaBucket, arenaVars,
              callVars, histVars
<1>5. CASE AllocL \/ AllocS \/ \E p \in Bases : Mmap(p)
  BY <1>5, <1>0 DEF AllocL, AllocS, Mmap, Return, Over, RecInv, Merging
<1>6. CASE ThrowInterrupted \/ ThrowOOM
  BY <1>6, <1>0 DEF ThrowInterrupted, ThrowOOM, Over, RecInv, Merging
<1>7. CASE MmapFails
  BY <1>7, <1>0 DEF MmapFails, Over, RecInv, Merging
<1>8. CASE MaybeGC \/ ForceGC
  BY <1>8, <1>0 DEF MaybeGC, ForceGC, NeedMore, RecInv, Merging, OverLimit, ArenaBucket,
                    arenaVars, histVars
<1>9. ASSUME GCDone, Merging \/ pc = "collect", UNCHANGED <<arenaVars, req, cause, cut>>
      PROVE  RecInv'
  BY <1>9, <1>0 DEF GCDone, Retry, RecInv, Merging, OverLimit, ArenaBucket, arenaVars
<1>10. ASSUME Merging \/ pc = "collect", Merging' \/ pc' = "collect",
              UNCHANGED <<arenaVars, req, cause, cut, retry, allocMoreRec, collected>>
       PROVE  RecInv'
  BY <1>10, <1>0 DEF RecInv, Merging, OverLimit, ArenaBucket, arenaVars
<1>11. CASE MergeBegin \/ ArenaDone
  BY <1>11, <1>9, <1>10 DEF MergeBegin, ArenaDone, Merging
<1>12. CASE MergeEmpty \/ MergeUsed \/ RunEnds \/ Carve
  BY <1>12, <1>10 DEF MergeEmpty, MergeUsed, RunEnds, Carve, Merging, histVars
<1> QED
  BY <1>1, <1>2, <1>3, <1>4, <1>5, <1>6, <1>7, <1>8, <1>11, <1>12 DEF Next, Serve, Collect

\* "Out of memory" is thrown for want of arena space only when a collection made for
\* this request did not help, unless an interrupt left allocMore_rec set.
THEOREM RefusedAfterCollection == Spec => OOMOnlyAfterCollection
<1>1. Init => RecInv
  BY DEF Init, RecInv, Merging
<1>2. RecInv /\ [Next]_vars => [ThrowOOM => collected \/ cut]_vars
  BY DEF RecInv, ThrowOOM
<1> QED
  BY <1>1, <1>2, RecStep, Inductive, PTL DEF Spec, OOMOnlyAfterCollection

-----------------------------------------------------------------------------
(* Buddy implements Heap *)

\* the regions of the blocks in use, in a heap of blocks mm of types ty
Region(a, mm) == [start |-> a, len |-> Size[mm[a]]]
Used(mm, ty) == {a \in DOMAIN mm : ty[a] = "used"}
Live(mm, ty) == {Region(a, mm) : a \in Used(mm, ty)}

LEMMA LiveNow == AbsLive = Live(mmInfo, type) /\ AbsLive' = Live(mmInfo', type')
BY DEF AbsLive, Live, Used, Region, heads

\* As long as the same blocks are in use, the same regions are live.
LEMMA LiveSame ==
  ASSUME Used(mmInfo', type') = Used(mmInfo, type),
         \A a \in Used(mmInfo, type) : mmInfo'[a] = mmInfo[a]
  PROVE  AbsLive' = AbsLive
BY LiveNow DEF Live, Region

LEMMA LiveSameBlocks ==
  ASSUME UNCHANGED <<mmInfo, type>>
  PROVE  AbsLive' = AbsLive
BY DEF AbsLive, heads

\* A block that stops being used is a region less.
LEMMA LiveReleased ==
  ASSUME NEW a \in Used(mmInfo, type), mmInfo' = mmInfo,
         Used(mmInfo', type') = Used(mmInfo, type) \ {a}
  PROVE  \E r \in AbsLive : AbsLive' = AbsLive \ {r}
<1> DEFINE r == Region(a, mmInfo)
<1>1. r \in AbsLive
  BY LiveNow DEF Live
<1>2. \A x \in Used(mmInfo, type) : Region(x, mmInfo) = r => x = a
  BY DEF Region
<1> HIDE DEF r
<1>3. AbsLive' = AbsLive \ {r}
  <2>1. \A x \in Used(mmInfo, type) : x # a => Region(x, mmInfo) # r
    BY <1>2
  <2>2. r = Region(a, mmInfo)
    BY DEF r
  <2> QED
    BY <2>1, <2>2, LiveNow DEF Live
<1> QED
  BY <1>1, <1>3

\* A block that becomes used, apart from those that are, is a grant.
LEMMA LiveGranted ==
  ASSUME IInv, NEW c \in Nat, NEW len \in Nat, c \notin Used(mmInfo, type),
         pc = "alloc", pc' = "idle", Size[req] = len,
         mmInfo'[c] = req, Used(mmInfo', type') = Used(mmInfo, type) \cup {c},
         \A a \in Used(mmInfo, type) :
           mmInfo'[a] = mmInfo[a] /\ (End(a) =< c \/ c + len =< a)
  PROVE  Abs!Grant
<1> DEFINE r == [start |-> c, len |-> len]
<1>1. AbsLive' = AbsLive \cup {r}
  <2>1. Region(c, mmInfo') = r
    BY DEF Region
  <2>2. \A a \in Used(mmInfo, type) : Region(a, mmInfo') = Region(a, mmInfo)
    BY DEF Region
  <2> HIDE DEF r
  <2> QED
    BY <2>1, <2>2, LiveNow DEF Live
<1>2. \A s \in AbsLive : Abs!Apart(r, s)
  <2>1. ASSUME NEW a \in Used(mmInfo, type) PROVE Abs!Apart(r, Region(a, mmInfo))
    <3>1. a \in heads /\ (End(a) =< c \/ c + len =< a)
      BY DEF Used, heads
    <3>2. End(a) = a + Size[mmInfo[a]]
      BY DEF End
    <3> QED
      BY <3>1, <3>2 DEF Abs!Apart, Region
  <2> QED
    BY <2>1, LiveNow DEF Live
<1>3. AbsWant = len /\ len # 0 /\ AbsWant' = 0 /\ ~Collecting /\ Collecting' = Collecting
  <2>1. req \in Buckets
    BY HeapFacts DEF TypeOK, CallTypes
  <2> QED
    BY <2>1, SizeFacts DEF AbsWant, Collecting
<1>4. r.len = len /\ r \in AbsLive'
  BY <1>1
<1> HIDE DEF r
<1> QED
  BY <1>1, <1>2, <1>3, <1>4 DEF Abs!Grant

\* allocL with a block on the list
LEMMA AllocLGrants ==
  ASSUME IInv, AllocL
  PROVE  Abs!Grant
<1> DEFINE c == Head(buckets[req])
<1>1. /\ req \in Buckets /\ buckets[req] # << >> /\ pc = "alloc" /\ pc' = "idle"
      /\ mmInfo' = mmInfo /\ heads' = heads /\ type \in [heads -> Types]
      /\ type' = [type EXCEPT ![c] = "used"]
  BY HeapFacts DEF TypeOK, HeapTypes, CallTypes, AllocL, Return, Over, heads
<1>2. c \in heads /\ mmInfo[c] = req /\ type[c] = "empty"
  BY <1>1, FirstListed DEF heads
<1> HIDE DEF c
<1>3. PICK len \in Nat : len = Size[req]
  BY <1>1, SizeFacts
<1>4. c \in Nat /\ End(c) = c + len
  BY <1>2, <1>3, HeapFacts DEF End
<1>5. /\ c \notin Used(mmInfo, type)
      /\ Used(mmInfo', type') = Used(mmInfo, type) \cup {c}
  BY <1>1, <1>2 DEF Used, heads
<1>6. ASSUME NEW a \in Used(mmInfo, type)
      PROVE  mmInfo'[a] = mmInfo[a] /\ (End(a) =< c \/ c + len =< a)
  <2>1. a \in heads /\ a # c
    BY <1>2 DEF Used, heads
  <2>2. a < c \/ c < a
    BY <2>1, <1>4, HeapFacts
  <2>3. End(a) =< c \/ End(c) =< a
    BY <2>1, <2>2, <1>2, HeapFacts DEF NoOverlap
  <2> QED
    BY <2>3, <1>1, <1>4
<1> QED
  BY <1>1, <1>2, <1>3, <1>4, <1>5, <1>6, LiveGranted

\* a request that a split answers
LEMMA SplitGrants ==
  ASSUME IInv, NEW from, NEW c, NEW old, SplitSite(c, from, old),
         pc = "alloc", pc' = "idle"
  PROVE  Abs!Grant
<1>0. /\ mmInfo \in [DOMAIN mmInfo -> Buckets] /\ DOMAIN mmInfo \subseteq Nat
      /\ type \in [DOMAIN mmInfo -> Types] /\ req \in Buckets
  BY HeapFacts DEF TypeOK, HeapTypes, CallTypes, heads
<1>1. /\ c \in Nat /\ from \in Buckets /\ req =< from
      /\ c \in DOMAIN mmInfo => type[c] = "empty"
      /\ Halves(c, from, req) \cap DOMAIN mmInfo = {}
      /\ \A a \in heads : a = c \/ End(a) =< c \/ c + Size[from] =< a
      /\ SplitAndTake(c, from, req, old, mmInfo, type)
  BY DEF SplitSite, heads
<1>2. /\ heads' = DOMAIN mmInfo \cup Halves(c, from, req) \cup {c}
      /\ mmInfo'[c] = req /\ type'[c] = "used"
      /\ \A a \in DOMAIN mmInfo : a # c => mmInfo'[a] = mmInfo[a] /\ type'[a] = type[a]
      /\ \A k \in req .. from - 1 : type'[c + Size[k]] = "empty"
  BY <1>0, <1>1, SplitShape
<1>3. PICK len \in Nat : len = Size[req] /\ len =< Size[from]
  BY <1>0, <1>1, SizeFacts
<1>4. c \notin Used(mmInfo, type)
  BY <1>1 DEF Used
<1>5. Used(mmInfo', type') = Used(mmInfo, type) \cup {c}
  <2>1. \A a \in Halves(c, from, req) : type'[a] = "empty"
    BY <1>2 DEF Halves
  <2>2. \A a \in heads' : type'[a] = "used" <=> a = c \/ a \in Used(mmInfo, type)
    BY <2>1, <1>1, <1>2 DEF Used
  <2>3. Used(mmInfo, type) \cup {c} \subseteq heads'
    BY <1>2 DEF Used
  <2> QED
    BY <2>2, <2>3 DEF Used, heads
<1>6. ASSUME NEW a \in Used(mmInfo, type)
      PROVE  mmInfo'[a] = mmInfo[a] /\ (End(a) =< c \/ c + len =< a)
  <2>1. a \in DOMAIN mmInfo /\ a \in heads /\ a # c
    BY <1>4 DEF Used, heads
  <2>2. End(a) =< c \/ c + Size[from] =< a
    BY <2>1, <1>1
  <2>3. c + Size[from] =< a => c + len =< a
    BY <2>1, <1>0, <1>1, <1>3, SizeFacts
  <2> QED
    BY <2>1, <2>2, <2>3, <1>2
<1> QED
  BY <1>1, <1>2, <1>3, <1>4, <1>5, <1>6, LiveGranted

\* mm_free and its like release a block in use; a dead one was released before.
LEMMA FreeLinkReleases ==
  ASSUME IInv, NEW a \in heads, FreeLink(a)
  PROVE  AbsLive' = AbsLive \/ \E r \in AbsLive : AbsLive' = AbsLive \ {r}
<1>1. /\ mmInfo' = mmInfo /\ heads' = heads /\ type \in [heads -> Types]
      /\ type' = [type EXCEPT ![a] = "empty"]
  BY HeapFacts DEF FreeLink, TypeOK, HeapTypes, heads
<1>2. Used(mmInfo', type') = Used(mmInfo, type) \ {a}
  BY <1>1 DEF Used, heads
<1>3. CASE a \in Used(mmInfo, type)
  BY <1>1, <1>2, <1>3, LiveReleased
<1>4. CASE a \notin Used(mmInfo, type)
  BY <1>1, <1>2, <1>4, LiveSame
<1> QED
  BY <1>3, <1>4

\* the steps of the collection that leave the live regions alone
LEMMA MergeKeepsLive ==
  ASSUME IInv, WasteInv, MergeEmpty \/ RunEnds \/ Carve
  PROVE  AbsLive' = AbsLive
<1>0. type \in [heads -> Types] /\ mmInfo \in [heads -> Buckets]
  BY HeapFacts DEF TypeOK, HeapTypes
<1>1. CASE MergeEmpty
  <2>1. mmInfo' = mmInfo /\ type[scan.at] # "used"
        /\ type' = [type EXCEPT ![scan.at] = "empty"]
    BY <1>1 DEF MergeEmpty
  <2>2. Used(mmInfo', type') = Used(mmInfo, type)
    BY <2>1, <1>0 DEF Used, heads
  <2> QED
    BY <2>1, <2>2, LiveSame
<1>2. CASE RunEnds
  <2> DEFINE Kept == {a \in heads : Outside(a)}
  <2>1. /\ pc = "merge"
        /\ mmInfo' = [a \in Kept |-> mmInfo[a]] /\ type' = [a \in Kept |-> type[a]]
    BY <1>2 DEF RunEnds, Restrict
  <2>2. \A a \in heads : a \notin Kept => type[a] = "empty"
    <3>1. \A a \in heads : GapStart =< a /\ a < scan.at => type[a] = "empty"
      BY <2>1 DEF WasteInv, BehindClean, Merging
    <3> QED
      BY <3>1, HeapFacts DEF Outside
  <2>3. Kept \subseteq heads
    OBVIOUS
  <2> HIDE DEF Kept
  <2>4. Used(mmInfo', type') = Used(mmInfo, type)
    BY <2>1, <2>2, <2>3 DEF Used, heads
  <2>5. \A a \in Used(mmInfo, type) : mmInfo'[a] = mmInfo[a]
    BY <2>1, <2>2 DEF Used, heads
  <2> QED
    BY <2>4, <2>5, LiveSame
<1>3. CASE Carve
  <2>1. PICK c : c = scan.at - scan.empty
    OBVIOUS
  <2>2. PICK b \in Buckets :
          /\ mmInfo' = [a \in heads \cup {c} |-> IF a = c THEN b ELSE mmInfo[a]]
          /\ type' = [a \in heads \cup {c} |-> IF a = c THEN "empty" ELSE type[a]]
    BY <1>3, <2>1 DEF Carve
  <2>3. c \notin heads
    <3>1. /\ scan.empty > 0 /\ scan.empty =< scan.at
          /\ \A a \in heads : End(a) =< c \/ scan.at =< a
      BY <1>3, <2>1 DEF Carve, IInv, ScanOK, GapStart
    <3> QED
      BY <3>1, <2>1, HeapFacts
  <2>4. Used(mmInfo', type') = Used(mmInfo, type)
    BY <2>2, <2>3 DEF Used, heads
  <2>5. \A a \in Used(mmInfo, type) : mmInfo'[a] = mmInfo[a]
    BY <2>2, <2>3 DEF Used, heads
  <2> QED
    BY <2>4, <2>5, LiveSame
<1> QED
  BY <1>1, <1>2, <1>3

\* Every step of Buddy is a step of Heap, or none.
LEMMA AbsStep == IInv /\ AccountsInv /\ [Next]_vars => [Abs!Next]_Abs!vars
<1> SUFFICES ASSUME IInv, AccountsInv, [Next]_vars PROVE [Abs!Next]_Abs!vars
  OBVIOUS
<1>0. WasteInv /\ req \in Buckets /\ \A b \in Buckets : Size[b] # 0
  BY HeapFacts, SizeFacts DEF AccountsInv, WasteInv, TypeOK, CallTypes
<1>s. ASSUME AbsLive' = AbsLive, UNCHANGED <<pc, req, cause>> PROVE UNCHANGED Abs!vars
  BY <1>s DEF Abs!vars, AbsWant, Collecting
<1>1. CASE UNCHANGED vars
  BY <1>1, <1>s, LiveSameBlocks DEF vars, blockVars, callVars
<1>2. ASSUME NEW b \in Buckets, Request(b) PROVE [Abs!Next]_Abs!vars
  <2>1. AbsLive' = AbsLive
    BY <1>2, LiveSameBlocks DEF Request, blockVars
  <2>2. AbsWant = 0 /\ AbsWant' = Size[b] /\ ~Collecting /\ Collecting' = Collecting
    BY <1>2 DEF Request, AbsWant, Collecting
  <2>3. Abs!Request(Size[b]) /\ Size[b] \in {Size[k] : k \in Buckets}
    BY <2>1, <2>2 DEF Abs!Request
  <2> QED
    BY <2>3 DEF Abs!Next
<1>3. ASSUME NEW a \in heads, Free(a) \/ GCFree(a) PROVE [Abs!Next]_Abs!vars
  <2>1. FreeLink(a) /\ UNCHANGED <<pc, req, cause>> /\ (pc = "idle" \/ pc = "collect")
    BY <1>3 DEF Free, GCFree, callVars
  <2>2. CASE AbsLive' = AbsLive
    BY <2>1, <2>2, <1>s
  <2>3. CASE \E r \in AbsLive : AbsLive' = AbsLive \ {r}
    <3>1. (AbsWant = 0 \/ Collecting) /\ AbsWant' = AbsWant /\ Collecting' = Collecting
      BY <2>1 DEF AbsWant, Collecting
    <3> QED
      BY <3>1, <2>3 DEF Abs!Release, Abs!Next
  <2> QED
    BY <2>1, <2>2, <2>3, FreeLinkReleases
<1>4. ASSUME NEW a \in heads, GCMark(a) PROVE [Abs!Next]_Abs!vars
  <2>1. /\ mmInfo' = mmInfo /\ type[a] = "used" /\ type' = [type EXCEPT ![a] = "freed"]
        /\ type \in [heads -> Types] /\ UNCHANGED <<pc, req, cause>> /\ pc = "collect"
    BY <1>4, HeapFacts DEF GCMark, callVars, TypeOK, HeapTypes
  <2>2. a \in Used(mmInfo, type) /\ Used(mmInfo', type') = Used(mmInfo, type) \ {a}
    BY <2>1 DEF Used, heads
  <2>3. \E r \in AbsLive : AbsLive' = AbsLive \ {r}
    BY <2>1, <2>2, LiveReleased
  <2>4. Collecting /\ AbsWant' = AbsWant /\ Collecting' = Collecting
    BY <2>1 DEF AbsWant, Collecting
  <2> QED
    BY <2>3, <2>4 DEF Abs!Release, Abs!Next
<1>5. CASE CollectNow \/ MaybeGC \/ ForceGC
  <2>1. AbsLive' = AbsLive
    BY <1>5, LiveSameBlocks DEF CollectNow, MaybeGC, ForceGC, blockVars
  <2>2. ~Collecting /\ Collecting' /\ AbsWant' = AbsWant
    BY <1>5 DEF CollectNow, MaybeGC, ForceGC, NeedMore, AbsWant, Collecting
  <2> QED
    BY <2>1, <2>2 DEF Abs!Start, Abs!Next
<1>6. CASE SwitchGC \/ Signal
  BY <1>6, <1>s, LiveSameBlocks DEF SwitchGC, Signal, blockVars, callVars
<1>7. CASE AllocL
  BY <1>7, AllocLGrants DEF Abs!Next
<1>8. CASE AllocS
  <2>1. PICK from, c, old : SplitSite(c, from, old)
    BY <1>8, AllocSSite
  <2> QED
    BY <1>8, <2>1, SplitGrants DEF AllocS, Return, Over, Abs!Next
<1>9. ASSUME NEW p \in Bases, Mmap(p) PROVE [Abs!Next]_Abs!vars
  <2>1. PICK from, c, old : SplitSite(c, from, old)
    BY <1>9, MmapSite
  <2> QED
    BY <1>9, <2>1, SplitGrants DEF Mmap, NeedMore, Return, Over, Abs!Next
<1>10. CASE ThrowInterrupted \/ ThrowOOM \/ MmapFails
  <2>1. AbsLive' = AbsLive
    BY <1>10, LiveSameBlocks DEF ThrowInterrupted, ThrowOOM, MmapFails, blockVars
  <2>2. AbsWant # 0 /\ AbsWant' = 0 /\ ~Collecting /\ Collecting' = Collecting
    BY <1>0, <1>10 DEF ThrowInterrupted, ThrowOOM, MmapFails, NeedMore, Over, AbsWant, Collecting
  <2> QED
    BY <2>1, <2>2 DEF Abs!Refuse, Abs!Next
<1>11. ASSUME Collecting, Collecting', UNCHANGED <<req, cause>>, AbsLive' = AbsLive
       PROVE  UNCHANGED Abs!vars
  BY <1>11 DEF Abs!vars, AbsWant, Collecting
<1>12. ASSUME Collecting, GCDone, UNCHANGED <<req, cause>>, AbsLive' = AbsLive
       PROVE  Abs!Next
  <2>1. ~Collecting' /\ AbsWant' = AbsWant
    BY <1>12 DEF GCDone, AbsWant, Collecting
  <2> QED
    BY <1>12, <2>1 DEF Abs!Stop, Abs!Next
<1>13. CASE MergeBegin \/ ArenaDone
  <2>1. AbsLive' = AbsLive /\ UNCHANGED <<req, cause>> /\ Collecting
    BY <1>13, LiveSameBlocks DEF MergeBegin, ArenaDone, blockVars, Collecting
  <2>2. GCDone \/ Collecting'
    BY <1>13 DEF MergeBegin, ArenaDone, Collecting
  <2> QED
    BY <2>1, <2>2, <1>11, <1>12
<1>14. CASE MergeUsed
  BY <1>14, <1>s, LiveSameBlocks DEF MergeUsed, blockVars
<1>15. CASE MergeEmpty \/ RunEnds \/ Carve
  <2>1. Collecting /\ Collecting' /\ UNCHANGED <<req, cause>>
    BY <1>15 DEF MergeEmpty, RunEnds, Carve, Collecting
  <2> QED
    BY <2>1, <1>0, <1>11, <1>15, MergeKeepsLive
<1> QED
  BY <1>1, <1>2, <1>3, <1>4, <1>5, <1>6, <1>7, <1>8, <1>9, <1>10, <1>13, <1>14, <1>15
  DEF Next, Serve, Collect

\* Whatever is split, merged, freed and collected, mm_alloc and mm_free act as Heap
\* promises: what a request is answered with lies apart from everything live, a
\* live block changes only by being released, and none is moved.
THEOREM BuddyImplementsHeap == Spec => ImplementsHeap
<1>1. Init => Abs!Init
  BY DEF Init, Abs!Init, AbsLive, AbsWant, Collecting, heads
<1> QED
  BY <1>1, AbsStep, AccountsKept, PTL DEF Spec, ImplementsHeap, Abs!Spec

=============================================================================
