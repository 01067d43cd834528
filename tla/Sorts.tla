------------------------------- MODULE Sorts -------------------------------
(***************************************************************************)
(* Sort, Grade and Bins: builtins/grade.h, included twice by               *)
(* builtins/sort.c, once with `up` true and once with it false, and        *)
(* grade_bool of builtins/slash.c.  Which method sorts a typed array is a  *)
(* matter of its length: here it is the argument `how`.                    *)
(***************************************************************************)
EXTENDS Slash, Ordering

Before(a, b, up) == IF up THEN a < b ELSE a > b

CellBefore(a, b, up) == compareF(a, b) = (IF up THEN -1 ELSE 1)

\* The stable order of n things, counted from 0, by the pairs <<i, j>> of which i is
\* less than j (the merge sort of module TimSort).
OrderBy(n, less) ==
  LET pos(i) == Cardinality({j \in 1..n : <<j, i>> \in less \/ (j < i /\ <<i, j>> \notin less)}) + 1
  IN [p \in 1..n |-> (CHOOSE i \in 1..n : pos(i) = p) - 1]

-----------------------------------------------------------------------------
\* Insertion sort, from the right, past elements that are strictly after.
RECURSIVE Sunk(_, _, _, _, _)
Sunk(g, j, s, i, up) == IF j > 0 /\ Before(s[i + 1], s[g[j] + 1], up) THEN Sunk(g, j - 1, s, i, up)
                        ELSE SubSeq(g, 1, j) \o <<i>> \o SubSeq(g, j + 1, Len(g))
INSERTION_SORT(s, up) == FoldLeft(LAMBDA g, i : Sunk(g, i - 1, s, i - 1, up), <<>>, [i \in DOMAIN s |-> i])

-----------------------------------------------------------------------------
\* Radix sort: the number v as `passes` digits, the last of them signed
Radix == 2 * (I8Max + 1)
Digit(v, p, passes) == IF p = passes THEN (v \div Radix^(p - 1)) + I8Max + 1 ELSE (v \div Radix^(p - 1)) % Radix

\* All counts lie one after the other and are summed in one go: a pass starts from -n
\* going up, and from n going down, where counts are subtracted.
RadixSums(s, passes, up) ==
  LET n == Len(s)
      start(k) == IF up THEN (IF k > 1 /\ (k - 1) % Radix = 0 THEN -n ELSE 0)
                  ELSE IF (k - 1) % Radix = 0 THEN n ELSE 0
      hits(k) == Cardinality({<<i, p>> \in (DOMAIN s) \X (1..passes) :
                                (p - 1) * Radix + Digit(s[i], p, passes) + (IF up THEN 2 ELSE 1) = k})
      c == [k \in 1..(passes * Radix) |-> start(k) + (IF up THEN hits(k) ELSE -hits(k))]
  IN [k \in DOMAIN c |-> Sum(SubSeq(c, 1, k))]

\* Characters are unsigned: the two halves of the last digit's offsets change places.
flip_sum(c, n, base, up) ==
  LET half == I8Max + 1
      o == IF up THEN c[base + half + 1] ELSE c[base + half]
      low(k) == k \in (base + 1)..(base + half)
      high(k) == k \in (base + half + 1)..(base + Radix)
  IN [k \in DOMAIN c |-> IF IF up THEN high(k) ELSE low(k) THEN c[k] - o
                         ELSE IF low(k) \/ high(k) THEN c[k] + n - o ELSE c[k]]
RadixPass(g, s, p, passes, offs) ==
  LET key(i) == (p - 1) * Radix + Digit(s[i + 1], p, passes) + 1
      place(st, i) == [r |-> [st.r EXCEPT ![st.c[key(i)] + 1] = i], c |-> [st.c EXCEPT ![key(i)] = @ + 1]]
  IN FoldLeft(place, [r |-> [k \in DOMAIN s |-> 0], c |-> offs], g).r

RadixPasses(s, passes, offs) ==
  FoldLeft(LAMBDA g, p : RadixPass(g, s, p, passes, offs), [i \in DOMAIN s |-> i - 1], [p \in 1..passes |-> p])
RADIX_SORT(s, passes, ch, up) ==
  LET n == Len(s)
      offs(sums) == IF ch THEN flip_sum(sums, n, (passes - 1) * Radix, up) ELSE sums
  IN RadixPasses(s, passes, offs(RadixSums(s, passes, up)))

-----------------------------------------------------------------------------
\* Counting sort, which gives values; the values of characters come in two halves.
COUNTING_SORT(s, ch, up) ==
  LET h == I8Max + 1
      order == [j \in 1..Radix |-> IF up THEN j - 1 ELSE Radix - j]
      seen(j) == IF ch THEN (j + h) % Radix ELSE j
      value(j) == seen(j) - h
  IN FlattenSeq([k \in DOMAIN order |->
       Rep(Cardinality({i \in DOMAIN s : s[i] = value(order[k])}), value(order[k]))])

\* A grade of 4-byte numbers in a small range: first as a permutation, which is taken
\* for one when its range and sum fit, and checked after; then by buckets.
GradeInRange(s, min, max, up) ==
  LET n == Len(s)
      range == max - min + 1
      inv == FoldLeft(LAMBDA r, i : [r EXCEPT ![(IF up THEN s[i] - min ELSE max - s[i]) + 1] = i - 1],
                      Rep(n, n), [i \in DOMAIN s |-> i])
      before(i) == Cardinality({j \in DOMAIN s : Before(s[j], s[i], up) \/ (s[j] = s[i] /\ j < i)})
      buckets == [p \in 1..n |-> (CHOOSE i \in DOMAIN s : before(i) = p - 1) - 1]
      fits == range = n /\ Sum(s) = (n * (min + max)) \div 2
  IN IF fits /\ \A k \in 1..n : inv[k] # n THEN inv ELSE buckets
RangeGrade(s, up) == GradeInRange(s, FoldLeft(MinOf, s[1], s), FoldLeft(MaxOf, s[1], s), up)

-----------------------------------------------------------------------------
\* Characters are stored as small signed numbers: this is what the bytes hold.
Stored1(s, ch) == IF ch THEN [i \in DOMAIN s |-> ((s[i] - Chr + I8Max + 1) % Radix) - I8Max - 1] ELSE s
TwoDigits(s) == \A i \in DOMAIN s : s[i] \in -(Radix * (I8Max + 1))..(Radix * (I8Max + 1) - 1)
OneDigit(s, ch) == ~ch \/ \A i \in DOMAIN s : s[i] - Chr < Radix

TypedGrade(s, el, how, up) ==
  LET ch == el = ElC8
  IN IF el = ElB THEN OrderBy(Len(s), {p \in (1..Len(s)) \X (1..Len(s)) : Before(s[p[1]], s[p[2]], up)})
     ELSE IF how = "radix" /\ IF el = ElInt THEN TwoDigits(s) ELSE OneDigit(s, ch)
     THEN RADIX_SORT(Stored1(s, ch), IF el = ElInt THEN 2 ELSE 1, ch, up)
     ELSE IF how = "range" /\ el = ElInt /\ Highest(s) - FoldLeft(MinOf, s[1], s) + 1 < 2 * Len(s) THEN RangeGrade(s, up)
     ELSE INSERTION_SORT(s, up)

\* grade_bool: the places of the 0s and of the 1s.
grade_bool(s, up) ==
  LET of(v) == SelectSeq([i \in DOMAIN s |-> i - 1], LAMBDA i : s[i + 1] = v)
  IN IF up THEN of(0) \o of(1) ELSE of(1) \o of(0)

\* Range: shared constants up to 2, else marked as ascending.
bitUD(n) == IF n = 0 THEN emptyIVec ELSE Arr(ElBit, <<n>>, [k \in 1..n |-> k - 1], 0)
ud_atom(n) == IF n <= 2 THEN bitUD(n)
              ELSE FlSet(Arr(IndexType(n), <<n>>, [k \in 1..n |-> k - 1], 0), {Asc, Squoze})
FlagOfUp(up) == Asc \* mutant: the flag of the ascending sort for both
SortedFlag(up) == IF up THEN Asc ELSE Dsc

-----------------------------------------------------------------------------
\* toKCells: the arrays after the first k axes.
KCells(x, k) == LET sh == EndsWith(x.sh, k)  csz == Prod(sh)
                IN [i \in 1..Prod(SubSeq(x.sh, 1, k)) |-> Arr(x.el, sh, SubSeq(x.ra, (i - 1) * csz + 1, i * csz), x.fill)]
CellsOf(x) == KCells(x, 1)
OrderOfCells(c, up) ==
  OrderBy(Len(c), {p \in (1..Len(c)) \X (1..Len(c)) : CellBefore(c[p[1]], c[p[2]], up)})
CellOrder(x, up) == OrderOfCells(CellsOf(x), up)

AsChars(c) == [k \in DOMAIN c |-> Chr + (c[k] % Radix)]
ListOrder(s, g) == [k \in DOMAIN s |-> s[g[k] + 1]]
TypedSort(x, how, up) ==
  LET n0 == IF up THEN Ia(x) - Sum(x.ra) ELSE Sum(x.ra)
      ch == x.el = ElC8
      counts(c) == IF ch THEN AsChars(c) ELSE c
  IN IF x.el = ElBit THEN [k \in 1..Ia(x) |-> IF (k <= n0) = up THEN 0 ELSE 1]
     ELSE IF how = "count" /\ x.el \in {ElI8, ElC8} /\ OneDigit(x.ra, ch) THEN counts(COUNTING_SORT(Stored1(x.ra, ch), ch, up))
     ELSE ListOrder(x.ra, TypedGrade(x.ra, x.el, how, up))
CellsInOrder(x, g) == FlattenSeq([k \in DOMAIN g |-> CellsOf(x)[g[k] + 1].ra])
sort_c1(x, how, up) ==
  LET n == Ia(x)
  IN IF x.at \/ Rnk(x) = 0 THEN Err
     ELSE IF n <= 1 \/ SortedFlag(up) \in x.fl THEN x
     ELSE IF Rnk(x) # 1 /\ n # x.sh[1]
     THEN IF x.sh[1] <= 1 THEN x
          ELSE Arr(x.el, x.sh, CellsInOrder(x, CellOrder(x, up)), x.fill)
     ELSE FlSet(Arr(x.el, x.sh, TypedSort(x, how, up), x.fill), {SortedFlag(up)})

grade_c1(x, how, up) ==
  LET n == x.sh[1]
      typed(g) == LET el == IndexType(n) IN Arr(el, <<n>>, FitAll(el, g), 0)
      swap == IF Ia(x) # n THEN CellBefore(CellsOf(x)[2], CellsOf(x)[1], up) ELSE Before(x.ra[2], x.ra[1], up)
  IN IF x.at \/ Rnk(x) = 0 THEN Err
     ELSE IF Ia(x) <= 1 \/ SortedFlag(up) \in x.fl \/ n <= 1 THEN ud_atom(n)
     ELSE IF n = 2 THEN Arr(ElBit, <<2>>, IF swap THEN <<1, 0>> ELSE <<0, 1>>, 0)
     ELSE typed(IF Ia(x) # n THEN CellOrder(x, up) ELSE IF x.el = ElBit THEN grade_bool(x.ra, up)
                ELSE TypedGrade(x.ra, x.el, how, up))

isSorted(s, up) == \A i \in 2..Len(s) : ~Before(s[i], s[i - 1], up)

-----------------------------------------------------------------------------
\* Bins: how many elements of w are not after each element of x

bit_boundary(s, up) == Cardinality({i \in DOMAIN s : \A j \in 1..i : s[j] = (IF up THEN 0 ELSE 1)})

\* A search without branches halves the length; the other halves the interval.
RECURSIVE Halving(_, _, _, _, _)
Halving(w, c, s, l, up) ==
  LET h == l \div 2
  IN IF h = 0 THEN s ELSE Halving(w, c, IF Before(c, w[s + h], up) THEN s ELSE s + h, l - h, up)
RECURSIVE Bisect(_, _, _, _, _)
Bisect(w, c, s, e, up) ==
  LET m == (s + e) \div 2
  IN IF e - s <= 1 THEN s
     ELSE IF Before(c, w[m], up) THEN Bisect(w, c, s, m, up) ELSE Bisect(w, c, m, e, up)

SaturatedUnadjusted(w, x, up) == \* mutant: no adjustment
  [i \in DOMAIN x |-> Halving(w, MaxOf(-(I8Max + 1), MinOf(I8Max, x[i])), 0, Len(w) + 1, up)]

\* x narrowed to the type of w: what is out of range becomes its nearest end, and what
\* was past the end that w starts with must not be counted as equal to it.
SaturatedBins(w, x, up) ==
  LET lo == -(I8Max + 1)
      pre == IF up THEN lo ELSE I8Max
      sat(v) == MaxOf(lo, MinOf(I8Max, v))
      keep(v) == w[1] # pre \/ ~Before(v, pre, up)
  IN [i \in DOMAIN x |-> IF keep(x[i]) THEN Halving(w, sat(x[i]), 0, Len(w) + 1, up) ELSE 0]
\* Characters are widened to the largest kind.
NumBins(w, x, narrow, up) ==
  IF w.el < x.el /\ narrow /\ x.el <= ElInt THEN SaturatedBins(w.ra, x.ra, up)
  ELSE [i \in DOMAIN x.ra |-> Halving(w.ra, x.ra[i], 0, Ia(w) + 1, up)]

BinsType(n) == IF n <= I8Max THEN ElI8 ELSE ElInt
Zeros(sh) == FlSet(Arr(ElBit, sh, Rep(Prod(sh), 0), 0), {Asc, Dsc, Squoze})
All(n, sh) == IF Prod(sh) = 0 THEN Zeros(sh) ELSE Reshaped(reshape_one(Prod(sh), n), sh)

\* Bits in w have one boundary; bits in x have two results.
BitBins(w, x, up) ==
  LET c1 == bit_boundary(w.ra, up)
      two == IF up THEN <<0, 1>> ELSE <<1, 0>>
      three == <<0, c1, Ia(w)>>
      at(v) == Halving(w.ra, v, 0, Ia(w) + 1, up)
  IN IF w.el = ElBit
     THEN IF x.el = ElBit THEN bit_sel(x, IF up THEN c1 ELSE Ia(w), IF up THEN Ia(w) ELSE c1)
          ELSE LET s == [i \in DOMAIN x.ra |-> three[Halving(two, x.ra[i], 0, 3, up) + 1]]
               IN Arr(SmallestEl(three), x.sh, s, 0)
     ELSE bit_sel(x, at(0), at(1))

Bins(w, x, narrow, up) ==
  LET wia == Ia(w)  typed == w.el < ElB /\ x.el < ElB
      le(v) == IF Before(v, w.ra[1], up) THEN 0 ELSE 1
      num(y) == y.el <= ElInt
  IN IF wia = 0 \/ Ia(x) = 0 THEN Zeros(x.sh)
     ELSE IF wia = 1 THEN Arr(ElBit, x.sh, [i \in DOMAIN x.ra |-> le(x.ra[i])], 0)
     ELSE IF SortedFlag(up) \notin w.fl /\ ~isSorted(w.ra, up) THEN Err
     ELSE IF typed /\ num(w) # num(x) THEN All(IF num(w) = up THEN wia ELSE 0, x.sh)
     ELSE IF typed /\ num(w) /\ (w.el = ElBit \/ x.el = ElBit) THEN BitBins(w, x, up)
     ELSE IF typed THEN Arr(BinsType(wia), x.sh, FitAll(BinsType(wia), NumBins(w, x, narrow, up)), 0)
     ELSE Arr(ElInt, x.sh, [i \in DOMAIN x.ra |-> Bisect(w.ra, x.ra[i], 0, wia + 1, up)], 0)

\* Cells of w are compared with the cells of x of the same rank.
RECURSIVE BisectCells(_, _, _, _, _)
BisectCells(w, c, s, e, up) ==
  LET m == (s + e) \div 2
  IN IF e - s <= 1 THEN s
     ELSE IF CellBefore(c, w[m], up) THEN BisectCells(w, c, s, m, up) ELSE BisectCells(w, c, m, e, up)
CellsSorted(c, up) == \A i \in 2..Len(c) : ~CellBefore(c[i], c[i - 1], up)

CellBins(w, x, up) ==
  LET k == Rnk(x) - Rnk(w) + 1
      rsh == SubSeq(x.sh, 1, k)
      n == w.sh[1]
      s == [i \in 1..Prod(rsh) |-> BisectCells(CellsOf(w), KCells(x, k)[i], 0, n + 1, up)]
  IN IF n = 0 \/ Prod(rsh) = 0 THEN Zeros(rsh)
     ELSE IF n > 1 /\ ~CellsSorted(CellsOf(w), up) THEN Err
     ELSE IF n = 1 THEN Arr(ElBit, rsh, s, 0) ELSE Arr(ElInt, rsh, s, 0)

grade_c2(w, x, narrow, up) ==
  IF w.at \/ Rnk(w) = 0 THEN Err
  ELSE IF Rnk(w) = 1 THEN Bins(w, m_unit(x), narrow, up)
  ELSE IF Rnk(w) > Rnk(x) + 1 THEN Err
  ELSE CellBins(w, m_unit(x), up)
=============================================================================
