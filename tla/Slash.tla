------------------------------- MODULE Slash -------------------------------
(***************************************************************************)
(* Indices and Replicate with their inverse and Under: builtins/slash.c.   *)
(***************************************************************************)
EXTENDS Selects

CONSTANTS DenseRatio, \* results this many times longer than x are written by the dense loop (32)
          Word        \* bits of a word (64), a power of 2

ASSUME SlashAssumption == \E k \in 2..6 : Word = 2^k

Base == [err |-> FALSE] \* the call is passed on to the runtime, which is not modelled
OrElse(r, otherwise) == IF r # Base THEN r ELSE otherwise

Sum(s) == LET t[i \in 0..Len(s)] == IF i = 0 THEN 0 ELSE t[i - 1] + s[i] IN t[Len(s)]
emptyIVec == Arr(ElInt, <<0>>, <<>>, 0)

\* usum: the elements are natural numbers.
Naturals0(x) == \A i \in DOMAIN x.ra : x.ra[i] \in 0..(Chr - 1)

\* Cells of x, the i-th c[i] times.
Repeat(c, x) == LET csz == Csz(x)
                IN FlattenSeq([i \in DOMAIN c |-> FlattenSeq(Rep(c[i], SubSeq(x.ra, (i - 1) * csz + 1, i * csz)))])

reshapeToEmpty(x, n) == emptyArr(x, <<n>> \o Tail(x.sh))
zeroCells(x) == reshapeToEmpty(x, 0)

-----------------------------------------------------------------------------
\* Where are the ones of a list of bits, by its density.  Bits past the end are 0.
BIT_N(n) == (n + Word - 1) \div Word
BitAt(s, i) == IF i \in DOMAIN s THEN s[i] ELSE 0
UpTo(n) == [i \in 1..n |-> i]

\* What is written past the end of an array spoils it.
StoreAt(a, n, v, junk) == [i \in DOMAIN a |-> IF n \notin DOMAIN a THEN junk ELSE IF i = n THEN v ELSE a[i]]

\* Every index is written and those of zeros are written over; there is room for one more.
WHERE_DENSE(s, off) ==
  LET step(p, i) == [a |-> StoreAt(p.a, p.n + 1, off + i - 1, Clobbered), n |-> p.n + BitAt(s, i)]
  IN SubSeq(FoldLeft(step, [a |-> Rep(Sum(s) + 1, Clobbered), n |-> 0], UpTo(Word * BIT_N(Len(s)))).a, 1, Sum(s))

\* Word by word, the lowest bit of what is left of it.
Lowest(v) == CHOOSE b \in v : \A c \in v : b <= c
RECURSIVE TakeBits(_, _)
TakeBits(v, off) == IF v = {} THEN <<>> ELSE <<off + Lowest(v)>> \o TakeBits(v \ {Lowest(v)}, off)
BitsIn(s, from, l) == {b \in 0..(l - 1) : BitAt(s, from + b + 1) = 1}
WHERE_SPARSE(s, off) == FlattenSeq([k \in 1..BIT_N(Len(s)) |-> TakeBits(BitsIn(s, Word * (k - 1), Word), off + Word * (k - 1))])

\* Without branches: the parts of each word are added to a buffer, each with the length
\* of the part before it, where its first one will be; the sums of the buffer hold the
\* place of the current part and the bits of it that are left.
PartLens == <<Word \div 2, Word \div 4, Word \div 4>> \* of 24, 24 and 16 bits
PartOwn(c) == PartLens[c] \* mutant: each part with its own length
PartBefore(c) == PartLens[IF c = 1 THEN 3 ELSE c - 1]
PartStart(c) == Sum(SubSeq(PartLens, 1, c - 1))
bsp_fill(s) ==
  LET step(p, k) ==
        LET c == ((k - 1) % 3) + 1
            v == BitsIn(s, Word * ((k - 1) \div 3) + PartStart(c), PartLens[c])
        IN [buf |-> [p.buf EXCEPT ![p.j] = [at |-> @.at + PartBefore(c), bits |-> @.bits \cup v]], j |-> p.j + Cardinality(v)]
  IN FoldLeft(step, [buf |-> [j \in 1..(Sum(s) + 1) |-> [at |-> 0, bits |-> {}]], j |-> 1], UpTo(3 * BIT_N(Len(s)))).buf
BSP_WRITE(buf, n, off) ==
  LET step(t, j) == LET v == t.bits \cup buf[j].bits  at == t.at + buf[j].at
                    IN [at |-> at, bits |-> v \ {Lowest(v)}, dst |-> Append(t.dst, at + Lowest(v))]
  IN FoldLeft(step, [at |-> off - PartLens[3], bits |-> {}, dst |-> <<>>], UpTo(n)).dst
BspWhere(s, off) == BSP_WRITE(bsp_fill(s), Sum(s), off)

DenseFrom(n) == (n \div 4) + (n \div 8)
SparseBelow(n) == n \div 4 \* 1/128 of the length
where_block(s, off) ==
  IF Sum(s) >= DenseFrom(Len(s)) THEN WHERE_DENSE(s, off)
  ELSE IF Sum(s) >= SparseBelow(Len(s)) THEN BspWhere(s, off) ELSE WHERE_SPARSE(s, off)

where_block_i32(s, off) ==
  IF Sum(s) >= Len(s) \div 2 THEN WHERE_DENSE(s, off)
  ELSE IF Sum(s) >= SparseBelow(Len(s)) THEN BspWhere(s, off) ELSE WHERE_SPARSE(s, off)

\* A long list in blocks of bsp_max bits.
bsp_max == 2 * Word
ByBlocks(s, Where(_, _)) ==
  FlattenSeq([k \in 1..((Len(s) + bsp_max - 1) \div bsp_max) |->
    Where(SubSeq(s, bsp_max * (k - 1) + 1, MinOf(bsp_max * k, Len(s))), bsp_max * (k - 1))])

\* mutant: one index too many for a byte
IndexTypeLate(n) == IF n <= I8Max + 2 THEN ElI8 ELSE ElInt
\* Indices: their type by how far they reach.
IndexType(n) == IF n <= I8Max + 1 THEN ElI8 ELSE ElInt
I16Len == 2 * (I8Max + 1) \* indices of longer lists are not i16 (32768)
WhereList(s) ==
  IF Len(s) <= I8Max + 1 THEN WHERE_SPARSE(s, 0)
  ELSE IF Len(s) > I16Len THEN ByBlocks(s, where_block_i32)
  ELSE IF Sum(s) >= DenseFrom(Len(s)) THEN WHERE_DENSE(s, 0)
  ELSE IF Sum(s) >= SparseBelow(Len(s)) THEN ByBlocks(s, BspWhere) ELSE WHERE_SPARSE(s, 0)
where(x) == Arr(IndexType(Ia(x)), <<Sum(x.ra)>>, FitAll(IndexType(Ia(x)), WhereList(x.ra)), 0)

-----------------------------------------------------------------------------
\* Compress: all cells, none, or some.  Trailing zeros are cut off first.
Trimmed(s) == LET last == {i \in DOMAIN s : s[i] # 0} IN IF last = {} THEN 0 ELSE FoldLeft(MaxOf, 0, SetToSeq(last))

\* Cells of x that follow each other are copied together.
RECURSIVE compress_grouped(_, _, _)
compress_grouped(t, x, i) ==
  LET ones == {k \in DOMAIN t : k >= i /\ t[k] = 1}
      i0 == Lowest(ones)
      i1 == Lowest({k \in i0..(Len(t) + 1) : k \notin ones})
  IN IF ones = {} THEN <<>> ELSE SubSeq(x.ra, (i0 - 1) * Csz(x) + 1, (i1 - 1) * Csz(x)) \o compress_grouped(t, x, i1)

\* Bits go through a word that is stored when it is full, and shifted down at the end.
CompressBits(t, x) ==
  LET step(p, i) == LET o == Append(Tail(p.o), x.ra[i + 1])
                    IN [o |-> o, r |-> IF (p.n + 1) % Word = 0 THEN p.r \o o ELSE p.r, n |-> p.n + 1]
      end == FoldLeft(step, [o |-> Rep(Word, 0), r |-> <<>>, n |-> 0], WHERE_SPARSE(t, 0))
      q == (-end.n) % Word
  IN IF q = 0 THEN end.r ELSE end.r \o SubSeq(end.o, q + 1, Word)

NthCell(x, i) == SubSeq(x.ra, i * Csz(x) + 1, (i + 1) * Csz(x))
CompressBlocks(t, x) == LET at == ByBlocks(t, where_block) IN FlattenSeq([k \in DOMAIN at |-> NthCell(x, at[k])])

\* Every cell is written, those of zeros are written over, and there is no room for more:
\* the last bit is a one.
CompressDense(t, x) ==
  LET step(p, i) == [a |-> StoreAt(p.a, p.n + 1, NthCell(x, i - 1), <<Clobbered>>), n |-> p.n + t[i]]
  IN FlattenSeq(FoldLeft(step, [a |-> Rep(Sum(t), <<Clobbered>>), n |-> 0], UpTo(Len(t))).a)

\* groups_lt: how often the bits change, at most the length by 16 or 128.
FewGroups(t) == Cardinality({i \in 1..(Word * BIT_N(Len(t))) : BitAt(t, i) # BitAt(t, i - 1)}) <= Len(t) \div 4
\* Cells of a byte and of more, by density and by runs.
CompressBytes(t, x) == IF Sum(t) < Len(t) \div 2 THEN CompressBlocks(t, x)
                       ELSE IF FewGroups(t) THEN compress_grouped(t, x, 1) ELSE CompressDense(t, x)
CompressWide(t, x) == IF Sum(t) >= Len(t) \div 8 /\ FewGroups(t) THEN compress_grouped(t, x, 1) ELSE CompressBlocks(t, x)

\* The cells the typed loops copy whole; others are copied by compress_grouped.
TypedCells(x) == Csz(x) = 1 \/ (x.el \in {ElI8, ElInt, ElC8} /\ Csz(x) = 2)
Compressed(t, x) ==
  IF ~TypedCells(x) THEN compress_grouped(t, x, 1)
  ELSE IF x.el = ElBit THEN CompressBits(t, x)
  ELSE IF x.el = ElB THEN CompressBlocks(t, x)
  ELSE IF x.el = ElInt THEN CompressWide(t, x) ELSE CompressBytes(t, x)

Untrimmed(w) == w.ra \* mutant: the zeros at the end stay
UpToLast(w) == SubSeq(w.ra, 1, Trimmed(w.ra))
compress(w, x) ==
  LET t == UpToLast(w)  s == Sum(t)
  IN IF s = 0 THEN zeroCells(x)
     ELSE IF s = Ia(w) THEN x
     ELSE IF Ia(x) = 0 THEN reshapeToEmpty(x, s)
     ELSE Arr(x.el, <<s>> \o Tail(x.sh), Compressed(t, x), x.fill)

-----------------------------------------------------------------------------
\* Indices.  Trailing zeros do not count in the dense loop.
slash_c1(x) ==
  LET s == Sum(x.ra)
      y == IF x.el # ElBit /\ s <= Ia(x) THEN squeeze_try(x, TRUE) ELSE x
      r == FlattenSeq([i \in DOMAIN x.ra |-> Rep(x.ra[i], i - 1)])
      type == IF y.el > ElInt \/ s \div DenseRatio <= Ia(x) THEN ElInt ELSE IndexType(Trimmed(x.ra))
  IN IF x.at \/ Rnk(x) # 1 THEN Err
     ELSE IF ~Naturals0(x) THEN Err
     ELSE IF s >= UszMax THEN Err
     ELSE IF s = 0 THEN emptyIVec
     ELSE IF y.el = ElBit THEN where(y)
     ELSE Arr(type, <<s>>, FitAll(type, r), 0)

-----------------------------------------------------------------------------
\* Replicate.  The product of the number of cells and their size is not checked by the
\* loop for cells that are not copied whole.
Wrapped(n) == n % (UszMax + 1)
CellLoop(c, s, x) == Arr(x.el, <<s>> \o Tail(x.sh), SubSeq(Repeat(c, x), 1, Wrapped(s * Csz(x))), x.fill)

slash_list(w, x) ==
  LET s == Sum(w.ra)
      w1 == squeeze_try(w, TRUE)
  IN IF x.at \/ Rnk(x) = 0 THEN Err
     ELSE IF Ia(w) # x.sh[1] THEN Err
     ELSE IF w.el = ElBit THEN compress(w, x)
     ELSE IF ~Naturals0(w) THEN Err
     ELSE IF s >= UszMax THEN Err
     ELSE IF ~TypedCells(x) THEN CellLoop(w.ra, s, x)
     ELSE IF s = 0 THEN zeroCells(x)
     ELSE IF s <= Ia(w) /\ w1.el = ElBit THEN compress(w1, x)
     ELSE CellLoop(w.ra, s, x)

slash_atom(wv, x) ==
  LET n == x.sh[1]
  IN IF wv >= Chr THEN Base
     ELSE IF wv < 0 THEN Err
     ELSE IF x.at \/ Rnk(x) = 0 THEN Err
     ELSE IF wv = 1 \/ n = 0 THEN x
     ELSE IF wv = 0 THEN zeroCells(x)
     ELSE IF n * wv > UszMax THEN Err
     ELSE CellLoop(Rep(n, wv), n * wv, x)

slash_simple(w, x) ==
  LET w1 == IF w.el <= ElInt THEN w ELSE squeeze_try(w, TRUE)
  IN IF w.at THEN slash_atom(w.ra[1], x)
     ELSE IF w1.el > ElInt THEN Base
     ELSE IF Rnk(w) > 1 THEN Err
     ELSE IF Rnk(w) = 0 THEN slash_atom(w.ra[1], x)
     ELSE IF Ia(w) = 0 THEN m_unit(x)
     ELSE slash_list(w1, x)

\* w may also be a list of one array.
slash_c2(w, x) ==
  IF "items" \notin DOMAIN w THEN slash_simple(w, x)
  ELSE IF Len(w.items) # 1 THEN Base
  ELSE LET e == w.items[1]
       IN IF ~e.at /\ (e.el > ElInt \/ Ia(e) = 0) THEN Base ELSE slash_simple(e, x)

-----------------------------------------------------------------------------
\* Indices inverse: how often each number occurs
Counts(s, n) == [k \in 1..n |-> Cardinality({i \in DOMAIN s : s[i] = k - 1})]
Highest(s) == FoldLeft(MaxOf, s[1], s)
LeadingOnes(s) == Cardinality({i \in DOMAIN s : \A j \in 1..i : s[j] = 1})
FirstOne(s) == Cardinality({i \in DOMAIN s : \A j \in 1..i : s[j] = 0})

OnesIn(x) ==
  IF Dsc \in x.fl THEN LeadingOnes(x.ra) ELSE IF Asc \in x.fl THEN Ia(x) - FirstOne(x.ra) ELSE Sum(x.ra)
SqueezedList(s) == SqueezeTo(Arr(ElInt, <<Len(s)>>, s, 0), SmallestEl(s))
CountsOfOnes(n, sum) == SqueezedList(IF sum > 0 THEN <<n - sum, sum>> ELSE <<n>>)
BitCounts(x) == CountsOfOnes(Ia(x), OnesIn(x))

\* Counts of a sorted list, in i8 with an overflow list for the counts that need more.
sorted_count(s, n) ==
  LET c == Counts(s, n)
  IN FlSet(Arr(IF Highest(c) <= I8Max THEN ElI8 ELSE ElInt, <<n>>, c, 0), {Squoze})

IntCounts(x, wide) ==
  LET s == x.ra
      a == Cardinality({i \in DOMAIN s : \A j \in 2..i : s[j] > s[j - 1]})
      n == Highest(s) + 1
      unique == Cardinality({s[i] : i \in DOMAIN s}) = Ia(x)
      c == Counts(s, n)
  IN IF s[1] < 0 THEN Err
     ELSE IF a < Ia(x) /\ Asc \in x.fl /\ ~wide THEN sorted_count(s, s[Ia(x)] + 1)
     ELSE IF \E i \in DOMAIN s : s[i] < 0 THEN Err
     ELSE IF n > UszMax THEN Err
     ELSE IF a = Ia(x) \/ (unique /\ ~wide /\ Ia(x) < n \div 8) THEN Arr(ElBit, <<n>>, FitAll(ElBit, c), 0)
     ELSE IF wide THEN Arr(ElInt, <<n>>, c, 0)
     ELSE SqueezedList(c)

\* `wide`: x is of floats, whose counts are not squeezed.
slash_im(x, wide) ==
  LET y == IF x.el <= ElInt THEN x ELSE squeeze_try(x, TRUE)
  IN IF x.at \/ Rnk(x) # 1 THEN Err
     ELSE IF Ia(x) = 0 THEN emptyIVec
     ELSE IF y.el > ElInt THEN Err
     ELSE IF y.el = ElBit THEN BitCounts(y) ELSE IntCounts(y, wide /\ y.el = ElInt)

-----------------------------------------------------------------------------
\* F under w replicating: the elements of x at the 1s of w become those of rep.
Blend(w, x, rep, ru) ==
  LET el == ElOr(x.el, rep.el)
      at(i) == Sum(SubSeq(w, 1, i))
  IN Modified(x, el, ru, [i \in DOMAIN x.ra |-> Fit(el, IF w[i] = 1 THEN rep.ra[at(i)] ELSE x.ra[i])], TRUE)

UncountedFirst(w, rep) == \* mutant: the copies are not compared
  LET at(i) == Sum(SubSeq(w, 1, i - 1))
      used == SelectSeq([i \in DOMAIN w |-> i], LAMBDA i : w[i] # 0)
      s == [k \in DOMAIN used |-> rep.ra[at(used[k]) + 1]]
  IN [rep EXCEPT !.sh = <<Len(s)>>, !.ra = s]
\* An element copied several times must come back as equal elements.
Uncounted(w, rep) ==
  LET at(i) == Sum(SubSeq(w, 1, i - 1))
      clash == \E i \in DOMAIN w : \E j \in 2..w[i] : rep.ra[at(i) + j] # rep.ra[at(i) + 1]
      used == SelectSeq([i \in DOMAIN w |-> i], LAMBDA i : w[i] # 0)
      s == [k \in DOMAIN used |-> rep.ra[at(used[k]) + 1]]
  IN IF clash THEN Err ELSE [rep EXCEPT !.sh = <<Len(s)>>, !.ra = s]

\* rep: what F made of the replication. one: an element of it for each of x that was copied.
Nonzero(w) == [i \in DOMAIN w.ra |-> IF w.ra[i] # 0 THEN 1 ELSE 0]
BlendOne(w, x, el, one, ru) == IF IsErr(one) THEN Unmodified(x, Err) ELSE Blend(Nonzero(w), x, [one EXCEPT !.el = el], ru)
BlendBack(w, ria, rep, x, ru) ==
  IF IsErr(rep) THEN Unmodified(x, Err)
  ELSE IF rep.at \/ Rnk(rep) # 1 \/ Ia(rep) # ria THEN Unmodified(x, Err)
  ELSE BlendOne(w, x, rep.el, IF w.el = ElBit THEN rep ELSE Uncounted(w.ra, rep), ru)
BlendApplied(w, F, arg, x, ru) == IF IsErr(arg) THEN Unmodified(x, Err) ELSE BlendBack(w, Ia(arg), Apply(F, arg), x, ru)
\* `const` is what F makes of every element, NoFill when the code does not see it.
slash_ucw(w0, F, const, x, ru) ==
  LET w == IF w0.el = ElBit THEN w0 ELSE squeeze_try(w0, TRUE)
  IN IF w0.at \/ x.at \/ Rnk(w0) # 1 \/ Rnk(x) # 1 \/ Ia(w0) # Ia(x) THEN Unmodified(x, Base)
     ELSE IF w.el > ElInt THEN Unmodified(x, Base)
     ELSE IF ~Naturals0(w) THEN Unmodified(x, Err)
     ELSE IF const # NoFill THEN Blend(Nonzero(w), x, Arr(SelfElType(const), <<Ia(x)>>, Rep(Ia(x), const), NoFill), ru)
     ELSE BlendApplied(w, F, slash_c2(w, x), x, ru)
=============================================================================
