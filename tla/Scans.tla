------------------------------- MODULE Scans -------------------------------
(***************************************************************************)
(* Scan: builtins/scan.c without SIMD, and the scanning of cells           *)
(* (builtins/cells.c).  Lists of bits are scanned a word at a time; the    *)
(* bits of the last word past the end hold anything, here all `junk`.      *)
(***************************************************************************)
EXTENDS Searches

BitIn(s, i, junk) == IF i <= Len(s) THEN s[i] ELSE junk
ToWords(s, junk) == [k \in 1..BIT_N(Len(s)) |-> Sum([j \in 1..Word |-> BitIn(s, (k - 1) * Word + j, junk) * 2^(j - 1)])]
FromWords(ws, n) == [i \in 1..n |-> (ws[((i - 1) \div Word) + 1] \div 2^((i - 1) % Word)) % 2]
Truncated(v) == v % 2^Word
Negated(v) == 2^Word - 1 - v
Repeated(b) == b * (2^Word - 1)
TopBit(v) == v \div 2^(Word - 1)
OddBits == Sum([j \in 1..Word |-> IF j % 2 = 0 THEN 2^(j - 1) ELSE 0])
BitsFrom(x, ws) == Arr(ElBit, x.sh, FromWords(ws, Ia(x)), 0)

-----------------------------------------------------------------------------
\* Within a word by doubling shifts; the last bit is carried to the next word.
Shifts == SelectSeq([k \in 1..Word |-> 2^(k - 1)], LAMBDA s : s < Word)
XorBelow(c) == FoldLeft(LAMBDA r, k : r ^^ Truncated(r * 2^k), c, Shifts)
NeWordsApart(ws, p) == [k \in DOMAIN ws |-> XorBelow(ws[k]) ^^ p] \* mutant: nothing is carried
RECURSIVE NeWords(_, _), NeThen(_, _)
NeWords(ws, p) == IF ws = <<>> THEN <<>> ELSE NeThen(XorBelow(Head(ws)) ^^ p, Tail(ws))
NeThen(r, ws) == <<r>> \o NeWords(ws, Repeated(TopBit(r)))
scan_ne(x, p, junk) == BitsFrom(x, NeWords(ToWords(x.ra, junk), Repeated(p)))
OddFlipped(ws) == [k \in DOMAIN ws |-> ws[k] ^^ OddBits]
scan_eq(x, junk) == BitsFrom(x, OddFlipped(NeWords(ToWords(x.ra, junk), 0)))

\* Everything from the first 1, or up to the first 0.
LowBit(v) == v & Truncated(-v)
FirstHit(ws) == SelectInSeq(ws, LAMBDA v : v # 0)
WordsFrom(ws, hit, before, at, after) ==
  [k \in DOMAIN ws |-> IF hit = 0 \/ k < hit THEN before ELSE IF k = hit THEN at ELSE after]
OrWords(ws, hit) == WordsFrom(ws, hit, 0, Truncated(-LowBit(ws[hit])), Repeated(1))
scan_or(x, junk) == FlSet(BitsFrom(x, OrWords(ToWords(x.ra, junk), FirstHit(ToWords(x.ra, junk)))), {Asc, Squoze})
AndWords(ns, hit) == WordsFrom(ns, hit, Repeated(1), LowBit(ns[hit]) - 1, 0) \* ns: the words negated
scan_and(x, junk) ==
  LET ns == [k \in 1..BIT_N(Ia(x)) |-> Negated(ToWords(x.ra, junk)[k])]
  IN FlSet(BitsFrom(x, AndWords(ns, FirstHit(ns))), {Dsc, Squoze})

\* In a run of 1s every other bit stays, counted from the bit before the word.
EvenBits == Repeated(1) - OddBits
LtWord(v, p) ==
  v & ((EvenBits ^^ Truncated((Truncated(2 * v) | EvenBits) - v)) ^^ (IF TopBit(p) = 1 THEN Negated(Truncated(v + 1)) ELSE 0))
RECURSIVE LtWords(_, _), LtThen(_, _)
LtWords(ws, p) == IF ws = <<>> THEN <<>> ELSE LtThen(LtWord(Head(ws), p), Tail(ws))
LtThen(r, ws) == <<r>> \o LtWords(ws, r)
scan_lt(x, p, junk) == BitsFrom(x, LtWords(ToWords(x.ra, junk), Repeated(p)))

-----------------------------------------------------------------------------
\* The running sum of bits: few 1s are spread out from their indices.
POPC(v) == Sum([j \in 1..Word |-> (v \div 2^(j - 1)) % 2])
FullWords(ws, n) == SubSeq(ws, 1, n \div Word)
LastShifted(ws, n) == \* until its unused bits are gone
  IF n % Word = 0 THEN 0 ELSE Truncated(ws[Len(ws)] * 2^(Word - (n % Word)))
bit_sum(s, junk) ==
  LET ws == ToWords(s, junk)  full == FullWords(ws, Len(s))
  IN Sum([k \in DOMAIN full |-> POPC(full[k])]) + POPC(LastShifted(ws, Len(s)))
SpreadOut(ones, n) ==
  [i \in 1..n |-> Cardinality({k \in DOMAIN ones : ones[k] < i})]
SumsOfBits(x, xs, junk) ==
  LET re == IF xs <= I8Max THEN ElI8 ELSE ElInt
  IN IF xs = 0 THEN x ELSE IF xs = 1 THEN scan_or(x, junk)
     ELSE FlSet(Arr(re, x.sh, FitAll(re, IF xs < Ia(x) \div SparseRatio THEN SpreadOut(slash_c1([x EXCEPT !.sh = <<Ia(x)>>]).ra, Ia(x))
                                         ELSE [i \in DOMAIN x.ra |-> Sum(SubSeq(x.ra, 1, i))]), 0), {Asc, Squoze})
scan_add_bool(x, junk) == SumsOfBits(x, bit_sum(x.ra, junk), junk)

\* Minimum and maximum, from an initial value of the type of the elements.
Better(max, a, b) == IF max THEN MaxOf(a, b) ELSE MinOf(a, b)
Running(max, s, init) == [i \in DOMAIN s |-> FoldLeft(LAMBDA a, b : Better(max, a, b), init, SubSeq(s, 1, i))]
SortFlag(max) == IF max THEN Asc ELSE Dsc
MinMaxBits(max, x, junk) == IF max THEN scan_or(x, junk) ELSE scan_and(x, junk)
scan_mm_num(max, x, junk) ==
  IF x.el = ElBit THEN MinMaxBits(max, x, junk)
  ELSE FlSet(Arr(x.el, x.sh, Running(max, x.ra, x.ra[1]), 0), {SortFlag(max)})
TypeLimit(max) == IF max THEN -(I8Max + 1) ELSE I8Max
Beyond(max, v) == IF max THEN v > 0 ELSE v < 0
InitOf(max, v, x) == IF Fit(x.el, v) = Clobbered THEN TypeLimit(max) ELSE v
\* 𝕨 that the type cannot hold passes every element, or none.
scan2_mm_num(max, v, x, double, junk) ==
  LET y == IF double THEN Retype(x, ElInt) ELSE x
      const == FlSet(shape_c2(Atom(Ia(x)), Atom(v), FALSE), {SortFlag(max)})
  IN IF y.el = ElBit
     THEN IF (IF max THEN v > 0 ELSE v < 1) THEN const ELSE MinMaxBits(max, y, junk)
     ELSE IF Fit(y.el, v) = Clobbered /\ Beyond(max, v) THEN const
     ELSE FlSet(Arr(y.el, y.sh, Running(max, y.ra, InitOf(max, v, y)), 0), {SortFlag(max)})

scan_plus(r0, x) == Arr(ElInt, x.sh, [i \in DOMAIN x.ra |-> r0 + Sum(SubSeq(x.ra, 1, i))], 0)

-----------------------------------------------------------------------------
\* Operands: a primitive of arithmetic or comparison, one with its arguments swapped,
\* ⊣, ⊢, ∾, a constant, a constant function, or another function (here a subtraction).
Pervasive == CompareOps \cup {"add", "sub", "mul", "and", "or", "floor", "ceil", "stile"}
ConstValue == I8Max + 2
IsConst(f) == f \in {"const", "constfn"}
Callable(f) == f # "const"
isPervasiveDyExt(f) == f \in Pervasive \cup {"subswap"}
F2(f, a, b) ==
  CASE f \in Pervasive -> DyOp(f, a, b) [] f = "subswap" -> DyOp("sub", b, a) [] f = "user" -> DyOp("sub", a, b)
    [] f = "ltack" -> a [] f = "rtack" -> b [] IsConst(f) -> ConstValue
ArithOf(f) == IF f \in Pervasive THEN f ELSE "sub"
\* The same function called on arrays; the modulus is not an operand here.
FC2(f, w, x) ==
  CASE f \in Pervasive \cup {"subswap", "user"} -> C2(ArithOf(f), IF f = "subswap" THEN x ELSE w, IF f = "subswap" THEN w ELSE x)
    [] f = "ltack" -> w [] f = "rtack" -> x [] IsConst(f) -> Atom(ConstValue)

\* Element after element; stops at the first error.
F2Stop(f, a, b) == IF a = Nope THEN Nope ELSE F2(f, a, b)
ScanElems(f, first, s, csz) ==
  FoldLeft(LAMBDA r, v : Append(r, F2Stop(f, r[Len(r) + 1 - csz], v)), first, s)
OfElems(x, s, fill) == IF \E i \in DOMAIN s : s[i] = Nope THEN Err ELSE withFill(Arr(ElB, x.sh, s, NoFill), fill)

\* scan_arith: cell by cell
RECURSIVE ScanCells(_, _, _)
ScanCells(f, r, cells) ==
  IF cells = <<>> \/ IsErr(Last(r)) THEN r ELSE ScanCells(f, Append(r, FC2(f, Last(r), Head(cells))), Tail(cells))
AfterFirst(has_w, cells) == IF has_w THEN Tail(cells) ELSE cells
scan_arith(f, w, has_w, x) ==
  LET cells == CellsOf(x)
  IN MergedItems(<<x.sh[1]>>, AfterFirst(has_w, ScanCells(f, <<IF has_w THEN w ELSE cells[1]>>, IF has_w THEN cells ELSE Tail(cells))))

scan_c1_const(x) ==
  LET el == ElOr(x.el, SelfElType(ConstValue))
      m == mut_fillG(mut_copyG(MutInit(Ia(x), el), 0, x, 0, Csz(x)), Csz(x), ConstValue, Ia(x) - Csz(x))
  IN mut_f(m, x.sh, x.fill)
scan_c2_const(x) == withFill(Reshaped(reshape_one(Ia(x), ConstValue), x.sh), x.fill)

CheckRows == 6 \* cells of so many elements are scanned as arrays
ScanBase(f, x) ==
  IF Ia(x) # x.sh[1] /\ Ia(x) >= CheckRows * x.sh[1] /\ f \in Pervasive THEN scan_arith(f, x, FALSE, x)
  ELSE OfElems(x, ScanElems(f, SubSeq(x.ra, 1, Csz(x)), SubSeq(x.ra, Csz(x) + 1, Ia(x)), Csz(x)), x.fill)
FlipFirst(x) == [x EXCEPT !.ra[1] = 1 - @]
ScanBits(f, x, junk) ==
  CASE f = "add" -> scan_add_bool(x, junk) [] f \in {"or", "ceil"} -> scan_or(x, junk)
    [] f \in {"and", "mul", "floor"} -> scan_and(x, junk) [] f = "ne" -> scan_ne(x, 0, junk) [] f = "eq" -> scan_eq(x, junk)
    [] f = "lt" -> scan_lt(x, 0, junk) [] f = "le" -> bit_negate(scan_lt(bit_negate(x), 0, junk))
    [] f = "gt" -> scan_and(FlipFirst(bit_negate(x)), junk) [] f = "ge" -> scan_or(FlipFirst(bit_negate(x)), junk)
    [] f = "sub" -> C2("sub", Atom(2 * x.ra[1]), scan_add_bool(x, junk))
    [] OTHER -> Base
Parity(p, s) == [i \in DOMAIN s |-> FoldLeft(LAMBDA c, v : IF c = v THEN 0 ELSE 1, p, SubSeq(s, 1, i))]

\* y: the elements of x in their smallest type
ScanNumbers(f, x, y, double, junk) ==
  IF x.el = ElBit THEN ScanBits(f, x, junk)
  ELSE CASE f = "add" -> scan_plus(0, x)
         [] f \in {"floor", "ceil"} -> scan_mm_num(f = "ceil", x, junk)
         [] f = "ne" /\ ~double /\ x.ra[1] \in 0..1 -> Arr(ElBit, x.sh, <<x.ra[1]>> \o Parity(x.ra[1], Tail(x.ra)), 0)
         [] f = "or" /\ y.el = ElBit -> scan_or(y, junk)
         [] OTHER -> Base
NumberList(x) == ElNum(x.el) /\ Ia(x) = x.sh[1]
ScanNumbersOr(f, x, y, double, junk) ==
  OrElse(IF NumberList(x) THEN ScanNumbers(f, x, y, double, junk) ELSE Base, ScanBase(f, IF f = "or" THEN y ELSE x))
scan_c1(f, x, double, junk) ==
  IF x.at \/ Rnk(x) = 0 THEN Err
  ELSE IF Ia(x) <= 1 \/ x.sh[1] <= 1 \/ f = "rtack" THEN x
  ELSE IF IsConst(f) THEN scan_c1_const(x)
  ELSE IF f = "ltack" THEN shape_c2(fne_c1(x), Reshaped(take_head(Csz(x), x), <<Csz(x)>>), FALSE)
  ELSE ScanNumbersOr(f, x, IF NumberList(x) THEN squeeze_try(x, TRUE) ELSE x, double, junk)

Scan2Base(f, w, x) ==
  LET first == [i \in 1..Csz(x) |-> F2(f, IF w.at THEN w.ra[1] ELSE w.ra[i], x.ra[i])]
  IN IF Rnk(x) > 1 /\ Ia(x) >= CheckRows * x.sh[1] /\ f \in Pervasive THEN scan_arith(f, w, TRUE, x)
     ELSE OfElems(x, ScanElems(f, first, SubSeq(x.ra, Csz(x) + 1, Ia(x)), Csz(x)), w.fill)
SumFrom(w, sum) == IF w.ra[1] = 0 THEN sum ELSE C2("add", w, sum)
Scan2Numbers(f, w, v, x, double, junk) ==
  LET bit == v \in 0..1
  IN IF ~ElNum(x.el) \/ Rnk(x) # 1 \/ ~w.at \/ ~IsNum(v) THEN Base
     ELSE IF f \in {"floor", "ceil"} THEN scan2_mm_num(f = "ceil", v, x, double, junk)
     ELSE IF f = "add" /\ x.el = ElBit THEN SumFrom(w, scan_add_bool(x, junk))
     ELSE IF f = "add" /\ ~double THEN scan_plus(v, x)
     ELSE IF f = "ne" /\ x.el = ElBit THEN scan_ne(x, IF bit THEN v ELSE 1 - x.ra[1], junk)
     ELSE IF f = "ne" /\ bit /\ ~double THEN Arr(ElBit, x.sh, FitAll(ElBit, Parity(v, x.ra)), 0)
     ELSE IF x.el = ElBit /\ bit /\ f \in {"or", "and", "mul", "lt"} THEN
       CASE f = "or" -> (IF v = 0 THEN scan_or(x, junk) ELSE AllOf(1, x.sh))
         [] f = "lt" -> scan_lt(x, v, junk)
         [] OTHER -> IF v = 1 THEN scan_and(x, junk) ELSE AllOf(0, x.sh)
     ELSE Base
scan_c2(f, w, x, double, junk) ==
  IF x.at \/ Rnk(x) = 0 THEN Err
  ELSE IF w.sh # Tail(x.sh) THEN Err
  ELSE IF Ia(x) = 0 \/ f = "rtack" THEN x
  ELSE IF IsConst(f) THEN scan_c2_const(x)
  ELSE IF f = "ltack" THEN shape_c2(fne_c1(x), w, FALSE)
  ELSE OrElse(Scan2Numbers(f, w, w.ra[1], x, double, junk), Scan2Base(f, w, x))
=============================================================================
