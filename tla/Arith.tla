------------------------------- MODULE Arith -------------------------------
(***************************************************************************)
(* Arithmetic and comparison: builtins/arithd.c, builtins/cmp.c and        *)
(* builtins/arithm.c as built without SIMD, the mapping they fall back to  *)
(* (utils/each.c) and the pairing of arrays of different rank              *)
(* (builtins/cells.c).  Numbers are integers; division, powers and what    *)
(* comes of them are left out.  The wider integers and doubles are one     *)
(* type: `over` says that the type of the arguments was exceeded or was    *)
(* already a double, where the result is squeezed.                         *)
(***************************************************************************)
EXTENDS Windows

CONSTANT FltBits \* bits of a float's significand, more than those of the integers divided

ASSUME ArithAssumption == FltBits \in 2..14

Nope == -998 \* the function throws for these arguments

IsNum(v) == v < Chr
Char(v) == IF v >= Chr THEN v ELSE Nope \* no character comes before the first
CompareOps == {"eq", "ne", "le", "ge", "lt", "gt"}
Commutative == {"add", "mul", "and", "or", "floor", "ceil"}
FloorDiv(a, b) == IF b > 0 THEN a \div b ELSE (-a) \div (-b)
Mod(w, x) == x - w * FloorDiv(x, w)

CompareOf2(op, a, b) ==
  IF CASE op = "eq" -> a = b [] op = "ne" -> a # b [] op = "le" -> a <= b
       [] op = "ge" -> a >= b [] op = "lt" -> a < b [] op = "gt" -> a > b THEN 1 ELSE 0
NumOp(op, a, b) ==
  CASE op = "add" -> a + b [] op = "sub" -> a - b [] op \in {"mul", "and"} -> a * b
    [] op = "or" -> (a + b) - (a * b) [] op = "floor" -> MinOf(a, b) [] op = "ceil" -> MaxOf(a, b)
    [] op = "stile" -> Mod(a, b)
\* Two atoms.
DyOp(op, a, b) ==
  IF op \in CompareOps THEN CompareOf2(op, a, b)
  ELSE IF IsNum(a) /\ IsNum(b) THEN NumOp(op, a, b)
  ELSE IF op = "add" /\ (IsNum(a) \/ IsNum(b)) THEN Char(a + b)
  ELSE IF op = "sub" /\ ~IsNum(a) THEN (IF IsNum(b) THEN Char(a - b) ELSE a - b)
  ELSE Nope

Thrown(r) == IF IsErr(r) THEN r ELSE IF \E k \in DOMAIN r.ra : r.ra[k] = Nope THEN Err ELSE r
DyAtom(op, a, b) == IF DyOp(op, a, b) = Nope THEN Err ELSE Atom(DyOp(op, a, b))

-----------------------------------------------------------------------------
\* Element by element, with the fill that the table of the function says.
fill_case(op, wnum, xnum) ==
  IF op \in CompareOps \/ (wnum /\ xnum) THEN 0
  ELSE IF op = "add" /\ wnum # xnum THEN Chr
  ELSE IF op = "sub" /\ ~wnum THEN (IF xnum THEN Chr ELSE 0)
  ELSE NoFill
fill_evalDy(op, wf, xf) == fill_case(op, wf = 0, xf = 0)

FillFor(op, r, wf, xf) ==
  IF IsErr(r) \/ wf = NoFill \/ xf = NoFill THEN r ELSE withFill(r, fill_evalDy(op, wf, xf))
arith_recd(op, w, x) ==
  FillFor(op, Thrown(eachd_fn([p \in PairsOf(w, x) |-> DyOp(op, p[1], p[2])], w, x)), w.fill, x.fill)

-----------------------------------------------------------------------------
\* Arrays of one shape.  Two arrays of bits are combined as words.
BitOp(op, a, b) == IF op \in {"or", "ceil"} THEN MaxOf(a, b) ELSE MinOf(a, b)
iMakeEq(we, xe) == MaxOf(ElI8, MaxOf(we, xe))
FitsAll(el, s) == \A i \in DOMAIN s : Fit(el, s[i]) # Clobbered
NoneNope(s) == \A i \in DOMAIN s : s[i] # Nope

Chars(sh, s) == IF NoneNope(s) THEN Arr(ElC8, sh, s, Chr) ELSE Err

\* The results written one by one in a type, up to the first that does not fit it: then
\* they are dropped, and a wider type starts over.
MisfitKept(el, s) == [ra |-> FitAll(el, s), fits |-> TRUE] \* mutant: what does not fit is kept
NarrowLoop(el, s) ==
  LET write(st, v) == IF st.fits /\ Fit(el, v) # Clobbered THEN [st EXCEPT !.ra = Append(@, v)] ELSE [st EXCEPT !.fits = FALSE]
  IN FoldLeft(write, [ra |-> <<>>, fits |-> TRUE], s)
NarrowOrBase(s, sh) == LET n == NarrowLoop(ElI8, s) IN IF n.fits THEN Arr(ElI8, sh, n.ra, 0) ELSE Base

\* s: the results, element by element, in wider arithmetic.  Base: it is left to arith_recd.
ArithInto(op, w, x, over, s) ==
  LET nums == ElNum(w.el) /\ ElNum(x.el)
  IN IF nums /\ w.el = ElBit /\ x.el = ElBit /\ op \notin {"add", "sub"}
     THEN Arr(ElBit, x.sh, [i \in DOMAIN x.ra |-> BitOp(op, w.ra[i], x.ra[i])], 0)
     ELSE IF nums /\ iMakeEq(w.el, x.el) = ElI8 THEN NarrowOrBase(s, x.sh)
     ELSE IF nums
     THEN IF over THEN squeeze_any(Arr(ElInt, x.sh, s, 0)) ELSE Arr(ElInt, x.sh, s, 0)
     ELSE IF op = "sub" /\ w.el = ElC8 /\ x.el = ElInt /\ ~over THEN Chars(x.sh, s)
     ELSE Base
ArithSameRank(op, w, x, over) ==
  IF w.sh # x.sh THEN Err ELSE ArithInto(op, w, x, over, [i \in DOMAIN x.ra |-> DyOp(op, w.ra[i], x.ra[i])])

\* An atom, on the left or on the right, and an array.  The function of an array of bits
\* is called on the bits that occur.
OfBit(op, a, y, left, v) ==
  IF (\E i \in DOMAIN y.ra : y.ra[i] = v) \/ (v = 0 /\ Ia(y) = 0)
  THEN DyOp(op, IF left THEN a ELSE v, IF left THEN v ELSE a) ELSE 0
bit_sel1Fn(op, a, y, left) == bit_sel(y, OfBit(op, a, y, left, 0), OfBit(op, a, y, left, 1))

ArithAtomInto(op, a, y, left, over, s) ==
  IF op = "add" /\ ~IsNum(a) /\ ElNum(y.el) /\ ~(over /\ y.el = ElInt) THEN Chars(y.sh, s)
  ELSE IF op = "sub" /\ ~left /\ ~IsNum(a) /\ y.el = ElC8 THEN Arr(ElInt, y.sh, s, 0)
  ELSE IF IsNum(a) /\ y.el = ElBit THEN bit_sel1Fn(op, a, y, left)
  ELSE IF IsNum(a) /\ y.el = ElI8 /\ SelfElType(a) <= ElI8 THEN NarrowOrBase(s, y.sh)
  ELSE IF IsNum(a) /\ y.el = ElInt /\ ~over THEN Arr(ElInt, y.sh, s, 0)
  ELSE Base
ArithAtom(op, a, y, left, over) ==
  ArithAtomInto(op, a, y, left, over,
                [i \in DOMAIN y.ra |-> DyOp(op, IF left THEN a ELSE y.ra[i], IF left THEN y.ra[i] ELSE a)])

-----------------------------------------------------------------------------
\* Comparisons give bits.  Numbers and characters have no common type.
CmpSameRank(op, w, x) ==
  IF w.sh # x.sh THEN Err
  ELSE IF ElNum(w.el) # ElNum(x.el) THEN Base
  ELSE Arr(ElBit, x.sh, [i \in DOMAIN x.ra |-> CompareOf2(op, w.ra[i], x.ra[i])], 0)

CmpAtomStrict(op, a, y, left) == \* mutant: a value the type cannot hold is never equal, less or greater
  Arr(ElBit, y.sh, [i \in DOMAIN y.ra |-> IF Fit(y.el, a) = Clobbered THEN 0 ELSE CompareOf2(op, IF left THEN a ELSE y.ra[i], IF left THEN y.ra[i] ELSE a)], 0)
\* An atom that the type of the array cannot hold is equal to none; for an order each
\* element is compared.
CmpAtom(op, a, y, left) ==
  LET each == [i \in DOMAIN y.ra |-> CompareOf2(op, IF left THEN a ELSE y.ra[i], IF left THEN y.ra[i] ELSE a)]
      fits == ElOr(y.el, SelfElType(a)) = y.el
      fill == Rep(Ia(y), IF op = "ne" THEN 1 ELSE 0)
  IN IF y.el = ElB THEN Base
     ELSE Arr(ElBit, y.sh, IF ~fits /\ op \in {"eq", "ne"} THEN fill ELSE each, 0)

-----------------------------------------------------------------------------
\* leading_axis_arith: the smaller argument is stretched, or each of its elements meets
\* its cell of the larger.
ArithOrCmpSame(op, w, x, over) ==
  OrElse(IF op \in CompareOps THEN CmpSameRank(op, w, x) ELSE ArithSameRank(op, w, x, over), arith_recd(op, w, x))
RecdAtom(op, a, y, left) == arith_recd(op, IF left THEN Atom(a) ELSE y, IF left THEN y ELSE Atom(a))
ArithOrCmpAtom(op, a, y, left, over) ==
  OrElse(IF op \in CompareOps THEN CmpAtom(op, a, y, left) ELSE ArithAtom(op, a, y, left, over), RecdAtom(op, a, y, left))

MergedItems(sh, items) == IF \E i \in DOMAIN items : IsErr(items[i]) THEN Err ELSE bqn_merge(sh, items)
ToShape(y, sh) == IF y.sh = sh THEN y ELSE Reshaped(slash_atom(Prod(EndsWith(sh, Rnk(y))), [FlKeep(y, {}) EXCEPT !.sh = <<Ia(y)>>]), sh)
LongerShape(w, x) == IF Rnk(w) < Rnk(x) THEN x.sh ELSE w.sh
ArithStretched(op, w, x, over) == ArithOrCmpSame(op, ToShape(w, LongerShape(w, x)), ToShape(x, LongerShape(w, x)), over)
ArithEach(op, s, cells, left, over) == MergedItems(s.sh, [i \in DOMAIN s.ra |-> ArithOrCmpAtom(op, s.ra[i], cells[i], left, over)])
leading_axis_arith(op, w, x, over, short) ==
  LET wsmall == Rnk(w) < Rnk(x)
      s == IF wsmall THEN w ELSE x  b == IF wsmall THEN x ELSE w
  IN IF short \/ Rnk(w) = Rnk(x) THEN ArithStretched(op, w, x, over) ELSE ArithEach(op, s, KCells(b, Rnk(s)), wsmall, over)

\* arrays: what arrays give whose shapes begin alike
ArithOfTwo(op, w, x, over, arrays) ==
  LET m == MinOf(Rnk(w), Rnk(x))
      mixed == w.el = ElB \/ x.el = ElB
      cmp == op \in CompareOps
      lead == SubSeq(w.sh, 1, m) = SubSeq(x.sh, 1, m)
  IN IF w.at /\ x.at THEN DyAtom(op, w.ra[1], x.ra[1])
     ELSE IF w.at \/ x.at
     THEN ArithOrCmpAtom(op, IF w.at THEN w.ra[1] ELSE x.ra[1], IF w.at THEN x ELSE w, w.at \/ op \in Commutative, over)
     ELSE IF ~cmp /\ ~lead THEN Err
     ELSE IF (cmp /\ mixed) \/ (Rnk(w) # Rnk(x) /\ (mixed \/ Ia(w) = 0 \/ Ia(x) = 0)) THEN arith_recd(op, w, x)
     ELSE IF ~lead THEN Err ELSE arrays
arith_c2(op, w, x, over, short) == ArithOfTwo(op, w, x, over, leading_axis_arith(op, w, x, over, short))
\* Declared as recursive, as the function is in the code, where elements may be arrays.
RECURSIVE C2(_, _, _)
C2(op, w, x) == ArithOfTwo(op, w, x, FALSE, ArithStretched(op, w, x, FALSE))
OnePlus(d, over) == IF IsErr(d) THEN Err ELSE arith_c2("add", Atom(1), d, over, TRUE)
not_c2(w, x, over) == OnePlus(arith_c2("sub", w, x, over, TRUE), over)

-----------------------------------------------------------------------------
\* One argument
MonOp(op, v) ==
  IF ~IsNum(v) THEN Nope
  ELSE CASE op = "sub" -> -v [] op = "stile" -> AbsOf(v) [] op = "not" -> 1 - v
         [] op = "mul" -> (IF v = 0 THEN 0 ELSE IF v > 0 THEN 1 ELSE -1)
         [] op \in {"add", "floor", "ceil"} -> v
arith_recm(op, x) ==
  LET s == [i \in DOMAIN x.ra |-> MonOp(op, x.ra[i])]
  IN IF NoneNope(s) THEN withFill(Unboxed(x.sh, s), IF x.fill = 0 THEN 0 ELSE NoFill) ELSE Err

bit_negate(x) == Arr(ElBit, x.sh, [i \in DOMAIN x.ra |-> 1 - x.ra[i]], 0)
arithm_c1(op, x, over) ==
  LET s == [i \in DOMAIN x.ra |-> MonOp(op, x.ra[i])]
      y == squeeze_try(x, TRUE)
  IN IF x.at THEN (IF s[1] = Nope THEN Err ELSE Atom(s[1]))
     ELSE IF ~ElNum(x.el) THEN arith_recm(op, x)
     ELSE CASE op = "add" -> x
            [] op = "sub" -> IF x.el = ElBit THEN bit_sel(x, 0, -1) ELSE ArithOrCmpAtom("sub", 0, x, TRUE, over)
            [] op = "not" -> IF y.el = ElBit THEN bit_negate(y) ELSE ArithOrCmpAtom("sub", 1, y, TRUE, over)
            [] op \in {"floor", "ceil"} -> IF x.el = ElInt /\ over THEN squeeze_any(FlKeep(x, {})) ELSE x
            [] op = "mul" -> IF x.el = ElBit THEN x ELSE Arr(ElI8, x.sh, s, 0)
            [] op = "stile" -> IF x.el = ElBit THEN x
                               ELSE IF x.el = ElI8 /\ FitsAll(ElI8, s) THEN Arr(ElI8, x.sh, s, 0)
                               ELSE IF x.el = ElInt /\ ~over THEN Arr(ElInt, x.sh, s, 0) ELSE arith_recm(op, x)

-----------------------------------------------------------------------------
\* Modulus: by a mask for powers of 2, else by way of a rounded quotient
PowerOfTwo(n) == \E k \in 0..6 : n = 2^k
AllOf(v, sh) == Reshaped(reshape_one(Prod(sh), v), sh) \* i64EachDec

\* A float is m / 2^e, its m rounded to FltBits bits, ties to even.
NoHalfStep(m) == 0 \* mutant: the reciprocal alone
Nearest(n, d) ==
  LET q == n \div d  r == n % d
  IN IF 2 * r > d \/ (2 * r = d /\ q % 2 = 1) THEN q + 1 ELSE q
Quotient(n, d) == \* n / d, for d > 0
  LET e == CHOOSE k \in 0..30 : /\ n = 0 \/ AbsOf(n) * 2^k >= d * 2^(FltBits - 1)
                                /\ \A j \in 0..(k - 1) : n # 0 /\ AbsOf(n) * 2^j < d * 2^(FltBits - 1)
  IN [m |-> Nearest(n * 2^e, d), e |-> e]
Rounded(n, e) == \* n / 2^e
  LET s == CHOOSE k \in 0..30 : AbsOf(n) < 2^(FltBits + k) /\ \A j \in 0..(k - 1) : AbsOf(n) >= 2^(FltBits + j)
  IN [m |-> Nearest(n, 2^s), e |-> e - s]
Floored(f) == f.m \div 2^f.e
QuotientBy(d, n) == IF d > 0 THEN Quotient(n, d) ELSE Quotient(-n, -d)

floordiv_AA(w, x) == squeeze_any(Arr(ElInt, w.sh, [i \in DOMAIN w.ra |-> Floored(QuotientBy(x.ra[i], w.ra[i]))], 0))
\* Times the rounded reciprocal, and half of it, which its error never exceeds.
HalfStep(m) == AbsOf(m)
floordiv_AS(w, v) ==
  LET r == QuotientBy(v, 1)
      each(a) == LET p == Rounded(a * r.m, r.e)
                 IN Floored(Rounded((p.m * 2^((r.e + 1) - p.e)) + HalfStep(r.m), r.e + 1))
  IN IF v = 1 THEN w ELSE IF v = -1 THEN arithm_c1("sub", w, FALSE)
     ELSE Arr(ElInt, w.sh, [i \in DOMAIN w.ra |-> each(w.ra[i])], 0)
modint_AA(w, x) == squeeze_any(C2("sub", x, C2("mul", w, floordiv_AA(x, w))))
modint_SA(v, x) == squeeze_any(C2("sub", x, C2("mul", Atom(v), floordiv_AS(x, v))))
modint_AS(w, v) == modint_AA(w, shape_c2(fne_c1(w), Atom(v), FALSE))

\* The low bits of each element, in a type that holds the largest of them.
Masked(v, x) ==
  LET re == IF v = 2 THEN ElBit ELSE IF v < 2 * (I8Max + 1) THEN ElI8 ELSE ElInt
      s == [i \in DOMAIN x.ra |-> x.ra[i] % v]
  IN Arr(re, x.sh, FitAll(re, s), 0)

stile_c2(w, x, over) ==
  LET double(y) == over /\ y.el = ElInt
      mods == [i \in 1..MaxOf(Ia(w), Ia(x)) |-> Mod(w.ra[IF w.at THEN 1 ELSE i], x.ra[IF x.at THEN 1 ELSE i])]
      floats(sh) == squeeze_any(Arr(ElInt, sh, mods, 0))
      v == w.ra[1]
  IN IF w.at /\ x.at THEN DyAtom("stile", w.ra[1], x.ra[1])
     ELSE IF ~w.at /\ ~x.at /\ Rnk(w) = Rnk(x) /\ w.sh # x.sh THEN Err
     ELSE IF ~w.at /\ ~x.at /\ (Rnk(w) # Rnk(x) \/ ~ElNum(w.el) \/ ~ElNum(x.el)) THEN arith_recd("stile", w, x)
     ELSE IF ~w.at /\ ~x.at THEN (IF double(w) \/ double(x) THEN floats(x.sh) ELSE modint_AA(w, x))
     ELSE IF w.at /\ IsNum(v) /\ ElNum(x.el)
     THEN IF double(x) THEN floats(x.sh)
          ELSE IF v = 1 THEN AllOf(0, x.sh)
          ELSE IF v > 0 /\ PowerOfTwo(v) THEN (IF x.el = ElBit THEN x ELSE Masked(v, x))
          ELSE modint_SA(v, x)
     ELSE IF x.at /\ IsNum(x.ra[1]) /\ ElNum(w.el)
     THEN IF double(w) THEN floats(w.sh) ELSE modint_AS(w, x.ra[1])
     ELSE arith_recd("stile", w, x)
=============================================================================
