----------------------------- MODULE Reductions -----------------------------
(***************************************************************************)
(* Fold and Insert: builtins/fold.c without SIMD, with the loop over cells *)
(* of builtins/cells.c.  Sums and products are exact here: what doubles    *)
(* lose above 2^53 is left out.                                            *)
(***************************************************************************)
EXTENDS SelfSearch

PosInf == 900 \* no number that is computed reaches these
NegInf == -900
NoIdentity == -997
Identity(f) == CASE f \in {"add", "sub", "or", "ne", "gt"} -> 0 [] f \in {"mul", "and", "eq", "ge"} -> 1
                 [] f = "floor" -> PosInf [] f = "ceil" -> NegInf [] OTHER -> NoIdentity

\* Bits, a word at a time.
bit_has(s, v, junk) ==
  LET ws == ToWords(s, junk)  q == Len(s) % Word
      other(k) == IF v = 1 THEN ws[k] ELSE Negated(ws[k])
      mask(k) == IF k = Len(ws) /\ q # 0 THEN 2^q - 1 ELSE Repeated(1)
  IN IF \E k \in DOMAIN ws : other(k) & mask(k) # 0 THEN 1 ELSE 0
LowestBit(v) == CHOOSE j \in 0..(Word - 1) : (v \div 2^j) % 2 = 1 /\ v % 2^j = 0
bit_find(s, v, junk) ==
  LET ws == ToWords(s, junk)  n == Len(s)  q == n % Word
      other(k) == IF v = 1 THEN ws[k] ELSE Negated(ws[k])
      hits == {k \in 1..(n \div Word) : other(k) # 0}
      k0 == CHOOSE k \in hits : \A l \in hits : k <= l
  IN IF hits # {} THEN Word * (k0 - 1) + LowestBit(other(k0))
     ELSE IF q = 0 THEN n ELSE (n - q) + LowestBit(other(Len(ws)) | Truncated(Repeated(1) * 2^q))
fold_ne(s, junk) ==
  LET ws == ToWords(s, junk)
  IN POPC(FoldLeft(LAMBDA r, v : r ^^ v, LastShifted(ws, Len(s)), FullWords(ws, Len(s)))) % 2
bit_diff(s, junk) == \* every other bit counts when it is 0
  LET ws == [k \in 1..BIT_N(Len(s)) |-> ToWords(s, junk)[k] ^^ OddBits]
      full == FullWords(ws, Len(s))
  IN (Sum([k \in DOMAIN full |-> POPC(full[k])]) + POPC(LastShifted(ws, Len(s)))) - (Len(s) \div 2)
EvenBit(n) == (n + 1) % 2

\* The value of a fold of bits, or Nope for a function without a method of its own.
FoldBits(f, s, junk) ==
  LET n == Len(s)
      is(b) == IF b THEN 1 ELSE 0
  IN CASE f \in {"mul", "and", "floor"} -> 1 - bit_has(s, 0, junk) [] f \in {"or", "ceil"} -> bit_has(s, 1, junk)
       [] f = "add" -> bit_sum(s, junk) [] f = "sub" -> bit_diff(s, junk)
       [] f = "ne" -> fold_ne(s, junk) [] f = "eq" -> (fold_ne(s, junk) + EvenBit(n)) % 2
       [] f = "lt" -> is(bit_find(s, 1, junk) = n - 1) [] f = "le" -> is(bit_find(s, 0, junk) # n - 1)
       [] f = "gt" -> bit_find(s, 0, junk) % 2 [] f = "ge" -> 1 - (bit_find(s, 1, junk) % 2)
       [] OTHER -> Nope
Extreme(max, s, init) == FoldLeft(LAMBDA a, b : Better(max, a, b), init, s)
Product(s, init) == FoldLeft(LAMBDA a, b : a * b, init, s)

\* Or of numbers: from the last, up to a 1; a number that is no bit leaves it to the loop.
OrFrom(s) ==
  LET stops == {i \in DOMAIN s : s[i] # 0}
      last == CHOOSE i \in stops : \A j \in stops : j <= i
  IN IF stops = {} THEN 0 ELSE IF s[last] = 1 THEN 1 ELSE Nope

RECURSIVE FoldLoop(_, _, _)
FoldLoop(f, c, s) ==
  IF s = <<>> \/ IsErr(c) THEN c ELSE FoldLoop(f, FC2(f, Atom(s[Len(s)]), c), Front(s))
Value(v, otherwise) == IF v = Nope THEN otherwise ELSE Atom(v)
Method1(f, x, double, junk) ==
  LET s == x.ra
  IN IF ~ElNum(x.el) THEN Nope
     ELSE IF x.el = ElBit THEN FoldBits(f, s, junk)
     ELSE CASE f = "add" -> Sum(s) [] f \in {"floor", "ceil"} -> Extreme(f = "ceil", s, s[1])
            [] f \in {"mul", "and"} -> Product(s, 1)
            [] f = "or" /\ ~double -> OrFrom(s)
            [] OTHER -> Nope
fold_c1(f, x, double, junk) ==
  LET n == Ia(x)  s == x.ra
  IN IF x.at \/ Rnk(x) # 1 THEN Err
     ELSE IF n = 1 THEN Atom(s[1])
     ELSE IF n = 0 THEN (IF Identity(f) = NoIdentity THEN Err ELSE Atom(Identity(f)))
     ELSE IF IsConst(f) THEN Atom(ConstValue)
     ELSE IF f = "ltack" THEN Atom(s[1]) ELSE IF f = "rtack" THEN Atom(s[n])
     ELSE Value(IF n = 2 THEN Nope ELSE Method1(f, x, double, junk), FoldLoop(f, Atom(s[n]), SubSeq(s, 1, n - 1)))

Fold2Unflipped(f, v, s, junk) == \* mutant: 𝕨 keeps its sign
  CASE f = "add" -> v + bit_sum(s, junk) [] f = "sub" -> v + bit_diff(s, junk) [] OTHER -> Nope
Fold2Bits(f, v, s, junk) ==
  LET n == Len(s)
      is(b) == IF b THEN 1 ELSE 0
  IN CASE f = "add" -> v + bit_sum(s, junk)
       [] f = "sub" -> (IF n % 2 = 1 THEN -v ELSE v) + bit_diff(s, junk)
       [] f \notin {"add", "sub"} /\ v \notin 0..1 -> Nope
       [] f \in {"and", "mul", "floor"} /\ v \in 0..1 -> is(v = 1 /\ bit_has(s, 0, junk) = 0)
       [] f \in {"or", "ceil"} /\ v \in 0..1 -> is(v = 1 \/ bit_has(s, 1, junk) = 1)
       [] f = "ne" /\ v \in 0..1 -> (v + fold_ne(s, junk)) % 2
       [] f = "eq" /\ v \in 0..1 -> ((v + fold_ne(s, junk)) + n) % 2
       [] OTHER -> Nope
Method2(f, w, x, double, junk) ==
  LET s == x.ra  v == w.ra[1]
  IN IF ~w.at \/ ~ElNum(x.el) THEN Nope
     ELSE IF ~IsNum(v) THEN Nope
     ELSE IF x.el = ElBit THEN Fold2Bits(f, v, s, junk)
     ELSE CASE f = "add" -> v + Sum(s) [] f \in {"floor", "ceil"} -> Extreme(f = "ceil", s, v)
            [] f \in {"mul", "and"} -> Product(s, v)
            [] f = "or" /\ v \in 0..1 /\ ~double -> (IF v = 1 THEN 1 ELSE OrFrom(s))
            [] OTHER -> Nope
fold_c2(f, w, x, double, junk) ==
  LET n == Ia(x)  s == x.ra
  IN IF x.at \/ Rnk(x) # 1 THEN Err
     ELSE IF n = 0 THEN w ELSE IF IsConst(f) THEN Atom(ConstValue)
     ELSE IF f = "ltack" THEN Atom(s[1]) ELSE IF f = "rtack" THEN w
     ELSE Value(Method2(f, w, x, double, junk), FoldLoop(f, w, s))

-----------------------------------------------------------------------------
\* Insert with short rows: element by element.  The fill of the result is what the
\* function makes of the fill, which may go back and forth between a number and a
\* character, or fail.
fillNumeric(f) == f = 0
FillOfOneRow(f, xf, rf, n, has_w) == rf \* mutant: the fill stays as it was
OneOf(first, next, more) == IF next = Nope THEN NoFill ELSE ElemFill(IF more THEN next ELSE first)
LastFill(f, xf, first, more) == OneOf(first, IF first = Nope THEN Nope ELSE F2(f, xf, ElemFill(first)), more)
FillOfRows(f, xf, rf, n, has_w) ==
  IF rf = NoFill \/ (fillNumeric(rf) /\ (~has_w \/ fillNumeric(xf))) THEN rf
  ELSE LastFill(f, xf, IF has_w THEN rf ELSE F2(f, xf, rf), n % 2 = (IF has_w THEN 0 ELSE 1))
OneRow(sh, s, fill) ==
  IF ~NoneNope(s) THEN Err
  ELSE IF fill = NoFill THEN squeeze_any(Arr(ElB, sh, s, NoFill)) ELSE withFill(Arr(ElB, sh, s, NoFill), fill)
insert_scal(f, x, has_w, fxw) ==
  LET csz == Csz(x)  n == x.sh[1]
      rf == IF ~has_w THEN x.fill ELSE IF x.fill = NoFill THEN NoFill ELSE fxw.fill
      start == IF has_w THEN fxw.ra ELSE SubSeq(x.ra, Ia(x) - csz + 1, Ia(x))
      row(c, k) == [i \in DOMAIN c |-> IF c[i] = Nope THEN Nope ELSE F2(f, x.ra[(k - 1) * csz + i], c[i])]
  IN IF IsErr(fxw) THEN Err
     ELSE OneRow(Tail(x.sh), FoldLeft(row, start, [k \in 1..(n - 1) |-> n - k]), FillOfRows(f, x.fill, rf, n, has_w))

RECURSIVE InsertLoop(_, _, _)
InsertLoop(f, r, cells) ==
  IF cells = <<>> \/ IsErr(r) THEN r ELSE InsertLoop(f, FC2(f, cells[Len(cells)], r), Front(cells))
insert_base(f, x, has_w, w) ==
  LET cells == CellsOf(x)
  IN InsertLoop(f, IF has_w THEN w ELSE Last(cells), IF has_w THEN cells ELSE Front(cells))

InsertRows == 6 \* rows of fewer elements are short
ShortRows(x) == x.sh[1] > 2 /\ Ia(x) < InsertRows * x.sh[1]
Single(r, rr) == IF IsErr(r) THEN Err ELSE Reshaped(m_unit(r), Rep(rr, 1))
InsertJoin(x) ==
  IF Rnk(x) = 1 THEN x
  ELSE IF Rnk(x) > 2 /\ x.sh[1] * x.sh[2] > UszMax THEN Err
  ELSE Reshaped(FlKeep(x, {}), IF Rnk(x) = 2 THEN <<Ia(x)>> ELSE <<x.sh[1] * x.sh[2]>> \o EndsWith(x.sh, 2))
insert_c1(f, x, double, junk) ==
  LET n == x.sh[1]
  IN IF x.at \/ Rnk(x) = 0 THEN Err
     ELSE IF n = 0 THEN
       IF Identity(f) # NoIdentity THEN Reshaped(reshape_one(Csz(x), Identity(f)), Tail(x.sh))
       ELSE IF f = "join" /\ Rnk(x) > 1 THEN InsertJoin(x) ELSE Err
     ELSE IF n = 1 THEN select_c1(x)
     ELSE IF f = "const" THEN Atom(ConstValue)
     ELSE IF isPervasiveDyExt(f) /\ (Rnk(x) = 1 \/ (Ia(x) # 0 /\ n = Ia(x)))
     THEN Single(fold_c1(f, shape_c1(x, FALSE), double, junk), Rnk(x) - 1)
     ELSE IF isPervasiveDyExt(f) /\ ShortRows(x) THEN insert_scal(f, x, FALSE, x)
     ELSE IF f = "ltack" THEN select_c1(x)
     ELSE IF f = "rtack" THEN select_c2(Atom(-1), x, FALSE)
     ELSE IF f = "join" THEN InsertJoin(x)
     ELSE IF f = "constfn" THEN Atom(ConstValue)
     ELSE insert_base(f, x, FALSE, x)

insert_c2(f, w, x, double, junk) ==
  LET n == x.sh[1]
      rr == IF w.at THEN Rnk(x) - 1 ELSE MaxOf(Rnk(x) - 1, Rnk(w))
  IN IF x.at \/ Rnk(x) = 0 THEN Err
     ELSE IF n = 0 THEN w
     ELSE IF f = "const" THEN Atom(ConstValue)
     ELSE IF isPervasiveDyExt(f) /\ n = Ia(x) /\ Ia(w) = 1
     THEN Single(fold_c2(f, Atom(w.ra[1]), shape_c1(x, FALSE), double, junk), rr)
     ELSE IF isPervasiveDyExt(f) /\ n # Ia(x) /\ ShortRows(x) /\ (w.at \/ Rnk(w) < Rnk(x)) 
     THEN insert_scal(f, x, TRUE, FC2(f, select_c2(Atom(-1), x, FALSE), w))
     ELSE IF f = "ltack" THEN select_c1(x) ELSE IF f = "rtack" THEN w
     ELSE IF f = "constfn" THEN Atom(ConstValue)
     ELSE insert_base(f, x, TRUE, w)
=============================================================================
