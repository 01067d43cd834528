----------------------------- MODULE Operators -----------------------------
(***************************************************************************)
(* A program that computes: arithmetic, searches, scans, folds, reordering *)
(* of axes, and functions on cells.                                        *)
(***************************************************************************)
EXTENDS Cells, Definitions, Programs

CONSTANTS Others,       \* the other argument
          Operands,     \* functions that are folded and scanned with
          CellArgs,     \* left arguments for functions on cells
          AxisArgs,     \* orders of axes
          CellFunctions,\* functions called on cells
          CellDyads,    \* and with two arguments
          Ranks,        \* lists of ranks
          CellSeeds,    \* the arrays these are called on
          MaxProduct,   \* the largest product of a result that is kept
          KnownDiffer   \* whether the cases in which cells are known to differ are included

ASSUME OperatorsAssumption == KnownDiffer \in BOOLEAN /\ MaxProduct \in Nat

Junk == {0, 1}
SearchHow == {"each", "few", "table", "hash"}
SelfHow == {"brute", "sorted", "table", "radix", "hash"}
Pairs == {<<y, arr>> : y \in Others} \cup {<<arr, arr>>}
IsWide(y) == y.el = ElInt
Ready == call = Idle
OnCells == Ready /\ arr \in CellSeeds
Plain == Ready /\ arr \notin CellSeeds
NoLeft == [none |-> TRUE] \* no left argument

Arithmetic == Plain /\
  \E op \in Pervasive \ {"stile"}, p \in Pairs, over \in BOOLEAN, short \in BOOLEAN :
    Call("arith", [op |-> op, w |-> p[1], x |-> p[2]], arith_c2(op, p[1], p[2], over, short))
Modulus == Plain /\
  \E p \in {q \in Pairs : \A k \in DOMAIN q[1].ra : q[1].ra[k] # 0}, over \in BOOLEAN :
    Call("arith", [op |-> "stile", w |-> p[1], x |-> p[2]], stile_c2(p[1], p[2], over))
Span == Plain /\ \E p \in Pairs, over \in BOOLEAN : Call("span", [w |-> p[1], x |-> p[2]], not_c2(p[1], p[2], over))
Monadic == Plain /\
  \E op \in {"add", "sub", "mul", "not", "floor", "ceil", "stile"}, over \in BOOLEAN : Call("monadic", [op |-> op], arithm_c1(op, arr, over))

Search == Plain /\
  \E p \in Pairs, how \in SearchHow, same \in BOOLEAN :
    /\ same => p[1] = p[2]
    /\ \/ Call("index_of", [w |-> p[1], x |-> p[2]], indexOf_c2(p[1], p[2], how, same))
       \/ Call("member_of", [w |-> p[2], x |-> p[1]], memberOf_c2(p[2], p[1], how, same))
       \/ Call("progressive", [w |-> p[1], x |-> p[2]], count_c2(p[1], p[2], how, same))
\* What is found out of a shared argument stays with it.
MarkFirsts == Plain /\
  \E how \in SelfHow :
    /\ call' = Did("mark_firsts", NoLeft, memberOf_c1(arr, how))
    /\ arr' = IF AllSameFound(arr) THEN FlSet(arr, {Asc, Dsc}) ELSE arr
    /\ UNCHANGED steps
SelfSearch1 == Plain /\
  \E how \in SelfHow : \/ Call("count", NoLeft, count_c1(arr, how))
                       \/ Call("classify", NoLeft, indexOf_c1(arr, how))
                       \/ Call("deduplicate", NoLeft, find_c1(arr, how))

Doubles == IF IsWide(arr) THEN BOOLEAN ELSE {FALSE}
Scan == Plain /\
  \E f \in Operands \ {"stile", "join"}, double \in Doubles, junk \in Junk :
    \/ Call("scan", [f |-> f, w |-> NoLeft], scan_c1(f, arr, double, junk))
    \/ \E w \in Others : Call("scan2", [f |-> f, w |-> w], scan_c2(f, w, arr, double, junk))
Fold == Plain /\
  \E f \in Operands \ {"stile", "join"}, double \in Doubles, junk \in Junk :
    \/ Call("fold", [f |-> f, w |-> NoLeft], fold_c1(f, arr, double, junk))
    \/ \E w \in Others : Call("fold2", [f |-> f, w |-> w], fold_c2(f, w, arr, double, junk))
Insert == Plain /\
  \E f \in Operands \ {"stile"}, double \in Doubles, junk \in Junk :
    \/ Call("insert", [f |-> f, w |-> NoLeft], insert_c1(f, arr, double, junk))
    \/ \E w \in Others : f # "join" /\ Call("insert2", [f |-> f, w |-> w], insert_c2(f, w, arr, double, junk))

\* The axes of x as they are, or in an order of the program's.
TransposeHow == {"cells", "select"}
Reorder == Ready /\
  (\/ Call("axes", NoLeft, transp_c1(arr))
   \/ \E w \in AxisArgs, how \in TransposeHow : Call("axes", w, transp_c2(w, arr, how)))
ReorderBack == Ready /\
  (\/ Call("axes_inv", [n |-> -1, w |-> NoLeft], transp_im(arr))
   \/ \E w \in AxisArgs, how \in TransposeHow : Call("axes_inv", [n |-> -1, w |-> w], transp_ix(w, arr, how)))
Times == {0, 2, 3, 5, -2, -3}
ReorderAgain == Ready /\
  \E am \in Times :
    \/ ~arr.at /\ Call("axes_pow", [n |-> am, w |-> NoLeft], transp_powm(am, arr))
    \/ \E w \in AxisArgs, how \in TransposeHow : Call("axes_pow", [n |-> am, w |-> w], transp_powd(am, w, arr, how))
ReorderUnder == Ready /\
  \E f \in {"swap", "big", "throw"} :
    \/ Call("axes_under", [f |-> f, w |-> NoLeft], transp_uc1(f, arr))
    \/ \E w \in AxisArgs, how \in TransposeHow :
         Call("axes_under", [f |-> f, w |-> w], transp_ucw(w, f, arr, how))

\* Rows of one element that are joined, and axes of the frame before a list without a fill.
NoFillList(w) == ~w.at /\ w.fill = NoFill
Differs(g) == \/ g.m = "insert" /\ g.f = "join" /\ ~arr.at /\ arr.sh # <<>> /\ arr.sh[Rnk(arr)] <= 1
              \/ g.m = "before" /\ g.f \in {"drop", "reverse"} /\ NoFillList(g.v)
OnEachCell == OnCells /\ \E g \in CellFunctions, junk \in Junk :
  /\ KnownDiffer \/ ~Differs(g)
  /\ \E rks \in Ranks \cup {<<-1>>} : Call("cells", [g |-> g, rks |-> rks, junk |-> junk], rank_c1(g, rks, arr, junk))
OnCellsOfTwo == OnCells /\ \E f \in CellDyads, y \in CellArgs \cup {arr}, left \in BOOLEAN, widen \in BOOLEAN :
  \E w \in {IF left THEN y ELSE arr}, x \in {IF left THEN arr ELSE y} :
    /\ widen => f = "select"
    /\ KnownDiffer \/ ~(f \in {"drop", "reverse"} /\ NoFillList(w))
    /\ \E rks \in Ranks \cup {<<-1>>} : Call("cells2", [f |-> f, w |-> w, x |-> x, rks |-> rks], rank_c2(f, rks, w, x, widen))

\* A result goes on when it is marked as sorted: that is what the next call may rely on.
KeepMarked == /\ call # Idle /\ ~IsErr(call.res) /\ call.res.fl \cap {Asc, Dsc} # {}
              /\ Rnk(call.res) = 1 /\ Prod([k \in DOMAIN call.res.ra |-> IF IsNum(call.res.ra[k]) THEN 1 + AbsOf(call.res.ra[k]) ELSE 1]) <= MaxProduct
              /\ Keep

Next == \/ Arithmetic \/ Modulus \/ Span \/ Monadic \/ Search \/ MarkFirsts \/ SelfSearch1 \/ Scan \/ Fold \/ Insert
        \/ Reorder \/ ReorderBack \/ ReorderAgain \/ ReorderUnder \/ OnEachCell \/ OnCellsOfTwo \/ KeepMarked

Spec == Init /\ [][Next]_vars

-----------------------------------------------------------------------------
\* What the functions are defined to give

OrNope(r) == IF \E k \in DOMAIN r.ra : r.ra[k] = Nope THEN Err ELSE r
Prefix(ix, sh) == SubSeq(ix, 1, Len(sh))
Bigger2(w, x) == IF Len(w.sh) > Len(x.sh) THEN w ELSE x
\* Element by element, the axes of the one of lower rank being the first of the other.
Elementwise(f(_, _), w, x) ==
  LET big == Bigger2(w, x)
      small == IF big = x THEN w ELSE x
  IN IF Prefix(big.sh, small.sh) # small.sh THEN Err
     ELSE OrNope([Made(big.sh, LAMBDA ix : f(ElemAt(w, w.sh, Prefix(ix, w.sh)), ElemAt(x, x.sh, Prefix(ix, x.sh))))
                  EXCEPT !.at = w.at /\ x.at])
SpanOf(a, b) == IF DyOp("sub", a, b) = Nope THEN Nope ELSE DyOp("add", 1, DyOp("sub", a, b))

\* Cells as values
ValueOf(c) == [sh |-> c.sh, ra |-> c.ra]
CellsAt(y, k) == [i \in DOMAIN KCells(y, k) |-> ValueOf(KCells(y, k)[i])]
Places(s, v) == SelectSeq([i \in 1..(Len(s) + 1) |-> i - 1], LAMBDA i : i = Len(s) \/ s[i + 1] = v) \* and the end
Occurrences(s, j) == Cardinality({i \in 1..(j - 1) : s[i] = s[j]})
Lookup(kind, w, x) ==
  LET k == (Len(x.sh) - Len(w.sh)) + 1
      ws == CellsAt(w, 1)  xs == CellsAt(x, k)
      place(j) == LET ps == Places(ws, xs[j]) IN ps[MinOf(Len(ps), 1 + (IF kind = "progressive" THEN Occurrences(xs, j) ELSE 0))]
  IN IF w.at \/ w.sh = <<>> \/ k < 0 THEN Err
     ELSE [at |-> FALSE, sh |-> SubSeq(x.sh, 1, k),
           ra |-> [j \in DOMAIN xs |-> IF kind # "member_of" THEN place(j) ELSE IF place(j) < Len(ws) THEN 1 ELSE 0]]

OfSelf(fn, x) ==
  LET s == CellsAt(x, 1)
      firsts == SelectSeq([i \in DOMAIN s |-> i], LAMBDA i : Occurrences(s, i) = 0)
      class(v) == CHOOSE k \in DOMAIN firsts : s[firsts[k]] = v
  IN IF x.at \/ x.sh = <<>> THEN Err
     ELSE CASE fn = "mark_firsts" -> ListOf([i \in DOMAIN s |-> IF Occurrences(s, i) = 0 THEN 1 ELSE 0])
            [] fn = "count" -> ListOf([i \in DOMAIN s |-> Occurrences(s, i)])
            [] fn = "classify" -> ListOf([i \in DOMAIN s |-> class(s[i]) - 1])
            [] fn = "deduplicate" -> OfCells(<<Len(firsts)>> \o Drop1(x.sh), [k \in DOMAIN firsts |-> s[firsts[k]].ra])

\* A folded function on arrays
OfPair(f, w, x) == CASE f = "ltack" -> w [] f = "rtack" -> x [] IsConst(f) -> Shown(Atom(ConstValue))
                     [] OTHER -> Elementwise(LAMBDA a, b : F2(f, a, b), w, x)
\* From the last cell to the first, from w when there is one.
Folded(f, w, cells) ==
  LET n == Len(cells)
      none == w = NoLeft
      from[i \in 1..(n + 1)] == IF i = n + 1 THEN w ELSE IF none /\ i = n THEN cells[n]
                                ELSE LET r == from[i + 1] IN IF IsErr(r) THEN Err ELSE OfPair(f, cells[i], r)
  IN from[1]
FoldOf(f, w, x) ==
  LET none == w = NoLeft
  IN IF x.at \/ Len(x.sh) # 1 THEN Err
     ELSE IF none /\ x.ra = <<>> THEN (IF Identity(f) = NoIdentity THEN Err ELSE Shown(Atom(Identity(f))))
     ELSE Folded(f, IF none THEN w ELSE Shown(w), [i \in DOMAIN x.ra |-> Shown(Atom(x.ra[i]))])
InsertOf(f, w, x) ==
  LET none == w = NoLeft
      cells == [i \in DOMAIN CellsOf(x) |-> Shown(CellsOf(x)[i])]
      sh == Drop1(x.sh)
  IN IF x.at \/ x.sh = <<>> THEN Err
     ELSE IF f = "join" THEN
       IF Len(x.sh) = 1 THEN (IF x.ra = <<>> THEN Err ELSE IF Len(x.ra) = 1 THEN cells[1] ELSE Shown(x))
       ELSE IF Len(x.sh) > 2 /\ x.sh[1] * x.sh[2] > UszMax THEN Err
       ELSE [at |-> FALSE, sh |-> <<x.sh[1] * x.sh[2]>> \o Drop1(sh), ra |-> x.ra]
     ELSE IF none /\ x.sh[1] = 0
     THEN IF Identity(f) = NoIdentity THEN Err ELSE Made(sh, LAMBDA ix : Identity(f))
     ELSE Folded(f, IF none THEN w ELSE Shown(w), cells)

\* Each row from the row before.
ScanOf(f, w, x) ==
  LET none == w = NoLeft
      csz == CellSize(x)
      el(i, c) == x.ra[(i - 1) * csz + c]
      row[i \in 1..x.sh[1]] == [c \in 1..csz |-> IF i > 1 THEN F2Stop(f, row[i - 1][c], el(i, c))
                                                 ELSE IF none THEN el(1, c) ELSE F2(f, w.ra[c], el(1, c))]
  IN IF x.at \/ x.sh = <<>> THEN Err
     ELSE IF ~none /\ w.sh # Drop1(x.sh) THEN Err
     ELSE IF x.ra = <<>> THEN Shown(x)
     ELSE OrNope([at |-> FALSE, sh |-> x.sh, ra |-> FlattenSeq([i \in 1..x.sh[1] |-> row[i]])])

\* Axis i of x becomes axis p[i]: the axes w names, then the others where there is room.
Order(w, xr) ==
  LET l == AsList(w)
      named == {l[i] : i \in DOMAIN l}
      room(m) == CHOOSE j \in (0..xr) \ named : Cardinality({i \in 0..(j - 1) : i \notin named}) = m
  IN [i \in 1..xr |-> IF i <= Len(l) THEN l[i] ELSE room(i - Len(l) - 1)]
InAxes(w, x) == Len(AsList(w)) <= Len(x.sh) /\ \A i \in DOMAIN AsList(w) : AsList(w)[i] \in 0..(Len(x.sh) - 1)
ValidAxes(w, x) ==
  LET l == AsList(w)
      p == Order(w, Len(x.sh))
      rr == Cardinality({p[i] : i \in DOMAIN p})
  IN InAxes(w, x) /\ \A i \in DOMAIN l : l[i] < rr
ReorderedBy(w, x) ==
  LET p == Order(w, Len(x.sh))
      axes(j) == {i \in DOMAIN p : p[i] = j}
      len(j) == CHOOSE n \in {x.sh[i] : i \in axes(j)} : \A i \in axes(j) : n <= x.sh[i]
      sh == [j \in 1..Cardinality({p[i] : i \in DOMAIN p}) |-> len(j - 1)]
  IN IF ~w.at /\ Len(w.sh) > 1 THEN Err
     ELSE IF AsList(w) = <<>> THEN [Shown(x) EXCEPT !.at = FALSE]
     ELSE IF x.at \/ Len(AsList(w)) > Len(x.sh) THEN Err
     ELSE IF ~ValidAxes(w, x) THEN Err
     ELSE Made(sh, LAMBDA ix : ElemAt(x, x.sh, [i \in DOMAIN p |-> ix[p[i] + 1]]))
\* Without w the first axis becomes the last.
Turn(w, x) == IF w # NoLeft THEN ReorderedBy(w, x)
              ELSE IF x.at \/ x.sh = <<>> THEN [Shown(x) EXCEPT !.at = FALSE] ELSE ReorderedBy(Atom(Len(x.sh) - 1), x)
Distinct(l) == \A i, j \in DOMAIN l : l[i] = l[j] => i = j
\* To the power 0 too, but for an axis too far because others are named twice.
ValidPower(w, x) == w = NoLeft \/ ~IsErr(Turn(w, [x EXCEPT !.at = FALSE])) \/ (InAxes(w, x) /\ ~Distinct(AsList(w)))
Reversible(w, x) == ~x.at /\ (w = NoLeft \/ (~IsErr(Turn(w, x)) /\ Distinct(AsList(w))))
TurnTimes(n, w, x) == FoldLeft(LAMBDA r, i : IF IsErr(r) THEN Err ELSE Turn(w, r), [Shown(x) EXCEPT !.at = FALSE], [i \in 1..n |-> i])
Undoes(n, w, r, x) == TurnTimes(n, w, r) = [Shown(x) EXCEPT !.at = FALSE]

\* Functions that keep the shape, called on x turned.
TurnsUnder(f, w, r, x) ==
  LET t == Turn(w, x)
  IN IF IsErr(t) THEN IsErr(r)
     ELSE LET y == Apply(f, Arr(ElB, t.sh, t.ra, NoFill)) IN IF IsErr(y) THEN IsErr(r) ELSE ~IsErr(r) /\ Turn(w, r) = Shown(y)

Passed == call.res = Base \* to the runtime
NoAtom(r) == IF IsErr(r) THEN Err ELSE [r EXCEPT !.at = FALSE]
Expected(res) ==
  LET fn == call.fn  c == call.w
  IN CASE fn = "arith" -> Elementwise(LAMBDA a, b : DyOp(c.op, a, b), c.w, c.x)
       [] fn = "span" -> Elementwise(SpanOf, c.w, c.x)
       [] fn = "monadic" -> OrNope([Shown(arr) EXCEPT !.ra = [k \in DOMAIN @ |-> MonOp(c.op, @[k])]])
       [] fn = "member_of" -> Lookup(fn, c.x, c.w)
       [] fn \in {"index_of", "progressive"} -> Lookup(fn, c.w, c.x)
       [] fn \in {"mark_firsts", "count", "classify", "deduplicate"} -> OfSelf(fn, arr)
       [] fn \in {"scan", "scan2"} -> ScanOf(c.f, c.w, arr)
       [] fn \in {"fold", "fold2"} -> FoldOf(c.f, c.w, arr)
       [] fn \in {"insert", "insert2"} -> NoAtom(InsertOf(c.f, c.w, arr))
       [] fn = "axes" -> Turn(c, arr)
       [] fn = "axes_pow" -> IF c.n > 0 THEN TurnTimes(c.n, c.w, arr) ELSE IF ~ValidPower(c.w, arr) THEN Err ELSE NoAtom(Shown(arr))
Inserts == {"insert", "insert2"}
Back == call.fn = "axes_inv" \/ (call.fn = "axes_pow" /\ call.w.n < 0)

\* Arithmetic, searching, folding, scanning and reordering axes give every element that
\* their definitions give, and an error exactly where there is none, whichever method the
\* types, the lengths and the functions make the code pick.
OperatorsAsDefined ==
  call.fn \notin {"idle", "cells", "cells2"} =>
    \/ Passed
    \/ CASE Back -> IF IsErr(call.res) THEN ~Reversible(call.w.w, arr) ELSE Undoes(-call.w.n, call.w.w, call.res, arr)
         [] call.fn = "axes_under" -> TurnsUnder(call.w.f, call.w.w, call.res, arr)
         [] call.fn \in Inserts -> NoAtom(Shown(call.res)) = Expected(call.res)
         [] OTHER -> Shown(call.res) = Expected(call.res)

\* Whoever takes more elements than there are gets the fill: it is what the function makes
\* of the fills of its arguments, once for each time it is called on elements.
FillOf(op, a, b) == IF a \in {NoFill, Nope} \/ b \in {NoFill, Nope} THEN NoFill
                    ELSE IF op = "stile" THEN (IF a = 0 /\ b = 0 THEN 0 ELSE Nope)
                    ELSE LET r == F2(op, a, b) IN IF r = Nope THEN Nope ELSE ElemFill(r)
RowFill(f, w, x) ==
  FoldLeft(LAMBDA r, k : FillOf(f, x.fill, r), IF w = NoLeft THEN x.fill ELSE w.fill,
           [k \in 1..(x.sh[1] - (IF w = NoLeft THEN 1 ELSE 0)) |-> k])
FillsFollow ==
  LET c == call.w  known(fill) == fill \in {NoFill, Nope} \/ call.res.fill = fill
  IN /\ (call.fn = "arith" /\ ~IsErr(call.res)) => known(FillOf(c.op, c.w.fill, c.x.fill))
     /\ (call.fn \in Inserts /\ ~IsErr(call.res) /\ isPervasiveDyExt(c.f) /\ call.res.sh # <<>> /\ arr.sh[1] # 0) =>
          known(RowFill(c.f, c.w, arr))

-----------------------------------------------------------------------------
\* Functions on cells: every cell on its own, and the results as one array.
FrameAxes(y, rk) == IF y.at THEN 0 ELSE Len(y.sh) - (IF rk < 0 THEN MaxOf(0, Len(y.sh) + rk) ELSE MinOf(rk, Len(y.sh)))
FromCells(frame, rs) ==
  IF \E i \in DOMAIN rs : IsErr(rs[i]) THEN Err
  ELSE IF \E i \in DOMAIN rs : rs[i].sh # rs[1].sh THEN Err
  ELSE IF Len(frame) + Len(rs[1].sh) > UrMax THEN Err
  ELSE IF Prod(frame \o rs[1].sh) > UszMax THEN Err
  ELSE OfCells(frame \o rs[1].sh, [i \in DOMAIN rs |-> rs[i].ra])
ApplyToCells(g, x, k, junk) ==
  LET cells == IF k = 0 THEN <<x>> ELSE KCells(x, k)
  IN FromCells(Frame(x, k), [i \in DOMAIN cells |-> Call1(g, cells[i], junk)])
ApplyToPairs(f, w, wk, x, xk) ==
  LET k == MinOf(wk, xk)
      frame == IF xk > wk THEN Frame(x, xk) ELSE Frame(w, wk)
      cell(y, yk, ix) == IF yk = 0 THEN y ELSE KCells(y, yk)[Offset(Frame(y, yk), SubSeq(ix, 1, yk)) + 1]
  IN IF Frame(w, k) # Frame(x, k) THEN Err
     ELSE FromCells(frame, [i \in 1..Prod(frame) |-> Prim2(f, cell(w, wk, Index(frame, i)), cell(x, xk, Index(frame, i)))])

\* Where there is no cell, what is known is the frame, and errors are not passed on.
BeginsWith(r, frame) == IsErr(r) \/ Pref(frame, r.sh)

CellsExpected ==
  LET c == call.w  n == Len(c.rks)
      k == FrameAxes(arr, IF n = 2 THEN c.rks[2] ELSE c.rks[1])
  IN IF n \notin 1..3 THEN IsErr(call.res)
     ELSE IF k > 0 /\ Cam(arr, k) = 0 THEN BeginsWith(call.res, Frame(arr, k))
     ELSE Shown(call.res) = ApplyToCells(c.g, arr, k, c.junk)
Cells2Expected ==
  LET c == call.w  n == Len(c.rks)
      wk == FrameAxes(c.w, c.rks[IF n = 1 THEN 1 ELSE n - 1])
      xk == FrameAxes(c.x, c.rks[n])
      longer == IF xk > wk THEN Frame(c.x, xk) ELSE Frame(c.w, wk)
  IN IF n \notin 1..3 THEN IsErr(call.res)
     ELSE IF Prod(longer) = 0 THEN BeginsWith(call.res, longer)
     ELSE Shown(call.res) = ApplyToPairs(c.f, c.w, wk, c.x, xk)

\* A function on cells gives what it gives on each of them, and fails where it fails on
\* one of them: the shortcuts for all cells at once are not seen.
CellsAgree == /\ call.fn = "cells" => CellsExpected
              /\ call.fn = "cells2" => Cells2Expected
=============================================================================
