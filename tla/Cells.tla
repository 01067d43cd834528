------------------------------- MODULE Cells -------------------------------
(***************************************************************************)
(* Cells and Rank, with one argument and with two: builtins/cells.c, and   *)
(* the folding and scanning of rows of builtins/fold.c and                 *)
(* builtins/scan.c, without SIMD.  A function called on every cell has     *)
(* shortcuts that do the work for all cells at once; a Base from one of    *)
(* the operators for them leaves the cells to the loop.  Boxing the cells  *)
(* (<˘), whose result is a list of arrays, is left out.                    *)
(***************************************************************************)
EXTENDS Reductions, Transpose

CONSTANT RowBlock \* elements that are transposed at once

ASSUME CellsAssumption == RowBlock \in Nat \ {0}

\* The rank of the cells, from the front or from the back, and of the frame before them
cell_rank(r, rk) == IF rk < 0 THEN MaxOf(rk + r, 0) ELSE MinOf(rk, r)
FrameRank(y, rk) == IF y.at THEN 0 ELSE Rnk(y) - cell_rank(Rnk(y), rk)

\* A function: a primitive, a constant, or a primitive under a modifier or with one
\* argument bound to a value.
Function(m, f, v) == [m |-> m, f |-> f, v |-> v]
NoValue == Atom(0)
Primitive(f) == Function("fn", f, NoValue)
SortUp(f) == f \in {"and", "gradeUp"}

Prim1(f, x) ==
  CASE f \in {"ltack", "rtack"} -> x [] f = "select" -> select_c1(x) [] f = "pick" -> pick_c1(x)
    [] f = "couple" -> couple_c1(x, FALSE) [] f = "shape" -> shape_c1(x, FALSE) [] f = "fne" -> fne_c1(x)
    [] f \in {"shifta", "shiftb"} -> shift_c1(f = "shifta", x) [] f = "transp" -> transp_c1(x) [] f = "reverse" -> reverse_c1(x)
    [] f \in {"and", "or"} -> sort_c1(x, "insertion", SortUp(f)) [] f = "find" -> find_c1(x, "brute")
    [] f \in {"gradeUp", "gradeDown"} -> IF x.at \/ Rnk(x) = 0 THEN Err ELSE grade_c1(x, "insertion", SortUp(f))
    [] f = "indexOf" -> indexOf_c1(x, "brute") [] f = "memberOf" -> memberOf_c1(x, "brute") [] f = "count" -> count_c1(x, "brute")
    [] OTHER -> arithm_c1(f, x, FALSE)
Matches(w, x) == w.at = x.at /\ w.sh = x.sh /\ w.ra = x.ra
TakeDrop(take, w, x) ==
  IF ~w.at THEN takedrop_highrank(take, w, x)
  ELSE IF ~IsNum(w.ra[1]) THEN Err ELSE IF take THEN take_c2(w.ra[1], x) ELSE drop_c2(w.ra[1], x)
\* Declared as recursive, as calls are in the code, where f may call any function.
RECURSIVE Prim2(_, _, _)
Prim2(f, w, x) ==
  CASE f = "ltack" -> w [] f = "rtack" -> x [] f = "const" -> Atom(ConstValue) [] f = "select" -> select_c2(w, x, FALSE)
    [] f = "couple" -> couple_c2(w, x) [] f = "pick" -> pick_c2(w, x) [] f \in {"shifta", "shiftb"} -> shift_c2(f = "shifta", w, x)
    [] f \in {"take", "drop"} -> TakeDrop(f = "take", w, x) [] f = "reverse" -> reverse_c2(w, x) [] f = "join" -> join_c2(w, x, FALSE)
    [] f = "transp" -> transp_c2(w, x, "cells") [] f = "feq" -> Atom(IF Matches(w, x) THEN 1 ELSE 0)
    [] f = "fne" -> Atom(IF Matches(w, x) THEN 0 ELSE 1) [] OTHER -> C2(f, w, x)

-----------------------------------------------------------------------------
\* The cells of x after k axes of its frame
Frame(x, k) == SubSeq(x.sh, 1, k)
Cam(x, k) == Prod(Frame(x, k))
CellShape(x, k) == EndsWith(x.sh, k)
CellRank(x, k) == Rnk(x) - k
RowLen(x, k) == x.sh[k + 1]
Overflows(sh) == \E n \in DOMAIN sh : Prod(SubSeq(sh, 1, n)) > UszMax \* whatever lengths follow
NoneErr(items) == \A i \in DOMAIN items : ~IsErr(items[i])
Merged(frame, items) == IF NoneErr(items) THEN bqn_merge(frame, items) ELSE Err

\* A frame without cells: the function is called on a cell of fills, if it has no side
\* effects, for the shape and the fill of the result.
empty_frame(frame) == Arr(ElB, frame, <<>>, NoFill)
to_fill_cell(x, k) ==
  LET sh == CellShape(x, k)
  IN IF Overflows(sh) THEN Err ELSE Reshaped(reshape_one(Prod(sh), IF x.fill = NoFill THEN 0 ELSE x.fill), sh)
merge_fill_result(frame, rc) ==
  IF Len(frame) + Rnk(rc) > UrMax THEN Err ELSE Arr(ElB, frame \o rc.sh, <<>>, rc.fill)
isPureFn(f) == f \notin {"user", "constfn"}
OfFillCell(frame, rc) == IF IsErr(rc) THEN empty_frame(frame) ELSE merge_fill_result(frame, rc)

-----------------------------------------------------------------------------
\* Selecting one element, or one cell, of every cell
select_cells(ind, x, k) ==
  Reshaped(select_cells_single(ind, x, Cam(x, k), RowLen(x, k), Prod(EndsWith(x.sh, k + 1))), Frame(x, k) \o EndsWith(x.sh, k + 1))
pick_cells(ind, x, k) == Reshaped(select_cells_single(ind, x, Cam(x, k), Prod(CellShape(x, k)), 1), Frame(x, k))

\* One element of each row is set, all the others having moved by one.
set_column_typed(m, v, p, stride) ==
  [m EXCEPT !.a = [i \in DOMAIN @ |-> IF (i - 1) % stride = p THEN Fit(m.el, v) ELSE @[i]]]
shift_cells(v, x, csz, e, after) ==
  LET n == Ia(x)
      moved == mut_copyG(MutInit(n, e), IF after THEN 0 ELSE 1, x, IF after THEN 1 ELSE 0, n - 1)
  IN IF csz = 1 THEN Reshaped(reshape_one(n, v), x.sh)
     ELSE mut_f(set_column_typed(moved, v, IF after THEN csz - 1 ELSE 0, csz), x.sh, x.fill)

transp_cells(ax, k, x) == transp_c2(IntList(Append([i \in 1..k |-> i - 1], ax)), x, "cells")
allBit(b, sh) == IF b THEN AllOnes(sh) ELSE Zeros(sh)

\* v for every cell
const_cells(x, k, v) ==
  IF v.at \/ Rnk(v) = 0 THEN shape_c2(IF k = 1 THEN Atom(x.sh[1]) ELSE IntList(Frame(x, k)), v, FALSE)
  ELSE IF Rnk(v) + k > UrMax THEN Err ELSE shape_c2(IntList(Frame(x, k) \o v.sh), v, FALSE)

interleave_cells(w, x, k) ==
  IF Rnk(x) = 0 THEN join_c2(w, x, FALSE) ELSE Reshaped(join_cells(w, x, k), Frame(x, k) \o <<2>> \o CellShape(x, k))

\* Whether the cells of two arrays are the same; mixed types are left to the loop.
match_cells(ne, w, x, k) ==
  LET frame == Frame(x, k)
      csz == Prod(CellShape(w, k))
      same(i) == KCells(w, k)[i].ra = KCells(x, k)[i].ra
      bits == ElBit \in {w.el, x.el}
  IN IF CellShape(w, k) # CellShape(x, k) THEN allBit(ne, frame)
     ELSE IF csz = 0 THEN allBit(~ne, frame)
     ELSE IF ElB \in {w.el, x.el} \/ (bits /\ (csz # 1 \/ w.el # x.el)) THEN Base
     ELSE Arr(ElBit, frame, [i \in 1..Prod(frame) |-> IF same(i) # ne THEN 1 ELSE 0], 0)

-----------------------------------------------------------------------------
\* Folding the cells of an array of one axis after the frame

\* The sums of n rows of m bits.  A short row is in one load from the byte it begins in,
\* or it ends in a load whose first bits were in the one before.  A longer row ends
\* within a word, whose bits past the end are counted and carried over to the next row.
NoneCounted(jn, j, l) == FALSE \* mutant: a row's last word is not counted
CountedBefore(jn, j, l) == jn < j + MaxOf(l, 1) \* the last word is among those of the row
RowSumType(m) == IF m <= I8Max THEN ElI8 ELSE ElInt
Byte == MinOf(Word, 8)
ByteStart(i) == i - (i % Byte)
WordAt(ws, q, junk) == IF q < Len(ws) THEN ws[q + 1] ELSE Repeated(junk) \* past the end
LoadAt(ws, i, junk) == \* a word that begins at any byte
  LET q == i \div Word  s == i % Word
  IN Truncated((WordAt(ws, q, junk) \div 2^s) + (WordAt(ws, q + 1, junk) * 2^(Word - s)))
AnyLoad(m) == TRUE \* mutant: every short row is taken to be in one load
InOneLoad(m) == \A i \in 1..Byte : ((i * m) % Byte) + m <= Word

SumsInLoads(ws, n, m, junk) ==
  [i \in 1..n |-> LET j == (i - 1) * m
                  IN POPC((2^m - 1) & (LoadAt(ws, ByteStart(j), junk) \div 2^(j % Byte)))]
SumsAcrossLoads(ws, n, m, junk) ==
  LET row(st, i) ==
        LET xw == LoadAt(ws, ByteStart((i * m + Byte) - 1) - Word, junk)
            sh == (Byte - ((i * m) % Byte)) % Byte
        IN [r |-> Append(st.r, POPC((Repeated(1) - (2^(Word - m) - 1)) & (Truncated(xw * 2^sh) | st.prev))),
            prev |-> xw \div 2^(m - sh)]
  IN FoldLeft(row, [r |-> <<>>, prev |-> 0], [i \in 1..n |-> i]).r
SumsOfWords(ws, n, m, junk) ==
  LET l == m \div Word
      words(j) == Sum([q \in 1..MaxOf(l, 1) |-> POPC(WordAt(ws, j + q - 1, junk))])
      row(st, i) ==
        LET in == i * m
            jn == in \div Word
            e == WordAt(ws, jn, junk)
            o == POPC(e \div 2^(in % Word))
            s == st.o + words(st.j) + (IF CountedBefore(jn, st.j, l) THEN 0 ELSE POPC(e))
        IN [r |-> Append(st.r, s - o), o |-> o, j |-> jn + 1]
  IN IF m % Word = 0 THEN [i \in 1..n |-> words((i - 1) * l)]
     ELSE FoldLeft(row, [r |-> <<>>, o |-> 0, j |-> 0], [i \in 1..n |-> i]).r
sum_rows_bit(x, n, m, junk) ==
  LET ws == ToWords(x.ra, junk)
      s == IF m > Word THEN SumsOfWords(ws, n, m, junk)
           ELSE IF InOneLoad(m) THEN SumsInLoads(ws, n, m, junk) ELSE SumsAcrossLoads(ws, n, m, junk)
  IN Arr(RowSumType(m), <<n>>, FitAll(RowSumType(m), s), 0)

\* Blocks of rows, the last a little longer: where each begins.
RECURSIVE BlockStarts(_, _, _)
BlockStarts(i, n, b) ==
  IF n - i > b + (b \div 4) THEN <<i>> \o BlockStarts(i + b, n, b) ELSE <<i, n>>
fold_block(f, x, i, l, m, junk) ==
  insert_c1(f, transp_c1(Reshaped(FlKeep([x EXCEPT !.ra = SubSeq(@, (i * m) + 1, (i + l) * m)], {}), <<l, m>>)), FALSE, junk)
PutPart(st, r) == [m |-> mut_copy(st.m, st.i, r, 0, Ia(r)), i |-> st.i + Ia(r)]
JoinedParts(n, parts) ==
  IF Len(parts) = 1 THEN parts[1]
  ELSE IF ~NoneErr(parts) THEN Err ELSE mut_f(FoldLeft(PutPart, [m |-> MutInit(n, ElBit), i |-> 0], parts).m, <<n>>, NoFill)
fold_blocks(f, x, starts, n, m, junk) ==
  JoinedParts(n, [k \in 1..(Len(starts) - 1) |-> fold_block(f, x, starts[k], starts[k + 1] - starts[k], m, junk)])
fold_rows(f, x, n, m, junk) ==
  fold_blocks(f, x, IF x.el = ElBit \/ Ia(x) \div 2 <= RowBlock THEN <<0, n>> ELSE BlockStarts(0, n, ((RowBlock + m) - 1) \div m), n, m, junk)

fold_rows_bit(f, x, n, m, junk) == IF f = "add" /\ m # 2 THEN sum_rows_bit(x, n, m, junk) ELSE Base

insert_cells_join(x, k) ==
  LET l == RowLen(x, k)
  IN IF CellRank(x, k) <= 1 THEN (IF l = 0 THEN Err ELSE x)
     ELSE IF l * x.sh[k + 2] > UszMax THEN Err
     ELSE Reshaped(FlKeep(x, {}), Frame(x, k) \o <<l * x.sh[k + 2]>> \o EndsWith(x.sh, k + 2))
insert_cells_identity(x, f, k) ==
  LET sh == Frame(x, k) \o EndsWith(x.sh, k + 1)
  IN IF Identity(f) = NoIdentity THEN Err ELSE Reshaped(reshape_one(Prod(sh), Identity(f)), sh)

InFrame(sh, r) == IF IsErr(r) THEN r ELSE Reshaped(r, sh)
FoldCells(m, f, x, k, junk) ==
  LET l == RowLen(x, k)  cam == Cam(x, k)
      sh == Frame(x, k) \o EndsWith(x.sh, k + 1)
  IN IF CellRank(x, k) = 0 \/ (m = "fold" /\ CellRank(x, k) # 1) \/ ~Callable(f) THEN Base
     ELSE IF f = "join" /\ m = "insert" THEN insert_cells_join(x, k)
     ELSE IF l = 0 THEN insert_cells_identity(x, f, k)
     ELSE IF x.el = ElB THEN Base
     ELSE IF l = 1 \/ f = "ltack" THEN select_cells(0, x, k)
     ELSE IF f = "rtack" THEN select_cells(l - 1, x, k)
     ELSE IF ~isPervasiveDyExt(f) \/ Prod(EndsWith(x.sh, k + 1)) # 1 THEN Base
     ELSE InFrame(sh, OrElse(IF x.el = ElBit THEN fold_rows_bit(f, x, cam, l, junk) ELSE Base,
                             IF l <= Word /\ l < cam THEN fold_rows(f, x, cam, l, junk) ELSE Base))

\* Scanning cells of one axis
StrideMax == 6
scan_cells_stride1(f, x, m) ==
  LET row(i) == ScanElems(f, <<x.ra[(i - 1) * m + 1]>>, SubSeq(x.ra, (i - 1) * m + 2, i * m), 1)
  IN OfElems(x, FlattenSeq([i \in 1..(Ia(x) \div m) |-> row(i)]), x.fill)
ScanOfCells(f, x, k) ==
  LET l == RowLen(x, k)
  IN IF CellRank(x, k) = 0 THEN Base
     ELSE IF l <= 1 \/ Ia(x) = 0 THEN x
     ELSE IF ~Callable(f) THEN Base
     ELSE IF f = "rtack" THEN x
     ELSE IF (CellRank(x, k) = 1 \/ Cam(x, k) * l = Ia(x)) /\ l <= StrideMax THEN scan_cells_stride1(f, x, l)
     ELSE Base

-----------------------------------------------------------------------------
\* A primitive with one argument
PrimCells(f, x, k) ==
  LET cr == CellRank(x, k)  frame == Frame(x, k)  empty == Ia(x) = 0
      l == RowLen(x, k)
      one == Prod(EndsWith(x.sh, k + 1)) = 1
      back == IntList([i \in 1..l |-> l - i])
  IN CASE f \in {"ltack", "rtack"} -> x
       [] f = "select" -> IF empty \/ cr = 0 THEN Base ELSE select_cells(0, x, k)
       [] f = "pick" -> IF empty \/ x.el = ElB THEN Base ELSE pick_cells(0, x, k)
       [] f = "couple" -> IF Rnk(x) = UrMax THEN Err ELSE Reshaped(cpyWithShape(x, FALSE), frame \o <<1>> \o CellShape(x, k))
       [] f = "shape" -> IF cr = 1 THEN x ELSE IF Overflows(CellShape(x, k)) THEN Err
                         ELSE Reshaped(cpyWithShape(x, FALSE), Append(frame, Prod(CellShape(x, k))))
       [] f \in {"shifta", "shiftb"} ->
            IF empty THEN (IF cr = 0 THEN Base ELSE x)
            ELSE IF cr = 0 \/ x.fill = NoFill THEN Base
            ELSE IF cr # 1 /\ l # 1 /\ ~one THEN Base ELSE shift_cells(x.fill, x, l, x.el, f = "shifta")
       [] f = "transp" -> IF cr <= 1 THEN x ELSE transp_cells(Rnk(x) - 1, k, x)
       [] f = "reverse" -> IF cr = 0 THEN Base ELSE IF l <= 1 \/ empty THEN x
                           ELSE IF cr = 1 /\ l <= Word THEN Reshaped(customizeShape(select_rows_direct(x, l, Cam(x, k), back, FALSE), TRUE), x.sh)
                           ELSE Base
       [] f \in {"and", "or", "find"} -> IF cr # 0 /\ l <= 1 THEN x ELSE Base
       [] f \in {"gradeUp", "gradeDown", "indexOf", "memberOf", "count"} ->
            IF cr # 0 /\ l <= 1 THEN allBit(f = "memberOf", Append(frame, l)) ELSE Base
       [] OTHER -> Base

-----------------------------------------------------------------------------
c1wrap(r) == IF IsErr(r) THEN Err ELSE m_unit(r)
\* Two arguments; rs is what the function gives for each pair of cells.
longer_frame(w, wk, x, xk) == IF xk > wk THEN Frame(x, xk) ELSE Frame(w, wk)
FillOrWhole(y, k) == IF k = 0 THEN y ELSE to_fill_cell(y, k)
rank2_empty(f, w, wk, x, xk, rs) ==
  IF ~isPureFn(f) THEN empty_frame(longer_frame(w, wk, x, xk))
  ELSE IF IsErr(FillOrWhole(w, wk)) \/ IsErr(FillOrWhole(x, xk)) THEN Err ELSE OfFillCell(longer_frame(w, wk, x, xk), rs[1])

OneElement(v) == v.at \/ Rnk(v) = 0
Spread(v, y) == shape_c2(fne_c1(y), v, FALSE)
Nums(w) == ~w.at /\ Rnk(w) <= 1
\* The arguments for the axes of the frame, before those for the cells.
ForFrame(w, n) == IF w.at THEN IntList(Append(Rep(n, 0), w.ra[1])) ELSE take_c2(-(n + Ia(w)), w)
ForFrameTake(frame, w) == IF w.at THEN IntList(Append(frame, w.ra[1])) ELSE join_c2(IntList(frame), w, FALSE)
\* Where an argument w of ↑, ↓ or ⌽ is not more than there are axes in a cell.
FitsCell(w, cr) == IF w.at THEN IsNum(w.ra[1]) /\ cr >= 1 ELSE Nums(w) /\ cr >= Ia(w)

InRows(r, sh) == IF IsErr(r) THEN Err ELSE Reshaped(customizeShape(r, TRUE), sh)
SelectInCells(w, x, k, widen) ==
  LET cr == CellRank(x, k)  l == RowLen(x, k)
      v == IF ElNum(w.el) \/ w.el = ElC8 THEN w ELSE squeeze_try(w, TRUE)
  IN IF ~w.at /\ cr = 1 THEN
       IF v.el = ElB THEN Base
       ELSE IF Rnk(w) = 0 THEN (IF ~IsNum(w.ra[1]) THEN Err ELSE IF InRange(w.ra[1], l) THEN select_cells(Wrap(w.ra[1], l), x, k) ELSE Base)
       ELSE InRows(select_rows_B(x, l, Cam(x, k), w, widen), Frame(x, k) \o w.sh)
     ELSE IF w.at /\ IsNum(w.ra[1]) /\ cr >= 1 THEN (IF InRange(w.ra[1], l) THEN select_cells(Wrap(w.ra[1], l), x, k) ELSE Err)
     ELSE Base

OnFrame(f, a, x) ==
  IF IsErr(a) THEN Err ELSE IF f = "reverse" THEN rotate_highrank(FALSE, a, x) ELSE takedrop_highrank(f = "take", a, x)
SAShortcut(f, w, x, k, widen) ==
  LET cr == CellRank(x, k)  l == RowLen(x, k)
  IN CASE f = "const" -> const_cells(x, k, Atom(ConstValue))
       [] f = "rtack" -> x
       [] f = "ltack" -> const_cells(x, k, w)
       [] f = "select" -> SelectInCells(w, x, k, widen)
       [] f = "couple" -> IF Rnk(x) = 1 /\ OneElement(w) THEN interleave_cells(reshape_one(Ia(x), w.ra[1]), x, 1) ELSE Base
       [] f = "pick" -> IF w.at /\ IsNum(w.ra[1]) /\ cr = 1 /\ x.el # ElB
                        THEN (IF InRange(w.ra[1], l) THEN pick_cells(Wrap(w.ra[1], l), x, k) ELSE Err) ELSE Base
       [] f \in {"shifta", "shiftb"} -> IF cr # 1 \/ ~OneElement(w) THEN Base ELSE IF Ia(x) = 0 THEN x
                                        ELSE shift_cells(w.ra[1], x, l, ElOr(x.el, SelfElType(w.ra[1])), f = "shifta")
       [] f \in {"take", "drop", "reverse"} ->
            IF ~FitsCell(w, cr) THEN Base ELSE OnFrame(f, IF f = "take" THEN ForFrameTake(Frame(x, k), w) ELSE ForFrame(w, k), x)
       [] f = "transp" -> IF w.at /\ w.ra[1] \in 0..(cr - 1) THEN transp_cells(w.ra[1] + k, k, x) ELSE Base
       [] f \in Pervasive -> IF ~w.at /\ (Ia(x) = 0 \/ w.sh # CellShape(x, k) \/ ElB \in {w.el, x.el}) THEN Base
                             ELSE C2(f, IF w.at THEN w ELSE Spread(w, x), x)
       [] OTHER -> Base
ASShortcut(f, w, x, k) ==
  CASE f = "const" -> const_cells(w, k, Atom(ConstValue))
    [] f = "ltack" -> w
    [] f = "rtack" -> const_cells(w, k, x)
    [] f = "couple" -> IF Rnk(w) = 1 /\ OneElement(x) THEN interleave_cells(w, reshape_one(Ia(w), x.ra[1]), 1) ELSE Base
    [] f \in Pervasive -> IF Ia(w) = 0 \/ (~x.at /\ (x.sh # CellShape(w, k) \/ ElB \in {w.el, x.el})) THEN Base
                          ELSE C2(f, w, IF x.at THEN x ELSE Spread(x, w))
    [] OTHER -> Base
\* The frames agree as far as the shorter of them goes.
AAShortcut(f, w, x, wk, xk) ==
  LET longer == IF xk > wk THEN x ELSE w
      mr == MinOf(Rnk(w), Rnk(x))
  IN IF f = "const" THEN const_cells(longer, MaxOf(wk, xk), Atom(ConstValue))
     ELSE IF wk = xk /\ f = "rtack" THEN x
     ELSE IF wk = xk /\ f = "ltack" THEN w
     ELSE IF wk = xk /\ f \in {"feq", "fne"} THEN match_cells(f = "fne", w, x, wk)
     ELSE IF wk = xk /\ f = "couple" THEN (IF CellShape(w, wk) = CellShape(x, xk) THEN interleave_cells(w, x, wk) ELSE Base)
     ELSE IF f \notin Pervasive \/ ElB \in {w.el, x.el} THEN Base
     ELSE IF MinOf(wk, mr) = MinOf(xk, mr) /\ SubSeq(w.sh, 1, mr) = SubSeq(x.sh, 1, mr) THEN C2(f, w, x)
     ELSE Base

\* The pairs of cells the function is called on: an argument without a frame is whole,
\* each cell of the shorter frame meets those of the longer one after it, and cells of
\* fills stand for those of a frame without cells.
Mates(y, k, frame) ==
  LET cells == KCells(y, k)
      ext == Prod(EndsWith(frame, k))
  IN IF k = 0 THEN [i \in 1..MaxOf(Prod(frame), 1) |-> y]
     ELSE IF Prod(frame) = 0 THEN <<to_fill_cell(y, k)>>
     ELSE [i \in 1..Prod(frame) |-> cells[((i - 1) \div ext) + 1]]
CallsOfTwo(f, ws, xs) == [i \in DOMAIN ws |-> Prim2(f, ws[i], xs[i])]

Shortcut2(f, w, wk, x, xk, widen) ==
  IF wk = 0 THEN SAShortcut(f, w, x, xk, widen)
  ELSE IF xk = 0 THEN ASShortcut(f, w, x, wk) ELSE AAShortcut(f, w, x, wk, xk)
FromCalls2(f, w, wk, x, xk, widen, rs) ==
  LET frame == longer_frame(w, wk, x, xk)  k == MinOf(wk, xk)
  IN IF wk = 0 /\ xk = 0 THEN c1wrap(rs[1])
     ELSE IF Frame(w, k) # Frame(x, k) THEN Err
     ELSE IF Prod(frame) = 0 THEN rank2_empty(f, w, wk, x, xk, rs)
     ELSE OrElse(Shortcut2(f, w, wk, x, xk, widen), Merged(frame, rs))
\* for_cells_SA, for_cells_AS or for_cells_AA: a frame of no axes leaves an argument whole.
ForCells2(f, w, wk, x, xk, widen) ==
  LET frame == longer_frame(w, wk, x, xk)
  IN FromCalls2(f, w, wk, x, xk, widen, CallsOfTwo(f, Mates(w, wk, frame), Mates(x, xk, frame)))

-----------------------------------------------------------------------------
\* Any function, with one argument
RECURSIVE ForCells1(_, _, _, _), Call1(_, _, _)
IsBound(g) == g.m \in {"before", "after"}
Call1(g, x, junk) ==
  CASE g.m = "fn" -> Prim1(g.f, x)
    [] g.m = "const" -> g.v
    [] g.m = "cell" -> ForCells1(Primitive(g.f), x, FrameRank(x, -1), junk)
    [] g.m = "fold" -> fold_c1(g.f, x, FALSE, junk) [] g.m = "insert" -> insert_c1(g.f, x, FALSE, junk)
    [] g.m = "scan" -> scan_c1(g.f, x, FALSE, junk)
    [] g.m = "undo" -> couple_powm(-1, x, FALSE)
    [] IsBound(g) -> Prim2(g.f, IF g.m = "before" THEN g.v ELSE x, IF g.m = "before" THEN x ELSE g.v)

CellsShortcut(g, x, k, junk) ==
  CASE g.m = "fn" -> PrimCells(g.f, x, k)
    [] g.m = "const" -> const_cells(x, k, g.v)
    [] g.m = "cell" -> ForCells1(Primitive(g.f), x, IF CellRank(x, k) > 0 THEN k + 1 ELSE k, junk)
    [] g.m \in {"fold", "insert"} -> FoldCells(g.m, g.f, x, k, junk)
    [] g.m = "scan" -> ScanOfCells(g.f, x, k)
    [] g.m = "undo" -> IF CellRank(x, k) = 0 THEN Base ELSE IF RowLen(x, k) # 1 THEN Base
                       ELSE IF Rnk(x) = 2 THEN shape_c1(x, FALSE)
                       ELSE Reshaped(cpyWithShape(x, FALSE), Frame(x, k) \o EndsWith(x.sh, k + 1))
    [] IsBound(g) -> LET first == g.m = "before"
                     IN ForCells2(g.f, IF first THEN g.v ELSE x, IF first THEN 0 ELSE k, IF first THEN x ELSE g.v, IF first THEN k ELSE 0, FALSE)
for_cells_c1(g, x, k, junk, rs) ==
  IF k = 0 THEN c1wrap(rs[1])
  ELSE OrElse(CellsShortcut(g, x, k, junk),
         IF Cam(x, k) # 0 THEN Merged(Frame(x, k), rs)
         ELSE IF g.m \in {"fold", "insert", "scan"} /\ ~isPureFn(g.f) THEN empty_frame(Frame(x, k))
         ELSE IF IsErr(to_fill_cell(x, k)) THEN Err ELSE OfFillCell(Frame(x, k), rs[1]))
\* Where the frame has no axes the function gets x as it is.
CellsFor(x, k) == IF k = 0 THEN <<x>> ELSE IF Cam(x, k) = 0 THEN <<to_fill_cell(x, k)>> ELSE KCells(x, k)
CallsOfOne(g, cells, junk) == [i \in DOMAIN cells |-> Call1(g, cells[i], junk)]
ForCells1(g, x, k, junk) == for_cells_c1(g, x, k, junk, CallsOfOne(g, CellsFor(x, k), junk))

-----------------------------------------------------------------------------
\* Rank; cell_c1 and cell_c2 are what it does for cells of one axis less, <<-1>>.
check_rank_vec(rks) == Len(rks) \in 1..3
rank_c1(g, rks, x, junk) ==
  IF ~check_rank_vec(rks) THEN Err ELSE ForCells1(g, x, FrameRank(x, IF Len(rks) = 2 THEN rks[2] ELSE rks[1]), junk)
rank_c2(f, rks, w, x, widen) ==
  LET n == Len(rks)
  IN IF ~check_rank_vec(rks) THEN Err
     ELSE ForCells2(f, w, FrameRank(w, rks[IF n < 2 THEN 1 ELSE n - 1]), x, FrameRank(x, rks[n]), widen)
=============================================================================
