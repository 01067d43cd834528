------------------------------ MODULE Selects ------------------------------
(***************************************************************************)
(* First Cell and Select, selection from every row, and modifying what     *)
(* was selected: builtins/select.c, with pick_ucw and select_uc1 of        *)
(* builtins/sfns.c, which are built on it.                                 *)
(***************************************************************************)
EXTENDS Joins

CONSTANT SparseRatio \* select_replace clears its marks up front unless x has this many cells per index

-----------------------------------------------------------------------------
\* First cell

first_cell(dr, x) ==
  LET sh == EndsWith(x.sh, dr) IN [FlKeep(x, {}) EXCEPT !.sh = sh, !.ra = SubSeq(@, 1, Prod(sh))]

select_c1(x) == IF x.at \/ Rnk(x) = 0 THEN Err
                ELSE IF x.sh[1] = 0 THEN Err ELSE first_cell(1, x)

select_powm(am, x) ==
  IF x.at THEN Err
  ELSE IF Ia(x) = 0 /\ \E i \in 1..MinOf(Rnk(x), am) : x.sh[i] = 0 THEN Err
  ELSE IF Rnk(x) < am THEN Err ELSE first_cell(am, x)

-----------------------------------------------------------------------------
\* Select.  An index is wrapped when negative, and checked.

\* A unit of one element of x, of x's fill.
select_list_cell(i, x) ==
  LET v == x.ra[i + 1]
  IN IF x.fill = NoFill THEN Arr(ElB, <<>>, <<v>>, NoFill) ELSE m_unit(Atom(v))

\* Cell i of x, with a shape of its own before it.
SliceCell(i, x, sh) ==
  LET csz == Csz(x)
  IN [FlKeep(x, {}) EXCEPT !.sh = sh \o Tail(@), !.ra = SubSeq(@, i * csz + 1, (i + 1) * csz)]

\* b⊏e0‿e1 for a list b of bits.
OfTwo(b, t0, t1, same, vals) ==
  IF same THEN b
  ELSE IF ElNum(t0) /\ ElNum(t1) THEN Arr(MaxOf(t0, t1), b.sh, vals, 0)
  ELSE IF t0 = ElC8 /\ t1 = ElC8 THEN Arr(ElC8, b.sh, vals, Chr)
  ELSE Arr(ElB, b.sh, vals, NoFill)
bit_sel(b, e0, e1) ==
  OfTwo(b, SelfElType(e0), SelfElType(e1), e0 = 0 /\ e1 = 1, [i \in DOMAIN b.ra |-> IF b.ra[i] = 1 THEN e1 ELSE e0])

\* Indices of an i8 are added to the length in i8: of 2 * (I8Max + 1) values.
WrapI8(v) == ((v + I8Max + 1) % (2 * (I8Max + 1))) - (I8Max + 1)

\* One block of w: the offset into x and the indices to add to it.
AddLen(w, v, xn) == IF v >= 0 THEN v ELSE IF w.el = ElI8 THEN WrapI8(v + xn) ELSE v + xn
BlockIndices(w, block, xn) ==
  IF \E i \in DOMAIN block : block[i] < -xn \/ block[i] >= xn THEN [kind |-> "bad"]
  ELSE IF \A i \in DOMAIN block : block[i] < 0 THEN [kind |-> "ok", off |-> xn, ip |-> block]
  ELSE IF \A i \in DOMAIN block : block[i] >= 0 THEN [kind |-> "ok", off |-> 0, ip |-> block]
  ELSE IF w.el = ElI8 /\ xn > I8Max + 1 THEN [kind |-> "widen"]
  ELSE [kind |-> "ok", off |-> 0, ip |-> [i \in DOMAIN block |-> AddLen(w, block[i], xn)]]

\* Typed x with whole elements as cells: i8 (and i16) indices block by block.
Gathered(x, off, ip) == [i \in DOMAIN ip |-> IF off + ip[i] + 1 \in DOMAIN x.ra THEN x.ra[off + ip[i] + 1] ELSE Clobbered]
Prepended(s, rest) == IF rest = <<NoFill>> THEN rest ELSE s \o rest
RECURSIVE SelectBlocks(_, _, _, _), AndBlocks(_, _, _, _, _)
AndBlocks(b, w, x, xn, i1) ==
  IF b.kind = "bad" THEN <<NoFill>>
  ELSE IF b.kind = "widen" THEN SelectBlocks([w EXCEPT !.el = ElInt], x, xn, 0)
  ELSE Prepended(Gathered(x, b.off, b.ip), SelectBlocks(w, x, xn, i1))
SelectBlocks(w, x, xn, i0) ==
  IF i0 >= Ia(w) THEN <<>>
  ELSE AndBlocks(BlockIndices(w, SubSeq(w.ra, i0 + 1, MinOf(i0 + Block, Ia(w))), xn), w, x, xn, MinOf(i0 + Block, Ia(w)))

TypedOrErr(el, rsh, s, fill) == IF s = <<NoFill>> THEN Err ELSE Arr(el, rsh, FitAll(el, s), fill)
SelectTyped(w, x, rsh) == TypedOrErr(x.el, rsh, SelectBlocks(w, x, x.sh[1], 0), x.fill)

\* Bit w: the two cells it can name.
FilledAs(r, fill) == IF fill = NoFill /\ r.el # ElB THEN Arr(ElB, r.sh, r.ra, NoFill) ELSE withFill(r, fill)
SelectByBits(w, x) ==
  IF Ia(x) < 2 /\ \E i \in DOMAIN w.ra : w.ra[i] = 1 THEN Err
  ELSE FilledAs(bit_sel(w, x.ra[1], IF Ia(x) < 2 THEN x.ra[1] ELSE x.ra[2]), x.fill)

\* Any cell size and any number type: cell after cell.
RECURSIVE CopySelected(_, _, _, _, _)
CopySelected(m, w, x, csz, i) ==
  IF i > Ia(w) THEN m
  ELSE CopySelected(mut_copyG(m, (i - 1) * csz, x, Wrap(w.ra[i], x.sh[1]) * csz, csz), w, x, csz, i + 1)
SelectCells(w, x, rsh) ==
  IF Ia(x) = 0 THEN emptyArr(x, rsh)
  ELSE IF \E i \in DOMAIN w.ra : ~InRange(w.ra[i], x.sh[1]) THEN Err
  ELSE mut_f(CopySelected(MutInit(Ia(w) * Csz(x), x.el), w, x, Csz(x), 1), rsh, x.fill)

\* A bit x of odd cells may be widened, selected from and narrowed again; the branch
\* taken is a heuristic, `widen`.
RECURSIVE select_c2(_, _, _)
select_c2(w, x, widen) ==
  LET xr == Rnk(x)  wr == Rnk(w)  wia == Ia(w)  xn == x.sh[1]
      rsh == w.sh \o Tail(x.sh)
      we == IF ElNum(w.el) THEN w.el ELSE SmallestEl(w.ra)
      one(w0) == IF ~InRange(w0, xn) THEN Err
                 ELSE LET i == Wrap(w0, xn)
                      IN IF xr = 1 THEN Reshaped(select_list_cell(i, x), Rep(wr, 1))
                         ELSE SliceCell(i, x, Rep(wr, 1))
  IN IF x.at \/ xr = 0 THEN Err
     ELSE IF Len(rsh) > UrMax /\ wia # 1 THEN Err \* one index, of any rank, is not checked
     ELSE IF wia = 0 THEN (IF xn = 0 /\ wr = 1 THEN x ELSE emptyArr(x, rsh))
     ELSE IF ~ElNum(we) THEN Err
     ELSE IF wia = 1 THEN one(w.ra[1])
     ELSE IF xn = 0 THEN Err
     ELSE IF we = ElBit THEN IF xr = 1 THEN SelectByBits(Retype(w, we), x)
                             ELSE IF x.el # ElB /\ Csz(x) <= Block THEN select_c2(Retype(w, ElI8), x, widen)
                             ELSE SelectCells(w, x, rsh)
     ELSE IF x.el = ElBit /\ widen /\ Csz(x) = 1
     THEN LET r == select_c2(w, Retype(x, ElI8), FALSE) IN IF IsErr(r) THEN Err ELSE Retype(r, ElBit)
     ELSE IF x.el \notin {ElBit, ElB} /\ Csz(x) = 1 THEN SelectTyped([w EXCEPT !.el = we], x, rsh)
     ELSE IF x.el = ElB /\ Csz(x) = 1 /\ \A i \in DOMAIN w.ra : InRange(w.ra[i], Ia(x))
     THEN withFill(Arr(ElB, rsh, [i \in DOMAIN w.ra |-> x.ra[Wrap(w.ra[i], Ia(x)) + 1]], NoFill), x.fill)
     ELSE SelectCells(w, x, rsh)

-----------------------------------------------------------------------------
\* A list of index arrays, one for each leading axis

select_depth2_ok(ws, x) ==
  /\ Len(ws) <= Rnk(x)
  /\ \A i \in DOMAIN ws : \A k \in DOMAIN ws[i].ra : ws[i].ra[k] < Chr /\ InRange(ws[i].ra[k], x.sh[i])

Positive(ws, x) == [i \in DOMAIN ws |-> [ws[i] EXCEPT !.ra = [k \in DOMAIN @ |-> Wrap(@[k], x.sh[i])]]]

\* A last list of consecutive indices becomes a longer span of elements to copy;
\* `short` is the heuristic that does not look for one in a short list.
select_depth2_inds(ws, x, short) ==
  LET n == Len(ws)  l == ws[n].ra  lia == Len(l)
      cell == Prod(EndsWith(x.sh, n))
      range == ~short /\ \A i \in 2..lia : l[i] = l[1] + i - 1
      used == IF range THEN n - 1 ELSE n
      join(c, i) == FlattenSeq([k \in DOMAIN c |-> [j \in DOMAIN ws[i].ra |-> c[k] * x.sh[i] + ws[i].ra[j]]])
  IN [starts |-> FoldLeft(join, ws[1].ra, [k \in 1..(used - 1) |-> k + 1]),
      span |-> IF range THEN cell * lia ELSE cell,
      mul |-> IF range THEN cell * x.sh[n] ELSE cell,
      add |-> IF range THEN l[1] * cell ELSE 0]

select_depth2_select(s, x, rsh) ==
  LET put(m, i) == mut_copyG(m, (i - 1) * s.span, x, s.add + s.mul * s.starts[i], s.span)
  IN IF s.span # 1
     THEN mut_f(FoldLeft(put, MutInit(Len(s.starts) * s.span, x.el), [i \in DOMAIN s.starts |-> i]), rsh, x.fill)
     ELSE LET r == select_c2(Arr(ElInt, <<Len(s.starts)>>, [i \in DOMAIN s.starts |-> s.starts[i] * s.mul + s.add], 0),
                             shape_c1(x, FALSE), FALSE)
          IN IF IsErr(r) THEN Err ELSE Reshaped(r, rsh)

select_depth2_impl(ws0, x, short) ==
  LET ws == Positive(ws0, x)
      rsh == FlattenSeq([i \in DOMAIN ws |-> ws[i].sh]) \o EndsWith(x.sh, Len(ws))
  IN IF x.at THEN Err
     ELSE IF ~select_depth2_ok(ws0, x) \/ Len(rsh) > UrMax THEN Err
     ELSE IF Len(ws0) = 1 THEN select_c2(ws0[1], x, FALSE)
     ELSE IF Ia(x) = 0 \/ \E i \in DOMAIN ws : Ia(ws[i]) = 0 THEN emptyArr(x, rsh)
     ELSE select_depth2_select(select_depth2_inds(ws, x, short), x, rsh)

-----------------------------------------------------------------------------
\* Select from every row: inds⊸⊏˘ x, of cam rows of csz elements

select_cells_single(ind, x, cam, l, csz) ==
  IF l = 1 THEN Reshaped(cpyWithShape(x, FALSE), <<cam * csz>>)
  ELSE LET s == [k \in 1..(cam * csz) |-> x.ra[(((k - 1) \div csz) * l + ind) * csz + ((k - 1) % csz) + 1]]
       IN Arr(x.el, <<cam * csz>>, FitAll(x.el, s), x.fill)

\* Row after row, the results appended.
RowsJoined(cam, rows) == IF \E i \in 1..cam : IsErr(rows[i]) THEN Err ELSE bqn_merge(<<cam>>, rows)
select_cells_base(inds, x, csz, cam, widen) ==
  RowsJoined(cam, [i \in 1..cam |->
    select_c2(inds, [FlKeep(x, {}) EXCEPT !.sh = <<csz>>, !.ra = SubSeq(@, (i - 1) * csz + 1, i * csz)], widen)])

TransposedRows(x, cam, csz) ==
  [FlKeep(x, {}) EXCEPT !.sh = <<csz, cam>>, !.ra = [k \in DOMAIN @ |-> x.ra[((k - 1) % cam) * csz + ((k - 1) \div cam) + 1]]]

RowsOf(t, n, cam) == IF IsErr(t) THEN Err ELSE TransposedRows(t, n, cam)

\* Rows of one element replicate it; bits may be selected as columns of the transpose;
\* otherwise each row is selected from, or, when the indices are bad, each row on its
\* own to fail there.
select_rows_direct(x, csz, cam, inds, widen) ==
  LET indn == Ia(inds)
      good == \A i \in DOMAIN inds.ra : InRange(inds.ra[i], csz)
      at(k) == x.ra[((k - 1) \div indn) * csz + Wrap(inds.ra[((k - 1) % indn) + 1], csz) + 1]
  IN IF csz = 1 /\ good THEN Arr(x.el, <<indn * cam>>, [k \in 1..(indn * cam) |-> x.ra[((k - 1) \div indn) + 1]], x.fill)
     ELSE IF csz > 1 /\ x.el = ElBit /\ widen THEN RowsOf(select_c2(inds, TransposedRows(x, cam, csz), FALSE), indn, cam)
     ELSE IF good /\ x.el # ElB THEN Arr(x.el, <<indn * cam>>, FitAll(x.el, [k \in 1..(indn * cam) |-> at(k)]), x.fill)
     ELSE select_cells_base(inds, x, csz, cam, widen)

select_rows_B(x, csz, cam, inds, widen) ==
  IF csz = 0 THEN select_cells_base(inds, x, csz, cam, widen)
  ELSE IF cam = 1 THEN select_c2(inds, Reshaped(FlKeep(x, {}), <<Ia(x)>>), widen)
  ELSE IF cam = 0 \/ Ia(inds) = 0 THEN emptyArr(x, <<0>>)
  ELSE IF Ia(inds) = 1 /\ inds.ra[1] < Chr
  THEN IF InRange(inds.ra[1], csz) THEN select_cells_single(Wrap(inds.ra[1], csz), x, cam, csz, 1) ELSE Err
  ELSE IF ~ElNum(SmallestEl(inds.ra)) THEN select_cells_base(inds, x, csz, cam, widen)
  ELSE select_rows_direct(x, csz, cam, inds, widen)

-----------------------------------------------------------------------------
\* Modifying what an index list selects

\* rep goes back to the cells w names; a cell named twice must get equal elements.
\* Cells are written as they are compared, and a clash leaves the ones before it written.
\* Marks start false for all cells, or, when w is short, for the cells w names.
select_replace(w, x, rep, cam, csz, ru) ==
  LET re == ElOr(x.el, rep.el)
      sparse == Ia(w) < cam \div SparseRatio
      named == {Wrap(w.ra[i], cam) : i \in DOMAIN w.ra}
      set0 == [c \in 0..(cam - 1) |-> IF sparse /\ c \notin named THEN "unset" ELSE FALSE]
      new(i, j) == Fit(re, rep.ra[(i - 1) * csz + j])
      step(s, i) ==
        LET c == Wrap(w.ra[i], cam)
            clash == s.set[c] = TRUE /\ \E j \in 1..csz : s.a[c * csz + j] # new(i, j)
        IN IF ~s.ok THEN s
           ELSE IF clash THEN [s EXCEPT !.ok = FALSE]
           ELSE [s EXCEPT !.set[c] = TRUE,
                          !.a = Overwrite(@, c * csz, [j \in 1..csz |-> new(i, j)])]
      r == FoldLeft(step, [ok |-> TRUE, set |-> set0, a |-> FitAll(re, x.ra)], [i \in DOMAIN w.ra |-> i])
  IN Modified(x, re, ru, r.a, r.ok)

\* A constant for every index: no clash is possible, but an index may be out of range
\* when those before it are written.
select_each_impl(w, x, v, ru) ==
  LET re == ElOr(x.el, SelfElType(v))
      xn == x.sh[1]
      step(s, i) == IF ~s.ok \/ ~InRange(w.ra[i], xn) THEN [s EXCEPT !.ok = FALSE]
                    ELSE [s EXCEPT !.a[Wrap(w.ra[i], xn) + 1] = v]
      r == FoldLeft(step, [ok |-> TRUE, a |-> FitAll(re, x.ra)], [i \in DOMAIN w.ra |-> i])
  IN Modified(x, re, ru, r.a, r.ok)

\* `const` is the constant F gives for each item of the selection, NoFill when it is
\* not of the form the code recognizes.
select_ucw(w0, F, const, x, ru) ==
  LET w == m_unit(w0)  sel == select_c2(w, x, FALSE)
      rep == Apply(F, sel)
  IN IF x.at \/ ~ElNum(SmallestEl(IF w.ra = <<>> THEN <<0>> ELSE w.ra)) THEN Unmodified(x, Err)
     ELSE IF const # NoFill /\ Rnk(x) = 1 THEN select_each_impl(w, x, const, ru)
     ELSE IF IsErr(sel) THEN Unmodified(x, Err)
     ELSE IF IsErr(rep) THEN Unmodified(x, Err)
     ELSE IF rep.at \/ rep.sh # w.sh \o Tail(x.sh) THEN Unmodified(x, Err)
     ELSE IF Csz(x) = 0 THEN Unmodified(x, x) ELSE select_replace(w, x, rep, x.sh[1], Csz(x), ru)

\* ⊏ itself: the first cell.
select_uc1(F, x, ru) ==
  LET c == select_c1(x)  n == Apply(F, c)  re == ElOr(x.el, n.el)
  IN IF IsErr(c) THEN Unmodified(x, Err)
     ELSE IF IsErr(n) THEN Unmodified(x, Err)
     ELSE IF n.at \/ n.sh # Tail(x.sh) THEN Unmodified(x, Err)
     ELSE Modified(x, re, ru, Overwrite(FitAll(re, x.ra), 0, FitAll(re, n.ra)), TRUE)

\* Picking a list of indices, each a list with one index for every axis.
pick_ucw(ws, F, x, ru) ==
  LET pos == [i \in DOMAIN ws |-> PickIdx(ws[i].ra, x.sh)]
      w == Arr(ElInt, <<Len(ws)>>, pos, 0)
      rep == Apply(F, select_c2(w, shape_c1(x, FALSE), FALSE))
  IN IF \E i \in DOMAIN ws : ws[i].sh # <<Rnk(x)>> THEN Unmodified(x, Err)
     ELSE IF \E i \in DOMAIN ws : \E k \in DOMAIN ws[i].ra : ~InRange(ws[i].ra[k], x.sh[k]) THEN Unmodified(x, Err)
     ELSE IF IsErr(rep) THEN Unmodified(x, Err)
     ELSE IF rep.at \/ rep.sh # w.sh THEN Unmodified(x, Err)
     ELSE IF ws = <<>> THEN Unmodified(x, x) ELSE select_replace(w, x, rep, Ia(x), 1, ru)
=============================================================================
