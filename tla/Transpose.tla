----------------------------- MODULE Transpose -----------------------------
(***************************************************************************)
(* Transpose and Reorder axes, their inverses, powers and Under, and the   *)
(* join of cells: builtins/transpose.c without SIMD.  Axes are numbered    *)
(* from 0 as in the code.                                                  *)
(***************************************************************************)
EXTENDS Arith

\* interleave_bits, and the generic loop: a cell of each argument in turn.
RECURSIVE CopyInTurns(_, _, _, _, _, _)
CopyInTurns(m, w, x, wc, xc, i) ==
  IF i < 0 THEN m
  ELSE CopyInTurns(mut_copyG(mut_copyG(m, i * (wc + xc), w, i * wc, wc), i * (wc + xc) + wc, x, i * xc, xc), w, x, wc, xc, i - 1)
join_cells(w, x, k) ==
  LET wc == Prod(EndsWith(w.sh, k))  xc == Prod(EndsWith(x.sh, k))
      n == IF wc + xc = 0 THEN 0 ELSE (Ia(w) + Ia(x)) \div (wc + xc)
  IN qWithFill(mut_f(CopyInTurns(MutInit(Ia(w) + Ia(x), ElOr(w.el, x.el)), w, x, wc, xc, n - 1), <<Ia(w) + Ia(x)>>, NoFill),
               fill_both(w, x))

\* x as h rows of w, turned; its shape is set by the caller.
transpose_noshape(x, w, h) ==
  Arr(x.el, <<Ia(x)>>, [k \in DOMAIN x.ra |-> x.ra[((k - 1) % h) * w + ((k - 1) \div h) + 1]], x.fill)
Turned(x, h, w, sh) ==
  IF Ia(x) = 0 \/ h = 1 \/ h = Ia(x) THEN Reshaped(FlKeep(x, {Squoze}), sh) ELSE Reshaped(transpose_noshape(x, w, h), sh)

transp_c1(x) ==
  IF x.at THEN m_unit(x) ELSE IF Rnk(x) <= 1 THEN x
  ELSE Turned(x, x.sh[1], Csz(x), Append(Tail(x.sh), x.sh[1]))
transp_im(x) ==
  LET l == x.sh[Rnk(x)]
      front == SubSeq(x.sh, 1, Rnk(x) - 1)
  IN IF x.at THEN Err ELSE IF Rnk(x) <= 1 THEN x
     ELSE IF Ia(x) = 0 \/ l = 1 \/ l = Ia(x) THEN Reshaped(FlKeep(x, {Squoze}), <<l>> \o front)
     ELSE Reshaped(transpose_noshape(x, l, Prod(front)), <<l>> \o front)
transp_powm(am, x) ==
  LET k == am % Rnk(x)
      sh == EndsWith(x.sh, k) \o SubSeq(x.sh, 1, k)
  IN IF x.at THEN (IF am < 0 THEN Err ELSE m_unit(x)) ELSE IF Rnk(x) <= 1 THEN x
     ELSE Turned(x, Prod(SubSeq(x.sh, 1, k)), Prod(EndsWith(x.sh, k)), sh)
TransposedBack(y) == IF IsErr(y) THEN Err ELSE transp_im(y)
transp_uc1(F, x) == TransposedBack(Apply(F, transp_c1(x)))

-----------------------------------------------------------------------------
\* Reorder axes.  p[i] is the result axis of axis i: as w says, the others in order.
Axes(n) == [i \in 1..n |-> i - 1]
Completed(p0, xr) ==
  LET rest == SelectSeq(Axes(xr), LAMBDA j : \A i \in DOMAIN p0 : p0[i] # j)
  IN p0 \o SubSeq(rest, 1, xr - Len(p0))
AxisLen(p, sh, j) == LET ls == {sh[i] : i \in {k \in DOMAIN p : p[k] = j}} IN CHOOSE l \in ls : \A m \in ls : l <= m
StrideOf(p, sh, j) == Sum([i \in DOMAIN p |-> IF p[i] = j THEN Prod(EndsWith(sh, i)) ELSE 0])

\* Axes of length 1 are dropped, those that follow one another are one axis, and the last
\* of them belong to the cell.
SimplifyLast(st, l, s) ==
  IF l = 1 THEN st
  ELSE IF s = st.sz THEN [st EXCEPT !.sz = @ * l, !.ax = IF @ = <<>> THEN @ ELSE [@ EXCEPT ![1].l = @ * l],
                                    !.csz = IF st.ax = <<>> THEN @ * l ELSE @]
  ELSE [st EXCEPT !.sz = l * s, !.ax = <<[l |-> l, s |-> s]>> \o @]
Simplified(rsh, str, csz) ==
  FoldLeft(LAMBDA st, i : SimplifyLast(st, rsh[i], str[i]), [ax |-> <<>>, csz |-> csz, sz |-> csz],
           [k \in DOMAIN rsh |-> Len(rsh) + 1 - k])

\* AXIS_LOOP: a row of cells along the last axis, then on to the next axis that is not done.
RECURSIVE AxisCarry(_, _, _, _)
AxisCarry(ax, ri, j, a) ==
  IF ri[a] + 1 < ax[a].l THEN [ri |-> [ri EXCEPT ![a] = @ + 1], j |-> j + ax[a].s]
  ELSE AxisCarry(ax, [ri EXCEPT ![a] = 0], j + ax[a].s - ax[a].l * ax[a].s, a - 1)
RowAt(ax, j) == [k \in 1..ax[Len(ax)].l |-> j + (k - 1) * ax[Len(ax)].s]
RECURSIVE AxisRows(_, _, _)
AxisRows(ax, st, outer) == \* outer: the rows that are left
  RowAt(ax, st.j) \o (IF outer = 1 THEN <<>> ELSE AxisRows(ax, AxisCarry(ax, st.ri, st.j, Len(ax) - 1), outer - 1))
AxisLoop(ax) == AxisRows(ax, [ri |-> [a \in 1..(Len(ax) - 1) |-> 0], j |-> 0], Prod([a \in 1..(Len(ax) - 1) |-> ax[a].l]))
RECURSIVE CopyEach(_, _, _, _)
CopyEach(m, x, at, csz) ==
  IF at = <<>> THEN m ELSE CopyEach(mut_copyG(m, Len(m.a) - Len(at) * csz, x, Head(at), csz), x, Tail(at), csz)
CopiedFrom(x, at, csz) == mut_f(CopyEach(MutInit(Len(at) * csz, x.el), x, at, csz), <<Len(at) * csz>>, x.fill)
CellLoop2(x, ax, csz) == CopiedFrom(x, AxisLoop(ax), csz)
\* +⌜ of the offsets along each axis selects from x as a list of cells.
SumTable(v, ind) ==
  Arr(ElInt, <<Ia(v) * Ia(ind)>>, FlattenSeq([i \in DOMAIN v.ra |-> [k \in DOMAIN ind.ra |-> v.ra[i] + ind.ra[k]]]), 0)
RECURSIVE OffsetTable(_, _)
OffsetTable(ax, csz) ==
  IF ax = <<>> THEN Arr(ElInt, <<1>>, <<0>>, 0)
  ELSE SumTable(C2("mul", Atom(Head(ax).s \div csz), ud_atom(Head(ax).l)), OffsetTable(Tail(ax), csz))
ReshapedKept(r, sh) == IF IsErr(r) THEN Err ELSE Reshaped(FlKeep(r, {Squoze}), sh)
SelectedAxes(x, ax, csz) == select_c2(OffsetTable(ax, csz), Reshaped(FlKeep(x, {Squoze}), <<Ia(x) \div csz, csz>>), FALSE)

\* s: the axes that are left; sh: the shape of the result.
AxesMoved(s, sh, plain, x, how) ==
  IF s.ax = <<>> THEN Reshaped(take_head(s.csz, x), sh)
  ELSE IF Len(s.ax) = 2 /\ plain /\ s.csz = 1 THEN Reshaped(transpose_noshape(x, s.ax[1].l, s.ax[2].l), sh)
  ELSE IF how = "cells" THEN withFill(Reshaped(CellLoop2(x, s.ax, s.csz), sh), x.fill)
  ELSE ReshapedKept(SelectedAxes(x, s.ax, s.csz), sh)

\* p: the axes with those not named; the first na of the result's are moved, dup of x's
\* meet another there.
AxesTo(p, na, dup, x, how) ==
  LET sh == [j \in 1..(Rnk(x) - dup) |-> AxisLen(p, x.sh, j - 1)]
      csz0 == Prod(EndsWith(x.sh, na + dup))
      strides == [j \in 1..na |-> StrideOf(SubSeq(p, 1, na + dup), SubSeq(x.sh, 1, na + dup), j - 1) * csz0]
  IN IF na > Rnk(x) - dup THEN Err
     ELSE IF Ia(x) = 0 THEN emptyArr(x, sh)
     ELSE AxesMoved(Simplified(SubSeq(sh, 1, na), strides, csz0), sh, dup = 0, x, how)
transp_axes(p0, x, how) ==
  IF \A i \in DOMAIN p0 : p0[i] = i - 1 THEN x
  ELSE AxesTo(Completed(p0, Rnk(x)), FoldLeft(MaxOf, 0, p0) + 1,
              Cardinality({i \in DOMAIN p0 : \E k \in 1..(i - 1) : p0[k] = p0[i]}), x, how)

transp_c2(w, x, how) ==
  IF ~w.at /\ Rnk(w) > 1 THEN Err
  ELSE IF ~w.at /\ Ia(w) = 0 THEN m_unit(x)
  ELSE IF x.at \/ Rnk(x) < Ia(w) THEN Err
  ELSE IF \E i \in DOMAIN w.ra : w.ra[i] \notin 0..(Rnk(x) - 1) THEN Err
  ELSE IF w.at /\ w.ra[1] = Rnk(x) - 1 THEN transp_c1(x)
  ELSE transp_axes(w.ra, x, how)

-----------------------------------------------------------------------------
\* The inverse permutation; an axis named twice has none.
IntList(s) == Arr(ElInt, <<Len(s)>>, s, 0)
invert_transp_w(w, xr) ==
  LET n == FoldLeft(MaxOf, 0, w.ra) + 1
      named(j) == {i \in DOMAIN w.ra : w.ra[i] = j}
      rest(j) == Ia(w) + Cardinality({k \in 0..(j - 1) : named(k) = {}})
  IN IF w.at THEN (IF w.ra[1] \in 0..(xr - 1) THEN IntList([i \in 1..w.ra[1] |-> i]) ELSE Err)
     ELSE IF Rnk(w) > 1 THEN Err
     ELSE IF Ia(w) = 0 THEN w
     ELSE IF xr < Ia(w) \/ \E i \in DOMAIN w.ra : w.ra[i] \notin 0..(xr - 1) THEN Err
     ELSE IF \E j \in 0..(xr - 1) : Cardinality(named(j)) > 1 THEN Base
     ELSE IntList([k \in 1..n |-> IF named(k - 1) = {} THEN rest(k - 1) ELSE (CHOOSE i \in named(k - 1) : TRUE) - 1])
MovedBack(wi, y, how) == IF IsErr(y) THEN Err ELSE transp_c2(wi, y, how)
MovedBackBy(wi, x, how) == IF IsErr(wi) THEN Err ELSE transp_c2(wi, x, how)
transp_ix(w, x, how) ==
  IF x.at THEN Err ELSE MovedBackBy(invert_transp_w(w, Rnk(x)), x, how)
MovedUnder(wi, F, y, how) ==
  IF IsErr(wi) THEN wi ELSE IF IsErr(y) THEN Err ELSE MovedBack(wi, Apply(F, y), how)
transp_ucw(w, F, x, how) ==
  MovedUnder(invert_transp_w(w, IF x.at THEN 0 ELSE Rnk(x)), F, transp_c2(w, x, how), how)

\* Reorder axes am times: the permutation to that power, by squaring.
RECURSIVE PermPower(_, _, _)
PermPower(au, p, acc) ==
  LET after(q) == [i \in DOMAIN p |-> q[p[i] + 1]]
      acc1 == IF au % 2 = 0 THEN acc ELSE IF acc = <<>> THEN p ELSE after(acc)
  IN IF au = 1 THEN acc1 ELSE PermPower(au \div 2, after(p), acc1)
RECURSIVE Again(_, _, _, _)
Again(am, w, x, how) ==
  IF am = 0 THEN x ELSE IF IsErr(x) THEN Err ELSE Again(am - 1, w, transp_c2(w, x, how), how)
PeriodAll(am, chg) == am % 4 \* mutant: three axes that move have a period of 4
\* Of at most 4 axes that move, their number is a multiple of the period.
Reduced(am, chg) == IF chg > 4 THEN am ELSE IF chg < 2 THEN 0 ELSE LET m == am % chg IN IF m = chg - 1 THEN -1 ELSE m
transp_powd(am, w, x0, how) ==
  LET x == m_unit(x0)
      xr == Rnk(x)
      wv == w.ra[1]
      k == am % (wv + 1)
      n == FoldLeft(MaxOf, 0, w.ra) + 1
      dup == \E i, j \in DOMAIN w.ra : i # j /\ w.ra[i] = w.ra[j]
      p == Completed(w.ra, n)
      chg == n - Cardinality({i \in DOMAIN w.ra : w.ra[i] = i - 1})
      am1 == Reduced(am, chg)
      pi == [j \in 1..n |-> (CHOOSE i \in 1..n : p[i] = j - 1) - 1]
      au == IF AbsOf(am1) > 1 /\ p = pi THEN AbsOf(am1) % 2 ELSE AbsOf(am1)
  IN IF am = -1 THEN transp_ix(w, x0, how)
     ELSE IF x0.at /\ am < 0 THEN Err
     ELSE IF w.at THEN
       IF wv \notin 0..(xr - 1) THEN Err
       ELSE IF wv + 1 = xr THEN transp_powm(am, x)
       ELSE IF k = 0 THEN x ELSE transp_c2(IntList([i \in 1..k |-> (i - 1) + (wv + 1 - k)]), x, how)
     ELSE IF Rnk(w) > 1 THEN Err
     ELSE IF Ia(w) = 0 THEN x
     ELSE IF xr < Ia(w) \/ \E i \in DOMAIN w.ra : w.ra[i] \notin 0..(xr - 1) THEN Err
     ELSE IF dup THEN (IF am < 0 THEN Err ELSE Again(am, w, x, how))
     ELSE IF am1 = 0 \/ au = 0 THEN x
     ELSE transp_c2(IntList(PermPower(au, IF am1 < 0 THEN pi ELSE p, <<>>)), x, how)
=============================================================================
