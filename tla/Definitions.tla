---------------------------- MODULE Definitions ----------------------------
(***************************************************************************)
(* What the selecting, replicating, sorting and searching primitives are   *)
(* defined to give, element by element, in the form of module Promises.    *)
(***************************************************************************)
EXTENDS Promises

AsList(y) == IF y.at THEN <<y.ra[1]>> ELSE y.ra
CellSize(x) == Prod(Drop1(x.sh))
CellAt(x, i) == SubSeq(x.ra, i * CellSize(x) + 1, (i + 1) * CellSize(x))
OfCells(sh, cs) == [at |-> FALSE, sh |-> sh, ra |-> FlattenSeq(cs)]
Num0(v) == v \in 0..(Chr - 1)

\* The cells of x that w names, from the end when negative.
SelectedBy(w, x) ==
  LET n == x.sh[1]  pos(v) == IF v < 0 THEN v + n ELSE v
  IN IF x.at \/ x.sh = <<>> THEN Err
     ELSE IF \E k \in DOMAIN w.ra : w.ra[k] >= Chr \/ pos(w.ra[k]) \notin 0..(n - 1) THEN Err
     ELSE IF Len(w.sh) + Len(x.sh) - 1 > UrMax THEN Err
     ELSE OfCells(w.sh \o Drop1(x.sh), [k \in DOMAIN w.ra |-> CellAt(x, pos(w.ra[k]))])

\* Cell i of x, w[i] times.
ReplicatedBy(w, x) ==
  LET c(i) == IF w.at \/ w.sh = <<>> THEN w.ra[1] ELSE w.ra[i]
      times == [i \in 1..x.sh[1] |-> c(i)]
  IN IF x.at \/ x.sh = <<>> \/ \E k \in DOMAIN w.ra : ~Num0(w.ra[k]) THEN Err
     ELSE IF Len(w.sh) > 1 \/ (Len(w.sh) = 1 /\ Len(w.ra) # x.sh[1]) THEN Err
     ELSE IF SumSeq(times) > UszMax - (IF Len(w.sh) = 1 THEN 1 ELSE 0) THEN Err
     ELSE OfCells(<<SumSeq(times)>> \o Drop1(x.sh),
                  [i \in DOMAIN times |-> FlattenSeq([j \in 1..times[i] |-> CellAt(x, i - 1)])])

IndicesOf(x) ==
  IF x.at \/ Len(x.sh) # 1 \/ \E k \in DOMAIN x.ra : ~Num0(x.ra[k]) THEN Err
  ELSE IF SumSeq(x.ra) >= UszMax THEN Err
  ELSE ListOf(FlattenSeq([i \in DOMAIN x.ra |-> [j \in 1..x.ra[i] |-> i - 1]]))

\* The list of counts that ends at the largest number of x.
CountsOf(x) ==
  LET top == FoldLeft(MaxOf, -1, x.ra)
  IN IF x.at \/ Len(x.sh) # 1 \/ \E k \in DOMAIN x.ra : ~Num0(x.ra[k]) THEN Err
     ELSE ListOf([v \in 1..(top + 1) |-> Cardinality({k \in DOMAIN x.ra : x.ra[k] = v - 1})])

\* Cells compare element by element.
CellLess(s, t) == \E k \in DOMAIN s : s[k] < t[k] /\ \A j \in 1..(k - 1) : s[j] = t[j]
Precedes(x, i, j, up) ==
  LET a == CellAt(x, i)  b == CellAt(x, j)
  IN IF up THEN CellLess(a, b) ELSE CellLess(b, a)

\* Equal cells stay in their order: the only permutation that is sorted and stable.
GradeOf(x, up) ==
  LET n == x.sh[1]
      place(i) == Cardinality({j \in 0..(n - 1) : Precedes(x, j, i, up) \/ (j < i /\ ~Precedes(x, i, j, up))})
  IN IF x.at \/ x.sh = <<>> THEN Err
     ELSE ListOf([p \in 1..n |-> CHOOSE i \in 0..(n - 1) : place(i) = p - 1])
SortOf(x, up) ==
  IF x.at \/ x.sh = <<>> THEN Err
  ELSE OfCells(x.sh, [p \in 1..x.sh[1] |-> CellAt(x, GradeOf(x, up).ra[p])])

\* Values are padded to a common shape with something before every element and compared
\* in order; of two that agree the one of lower rank comes first, an atom before a unit.
CompareOf(w, x) ==
  LET r == MaxOf(Len(w.sh), Len(x.sh))
      full(y) == Ones(r - Len(y.sh)) \o y.sh
      sh == [i \in 1..r |-> MaxOf(full(w)[i], full(x)[i])]
      at(y, ix) == IF Within(ix, full(y)) THEN ElemAt(y, full(y), ix) ELSE NoFill
      rank(y) == IF y.at THEN -1 ELSE Len(y.sh)
      sign(a, b) == IF a < b THEN -1 ELSE IF a > b THEN 1 ELSE 0
      signs == SelectSeq([k \in 1..Prod(sh) |-> sign(at(w, Index(sh, k)), at(x, Index(sh, k)))], LAMBDA c : c # 0)
      \* arrays without elements: the axes that differ, from the last
      axes == SelectSeq([i \in 1..MinOf(Len(w.sh), Len(x.sh)) |-> sign(w.sh[Len(w.sh) + 1 - i], x.sh[Len(x.sh) + 1 - i])],
                        LAMBDA c : c # 0)
  IN IF w.ra = <<>> /\ x.ra = <<>> THEN (IF axes # <<>> THEN axes[1] ELSE sign(rank(w), rank(x)))
     ELSE IF signs # <<>> THEN signs[1] ELSE sign(rank(w), rank(x))

\* How many cells of w do not come after each cell of x of their rank.
BinsOf(w, x, up) ==
  LET k == Len(x.sh) - Len(w.sh) + 1
      cell(y, i, n) == LET sh == SubSeq(y.sh, n + 1, Len(y.sh))
                       IN [at |-> y.at, sh |-> sh, ra |-> SubSeq(y.ra, i * Prod(sh) + 1, (i + 1) * Prod(sh))]
      after(a, b) == CompareOf(a, b) = (IF up THEN -1 ELSE 1) \* b after a
      one(y) == IF Len(w.sh) = 1 THEN [y EXCEPT !.at = TRUE] ELSE y \* elements, not units
      n == w.sh[1]
      sh == SubSeq(x.sh, 1, k)
  IN IF w.at \/ w.sh = <<>> \/ k < 0 THEN Err
     ELSE IF Prod(sh) # 0 /\ \E i \in 1..(n - 1) : after(one(cell(w, i, 1)), one(cell(w, i - 1, 1))) THEN Err
     ELSE [at |-> FALSE, sh |-> sh,
           ra |-> [i \in 1..Prod(sh) |-> Cardinality({j \in 0..(n - 1) : ~after(one(cell(x, i - 1, k)), one(cell(w, j, 1)))})]]

\* Every window of shape w at every place it fits, the leading axes first.
WindowsOf(w, x) ==
  LET l == AsList(w)  n == Len(l)
      rsh == [i \in 1..n |-> x.sh[i] + 1 - l[i]] \o l \o SubSeq(x.sh, n + 1, Len(x.sh))
  IN IF Len(w.sh) > 1 THEN Err
     ELSE IF l = <<>> THEN [Shown(x) EXCEPT !.at = FALSE]
     ELSE IF x.at \/ n > Len(x.sh) \/ n + Len(x.sh) > UrMax THEN Err
     ELSE IF \E i \in 1..n : l[i] \notin 0..(x.sh[i] + 1) THEN Err
     ELSE IF Prod(rsh) > UszMax THEN Err
     ELSE Made(rsh, LAMBDA ix : ElemAt(x, x.sh, [i \in DOMAIN x.sh |-> IF i <= n THEN ix[i] + ix[i + n] ELSE ix[i + n]]))

\* Where w lies in x, as far as the trailing axes of w go.
FoundIn(w, x) ==
  LET d == Len(x.sh) - Len(w.sh)
      sh == [i \in DOMAIN x.sh |-> IF i <= d THEN x.sh[i] ELSE MaxOf(0, x.sh[i] + 1 - w.sh[i - d])]
      at(ix, jx) == ElemAt(x, x.sh, [i \in DOMAIN x.sh |-> IF i <= d THEN ix[i] ELSE ix[i] + jx[i - d]])
  IN IF d < 0 THEN Err
     ELSE Made(sh, LAMBDA ix : IF \A k \in DOMAIN w.ra : at(ix, Index(w.sh, k)) = w.ra[k] THEN 1 ELSE 0)
\* A list of indices for each leading axis.
SelectedByAxes(ws, x) ==
  LET n == Len(ws)
      at(i, v) == IF v < 0 THEN v + x.sh[i] ELSE v
      good == \A i \in 1..n : \A k \in DOMAIN ws[i].ra : ws[i].ra[k] < Chr /\ at(i, ws[i].ra[k]) \in 0..(x.sh[i] - 1)
      wsh == FlattenSeq([i \in 1..n |-> ws[i].sh])
      first(i) == FoldLeft(LAMBDA a, j : a + Len(ws[j].sh), 0, [j \in 1..(i - 1) |-> j])
      own(ix, i) == SubSeq(ix, first(i) + 1, first(i) + Len(ws[i].sh))
      from(ix) == [i \in DOMAIN x.sh |-> IF i <= n THEN at(i, ws[i].ra[Offset(ws[i].sh, own(ix, i)) + 1])
                                         ELSE ix[Len(wsh) + i - n]]
  IN IF x.at \/ n > Len(x.sh) THEN Err
     ELSE IF ~good \/ Len(wsh) + Len(x.sh) - n > UrMax THEN Err
     ELSE Made(wsh \o SubSeq(x.sh, n + 1, Len(x.sh)), LAMBDA ix : ElemAt(x, x.sh, from(ix)))

\* The same indices of every row of a table.
RowsSelected(w, x) ==
  LET rows == [i \in 1..x.sh[1] |-> SelectedBy(w, [x EXCEPT !.sh = <<x.sh[2]>>, !.ra = CellAt(x, i - 1)])]
  IN IF \E i \in DOMAIN rows : IsErr(rows[i]) THEN Err
     ELSE OfCells(<<x.sh[1], Len(w.ra)>>, [i \in DOMAIN rows |-> rows[i].ra])

\* The index of every position of an array of shape w, along a last axis.
RangeOf(w) ==
  IF w.at THEN (IF Num0(w.ra[1]) THEN ListOf([k \in 1..w.ra[1] |-> k - 1]) ELSE Err)
  ELSE IF Len(w.sh) # 1 \/ \E k \in DOMAIN w.ra : ~Num0(w.ra[k]) THEN Err
  ELSE IF Prod(w.ra) > UszMax THEN Err
  ELSE Made(w.ra \o <<Len(w.ra)>>, LAMBDA ix : ix[ix[Len(w.ra) + 1] + 1])

\* The cells of x that have number j, for every j up to the largest; one number more
\* than there are cells gives a least number of groups.
GroupsOf(w, x) ==
  LET k == Len(w.sh)
      n == Prod(SubSeq(x.sh, 1, k))
      rest == SubSeq(x.sh, k + 1, Len(x.sh))
      s == SubSeq(w.ra, 1, n)
      count == MaxOf(FoldLeft(MaxOf, -1, s) + 1, IF Len(w.ra) > n THEN w.ra[n + 1] ELSE 0)
      cell(i) == SubSeq(x.ra, (i - 1) * Prod(rest) + 1, i * Prod(rest))
      group(j) == LET is == SelectSeq([i \in 1..n |-> i], LAMBDA i : s[i] = j)
                  IN OfCells(<<Len(is)>> \o rest, [m \in DOMAIN is |-> cell(is[m])])
  IN IF x.at \/ Len(x.sh) < k THEN Err
     ELSE IF (IF k = 1 THEN Len(w.ra) - n \notin {0, 1} ELSE w.sh # SubSeq(x.sh, 1, k)) THEN Err
     ELSE IF \E i \in DOMAIN w.ra : w.ra[i] >= Chr \/ w.ra[i] < -1 THEN Err
     ELSE IF count > UszMax THEN Err
     ELSE [groups |-> [j \in 1..count |-> group(j - 1)]]
=============================================================================
