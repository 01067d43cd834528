------------------------------ MODULE Windows ------------------------------
(***************************************************************************)
(* Range, Windows, Find and Shape: builtins/fns.c, with the mapping of a   *)
(* function over elements, utils/each.c.                                   *)
(***************************************************************************)
EXTENDS Sorts, Bitwise

\* Range of a list of lengths: an array of index lists.  When no length exceeds 2 the
\* lists are read off the bits of a counter that skips the axes of length 1.
BitsOf(v, n) == [i \in 1..n |-> (v \div 2^(n - i)) % 2]
RECURSIVE CountMasked(_, _, _, _)
CountMasked(c, m, n, left) ==
  IF left = 0 THEN <<>>
  ELSE <<BitsOf(c - (c & m), n)>> \o CountMasked((c | m) + 1, m, n, left - 1)
BitLists(sh) ==
  LET m == Sum([i \in DOMAIN sh |-> IF sh[i] = 2 THEN 0 ELSE 2^(Len(sh) - i)])
  IN CountMasked(m, m, Len(sh), Prod(sh))

\* Otherwise one axis after the other.
RECURSIVE ud_rec(_, _)
ud_rec(pos, sh) ==
  LET d == Len(pos) + 1
  IN IF d > Len(sh) THEN <<pos>>
     ELSE FlattenSeq([i \in 1..sh[d] |-> ud_rec(Append(pos, i - 1), sh)])

\* The items have the element type of the largest index; the fill is like an item.
list_range(x) ==
  LET sh == x.ra
      max == FoldLeft(MaxOf, 0, sh)
      type == IF max = 2 THEN ElBit ELSE IF max <= 1 + I8Max THEN ElI8 ELSE ElInt
      items == IF Prod(sh) = 0 THEN <<>> ELSE IF max = 2 THEN BitLists(sh) ELSE ud_rec(<<>>, sh)
  IN IF Rnk(x) # 1 \/ Ia(x) > UrMax THEN Err
     ELSE IF Ia(x) = 0 THEN [sh |-> <<>>, items |-> <<emptyIVec>>]
     ELSE IF \E i \in DOMAIN sh : sh[i] \notin 0..(Chr - 1) THEN Err
     ELSE IF Prod(sh) > UszMax /\ \A i \in DOMAIN sh : sh[i] # 0 THEN Err
     ELSE [sh |-> sh, items |-> [k \in DOMAIN items |-> Arr(type, <<Len(sh)>>, FitAll(type, items[k]), 0)]]

ud_c1(x) == IF ~x.at THEN list_range(x) ELSE IF x.ra[1] \in 0..UszMax THEN ud_atom(x.ra[1]) ELSE Err

-----------------------------------------------------------------------------
\* Windows: cells of the innermost windowed axis are copied in one go; the counters ri
\* of the other frame axes say how far back and forth the source moves.  Axes and
\* counters are numbered from 0 as in the code.
RECURSIVE WindowCarry(_, _, _, _, _, _, _, _)
WindowCarry(ri, rsh, xsh, wr, a, b, j, str) ==
  LET up == [ri EXCEPT ![a] = @ + 1]
      j1 == j - rsh[a] * str
      str1 == IF b = 0 THEN 1 ELSE str * xsh[b]
      b1 == IF b = 0 THEN wr ELSE b
  IN IF up[a] # rsh[a] THEN [ri |-> up, j |-> j]
     ELSE WindowCarry([up EXCEPT ![a] = 0], rsh, xsh, wr, a - 1, b1 - 1, j1 + str1, str1)

RECURSIVE WindowCells(_, _, _, _, _, _, _, _)
WindowCells(m, x, rsh, wr, cia, ri, i, j) ==
  LET k == rsh[2 * wr - 1]
      xsh == [a \in 0..(Rnk(x) - 1) |-> x.sh[a + 1]]
      m2 == mut_copyG(m, i, x, j * cia, k * cia)
      str == xsh[wr - 1]
      c == WindowCarry(ri, rsh, xsh, wr, 2 * wr - 2, wr - 2, j + str, str)
  IN IF i + k * cia >= Len(m.a) THEN m2
     ELSE IF wr = 1 THEN WindowCells(m2, x, rsh, wr, cia, ri, i + k * cia, j + 1)
     ELSE WindowCells(m2, x, rsh, wr, cia, c.ri, i + k * cia, c.j)

ud_c2(w, x) ==
  LET wr == Ia(w)
      rest == EndsWith(x.sh, wr)
      rsh == [i \in 1..wr |-> x.sh[i] + 1 - w.ra[i]] \o w.ra \o rest
      rsh0 == [a \in 0..(Len(rsh) - 1) |-> rsh[a + 1]]
      empty == Ia(x) = 0 \/ \E i \in 1..wr : w.ra[i] = 0 \/ w.ra[i] = x.sh[i] + 1
      twice == slash_atom(2, x)
      start == MutInit(Prod(rsh), x.el)
      zero == [a \in 0..(2 * wr - 2) |-> 0]
  IN IF Rnk(w) > 1 THEN Err
     ELSE IF wr = 0 THEN m_unit(x)
     ELSE IF x.at \/ Rnk(x) < wr THEN Err
     ELSE IF Rnk(x) + wr > UrMax THEN Err
     ELSE IF \E i \in 1..wr : w.ra[i] \notin 0..(x.sh[i] + 1) THEN Err
     ELSE IF empty THEN emptyArr(x, rsh)
     ELSE IF wr = 1 /\ w.ra[1] = 2 /\ Rnk(x) = 1
     THEN [FlKeep(twice, {}) EXCEPT !.sh = rsh, !.ra = SubSeq(@, 2, Len(@) - 1)]
     ELSE IF Prod(rsh) > UszMax THEN Err
     ELSE mut_f(WindowCells(start, x, rsh0, wr, Prod(rest), zero, 0, 0), rsh, x.fill)

-----------------------------------------------------------------------------
fne_c1(x) ==
  LET or == FoldLeft(MaxOf, 0, x.sh)
      type == IF or <= I8Max THEN ElI8 ELSE ElInt
  IN IF x.at THEN emptyIVec ELSE Arr(type, <<Rnk(x)>>, FitAll(type, x.sh), 0)

\* Mapping f, given for every pair of elements, over two arguments whose leading axes agree.
Unboxed(sh, s) == IF s = <<>> THEN Arr(ElB, sh, <<>>, NoFill) ELSE squeeze_any(Arr(ElB, sh, s, NoFill))
PairsOf(w, x) == Range(w.ra) \X Range(x.ra)
Stretched(s, n) == [i \in 1..n |-> s[((i - 1) \div (n \div Len(s))) + 1]]
EachPair(f, sh, ws, xs) == Unboxed(sh, [i \in DOMAIN ws |-> f[<<ws[i], xs[i]>>]])
eachd_fn(f, w, x) ==
  LET m == MinOf(Rnk(w), Rnk(x))
      n == Ia(IF Rnk(w) > Rnk(x) THEN w ELSE x)
  IN IF Rnk(w) = 0 /\ Rnk(x) = 0 THEN m_unit(Atom(f[<<w.ra[1], x.ra[1]>>]))
     ELSE IF SubSeq(w.sh, 1, m) # SubSeq(x.sh, 1, m) THEN Err
     ELSE EachPair(f, IF Rnk(w) > Rnk(x) THEN w.sh ELSE x.sh, Stretched(w.ra, n), Stretched(x.ra, n))

EqBit(a, b) == IF a = b THEN 1 ELSE 0
AllOnes(sh) == FlSet(Arr(ElBit, sh, Rep(Prod(sh), 1), 0), {Asc, Dsc, Squoze})

\* Find in a list; in each row; an empty x has only empty places.
FindList(w, x) ==
  LET wl == Ia(w)  rl == Ia(x) - wl + 1
  IN IF wl > Ia(x) THEN emptyIVec
     ELSE IF wl = 0 THEN AllOnes(<<rl>>)
     ELSE Arr(ElBit, <<rl>>, [r \in 1..rl |-> IF \A i \in 1..wl : w.ra[i] = x.ra[r + i - 1] THEN 1 ELSE 0], 0)

FindEmpty(w, x) ==
  LET d == Rnk(x) - Rnk(w)
      sh == [i \in 1..Rnk(x) |-> IF i <= d THEN x.sh[i]
                                 ELSE IF w.sh[i - d] > x.sh[i] THEN 0 ELSE x.sh[i] + 1 - w.sh[i - d]]
  IN IF Prod(sh) > UszMax THEN Err ELSE AllOnes(sh)

FindRows(w, x) ==
  LET row(i) == FindList(w, Arr(x.el, <<x.sh[2]>>, SubSeq(x.ra, (i - 1) * x.sh[2] + 1, i * x.sh[2]), x.fill))
  IN bqn_merge(<<x.sh[1]>>, [i \in 1..x.sh[1] |-> row(i)])

find_c2(w, x) ==
  IF Rnk(w) > Rnk(x) THEN Err
  ELSE IF Rnk(x) = 1 THEN
    IF w.at THEN Arr(ElBit, x.sh, [i \in DOMAIN x.ra |-> EqBit(w.ra[1], x.ra[i])], 0)
    ELSE FindList(w, x)
  ELSE IF Rnk(w) = 0 THEN eachd_fn([p \in PairsOf(w, x) |-> EqBit(p[1], p[2])], w, x)
  ELSE IF Ia(x) = 0 THEN FindEmpty(w, x)
  ELSE IF Rnk(w) = 1 /\ Rnk(x) = 2 THEN IF Ia(w) > x.sh[2] THEN FindEmpty(w, x) ELSE FindRows(w, x)
  ELSE Base
=============================================================================
