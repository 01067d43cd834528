----------------------------- MODULE Promises -----------------------------
(***************************************************************************)
(* What the structural primitives promise, index by index: the shape of    *)
(* the result, the element at every index, the fill, and when there is an  *)
(* error instead.  Nothing here follows how the code moves elements.       *)
(***************************************************************************)
EXTENDS Arrays

\* An array without what only the implementation can see.
Shown(x) == IF IsErr(x) THEN Err ELSE [at |-> x.at, sh |-> x.sh, ra |-> x.ra]

Tiles(sh, i) == Prod(SubSeq(sh, i + 1, Len(sh)))
Index(sh, k) == [i \in DOMAIN sh |-> ((k - 1) \div Tiles(sh, i)) % sh[i]]
Offset(sh, ix) == FoldLeft(LAMBDA c, i : c * sh[i] + ix[i], 0, [i \in DOMAIN sh |-> i])
ElemAt(x, sh, ix) == x.ra[Offset(sh, ix) + 1]

Made(sh, elem(_)) == [at |-> FALSE, sh |-> sh, ra |-> [k \in 1..Prod(sh) |-> elem(Index(sh, k))]]
ListOf(s) == [at |-> FALSE, sh |-> <<Len(s)>>, ra |-> s]
NoneOf(s) == NoFill \notin {s[k] : k \in DOMAIN s}
Known(r) == IF NoneOf(r.ra) THEN r ELSE Err
Drop1(sh) == SubSeq(sh, 2, Len(sh))
Ones(n) == [i \in 1..n |-> 1]
Numbers(w) == \A k \in DOMAIN w.ra : w.ra[k] < Chr
LastOf(sh, n) == SubSeq(sh, Len(sh) - n + 1, Len(sh))
Pref(a, b) == Len(a) <= Len(b) /\ SubSeq(b, 1, Len(a)) = a

\* The shape takes and drops see: leading axes of length 1 for a longer w.
Padded(x, n) == (IF n > Rnk(x) THEN Ones(n - Rnk(x)) ELSE <<>>) \o x.sh
Within(ix, sh) == \A i \in DOMAIN sh : ix[i] \in 0..(sh[i] - 1)

Taken(w, x) ==
  LET xsh == Padded(x, Len(w.ra))
      n(i) == IF i <= Len(w.ra) THEN w.ra[i] ELSE xsh[i]
      rsh == [i \in DOMAIN xsh |-> AbsOf(n(i))]
      from(ix) == [i \in DOMAIN xsh |-> IF n(i) < 0 THEN ix[i] + xsh[i] - rsh[i] ELSE ix[i]]
  IN IF Len(w.sh) > 1 \/ ~Numbers(w) \/ Len(w.ra) >= UrMax \/ Prod(rsh) > UszMax THEN Err
     ELSE Known(Made(rsh, LAMBDA ix : IF Within(from(ix), xsh) THEN ElemAt(x, xsh, from(ix)) ELSE x.fill))

Dropped(w, x) ==
  LET xsh == Padded(x, Len(w.ra))
      n(i) == IF i <= Len(w.ra) THEN w.ra[i] ELSE 0
      rsh == [i \in DOMAIN xsh |-> MaxOf(0, xsh[i] - AbsOf(n(i)))]
  IN IF Len(w.sh) > 1 \/ ~Numbers(w) \/ Len(w.ra) >= UrMax THEN Err
     ELSE Made(rsh, LAMBDA ix : ElemAt(x, xsh, [i \in DOMAIN xsh |-> ix[i] + MaxOf(0, n(i))]))

\* A computed length c of an axis, the others multiplying to p, and n elements.
AxisFor(c, p, n) == CASE c = -1 -> IF n % p = 0 THEN n \div p ELSE -1
                      [] c = -2 -> n \div p
                      [] OTHER -> (n + p - 1) \div p

ReshapedTo(w, x) ==
  LET unk == {i \in DOMAIN w.ra : w.ra[i] < 0}
      p == Prod([i \in DOMAIN w.ra |-> IF i \in unk THEN 1 ELSE w.ra[i]])
      ax == IF unk = {} \/ p = 0 THEN 0 ELSE AxisFor(w.ra[CHOOSE i \in unk : TRUE], p, Ia(x))
      sh == [i \in DOMAIN w.ra |-> IF i \in unk THEN ax ELSE w.ra[i]]
      fills == \E i \in unk : w.ra[i] = -4
      elem(k) == IF k <= Ia(x) THEN x.ra[k] ELSE IF fills THEN x.fill
                 ELSE IF Ia(x) = 0 THEN NoFill ELSE x.ra[((k - 1) % Ia(x)) + 1]
  IN IF Len(w.sh) > 1 \/ ~Numbers(w) \/ Cardinality(unk) > 1 \/ \E i \in unk : w.ra[i] < -4 THEN Err
     ELSE IF unk # {} /\ (p = 0 \/ ax = -1) THEN Err
     ELSE IF Prod(sh) > UszMax \/ Len(sh) > UrMax THEN Err
     ELSE Known([at |-> FALSE, sh |-> sh, ra |-> [k \in 1..Prod(sh) |-> elem(k)]])

Rotated(w, x) ==
  LET by(i) == IF i <= Len(w.ra) THEN w.ra[i] ELSE 0
  IN IF x.sh = <<>> /\ (w.at \/ w.ra # <<>>) THEN Err
     ELSE IF Len(w.sh) > 1 \/ Len(w.ra) > Rnk(x) \/ ~Numbers(w) THEN Err
     ELSE Made(x.sh, LAMBDA ix : ElemAt(x, x.sh, [i \in DOMAIN x.sh |-> (ix[i] + by(i)) % x.sh[i]]))

Reversed(x) ==
  IF x.sh = <<>> THEN Err
  ELSE Made(x.sh, LAMBDA ix : ElemAt(x, x.sh, [ix EXCEPT ![1] = x.sh[1] - 1 - @]))

\* The element at one index for every axis, counted from the end when negative.
PickedAt(w, x) ==
  LET at(i) == IF w.ra[i] < 0 THEN w.ra[i] + x.sh[i] ELSE w.ra[i]
  IN IF x.at THEN (IF ~w.at /\ w.ra = <<>> THEN Shown(x) ELSE Err)
     ELSE IF ~Numbers(w) \/ Len(w.ra) # Rnk(x) \/ (~w.at /\ Len(w.sh) # 1) THEN Err
     ELSE IF ~Within([i \in DOMAIN x.sh |-> at(i)], x.sh) THEN Err
     ELSE [at |-> TRUE, sh |-> <<>>, ra |-> <<ElemAt(x, x.sh, [i \in DOMAIN x.sh |-> at(i)])>>]

Coupled(w, x) == IF w.sh # x.sh \/ Rnk(x) >= UrMax THEN Err
                 ELSE [at |-> FALSE, sh |-> <<2>> \o x.sh, ra |-> w.ra \o x.ra]

\* Cells of the arguments one after the other, an argument of lower rank being one cell.
AsCells(y, r) == IF Rnk(y) = r THEN y.sh ELSE <<1>> \o y.sh
Joined(w, x) ==
  LET r == MaxOf(1, MaxOf(Rnk(w), Rnk(x)))
      a == AsCells(w, r)  b == AsCells(x, r)
  IN IF Len(a) # r \/ Len(b) # r THEN Err
     ELSE IF Drop1(a) # Drop1(b) THEN Err
     ELSE [at |-> FALSE, sh |-> <<a[1] + b[1]>> \o Drop1(a), ra |-> w.ra \o x.ra]

\* The first or the last cells of the join, as many as x has.
Shifted(aft, w, x) ==
  IF x.sh = <<>> \/ Rnk(w) > Rnk(x) THEN Err
  ELSE LET j == IF aft THEN Joined(x, w) ELSE Joined(w, x)
       IN IF IsErr(j) THEN Err
          ELSE [at |-> FALSE, sh |-> x.sh,
                ra |-> IF aft THEN LastOf(j.ra, Ia(x)) ELSE SubSeq(j.ra, 1, Ia(x))]

\* Blocks laid out along the axes of x: along axis a the position p has length
\* lens[a][p], or is a single cell whose block lacks the axis (length -1); after
\* these axes every block has the shape csh.
BlockShape(lens, ix, csh) ==
  SelectSeq([a \in DOMAIN lens |-> lens[a][ix[a] + 1]], LAMBDA l : l # -1) \o csh
AxisLens(n, MaxLen) == {f \in [1..n -> -1..MaxLen] : \E p \in 1..n : f[p] # -1}
Lengths(sh, MaxLen) == IF Len(sh) = 1 THEN {<<f>> : f \in AxisLens(sh[1], MaxLen)}
                       ELSE {<<f, g>> : f \in AxisLens(sh[1], MaxLen), g \in AxisLens(sh[2], MaxLen)}
Layouts(x, MaxLen) ==
  LET x0 == x.items[1]
  IN {l \in Lengths(x.sh, MaxLen) \X {LastOf(x0.sh, n) : n \in 0..Rnk(x0)} :
        \A k \in DOMAIN x.items : x.items[k].sh = BlockShape(l[1], Index(x.sh, k), l[2])}

SumSeq(s) == FoldLeft(LAMBDA a, b : a + b, 0, s)
\* The block a position along an axis falls in, and the position within it.
InBlock(lens, p) == CHOOSE b \in DOMAIN lens :
                      LET before == SumSeq([i \in 1..(b - 1) |-> AbsOf(lens[i])])
                      IN before <= p /\ p < before + AbsOf(lens[b])
Inside(lens, p) == p - SumSeq([i \in 1..(InBlock(lens, p) - 1) |-> AbsOf(lens[i])])

LaidOut(x, l) ==
  LET lens == l[1]
      n == Len(lens)
      elem(ix) == LET b == [a \in 1..n |-> InBlock(lens[a], ix[a]) - 1]
                      e == x.items[Offset(x.sh, b) + 1]
                      own == SelectSeq([a \in 1..n |-> <<lens[a][b[a] + 1], Inside(lens[a], ix[a])>>],
                                       LAMBDA q : q[1] # -1)
                  IN ElemAt(e, e.sh, [i \in DOMAIN own |-> own[i][2]] \o SubSeq(ix, n + 1, Len(ix)))
  IN Made([a \in 1..n |-> SumSeq([p \in DOMAIN lens[a] |-> AbsOf(lens[a][p])])] \o l[2], elem)
=============================================================================
