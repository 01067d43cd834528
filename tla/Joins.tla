------------------------------- MODULE Joins -------------------------------
(***************************************************************************)
(* Joining, coupling, shifting, reversing and rotating, their repeated and *)
(* inverse forms, and modifying under a structural primitive: the second   *)
(* half of builtins/sfns.c.  `ru` says whether the array an operator may   *)
(* write in place is unshared; F names the function called under a         *)
(* primitive (module Arrays), which returns an array or Err.               *)
(***************************************************************************)
EXTENDS Shapes

Item(x, pos) == Atom(x.ra[pos + 1])
EndsWith(sh, i) == SubSeq(sh, i + 1, Len(sh))

-----------------------------------------------------------------------------
\* Join of an array of arrays: a record of its shape, its items in row-major
\* order and its fill.

Same(f, c) == IF f = c.fill THEN f ELSE NoFill
ItemFills(items) == FoldLeft(Same, items[1].fill, Tail(items))

\* rm: the largest rank seen; rr: the rank of the result so far; rd: whether
\* smaller ranks were seen; esh: the lengths the trailing axes must have.
JoinScan(items) ==
  LET x0 == items[1]
      first == IF Rnk(x0) > 0
               THEN [ok |-> TRUE, rm |-> Rnk(x0), rr |-> Rnk(x0), rd |-> 0, esh |-> Tail(x0.sh), cam |-> x0.sh[1]]
               ELSE [ok |-> TRUE, rm |-> 0, rr |-> 1, rd |-> 0, esh |-> <<>>, cam |-> 1]
      step(s, i) ==
        LET c == items[i]  cr == Rnk(c)
            grow == cr > s.rm
            badRanks == IF cr = 0 THEN s.rm > 1
                        ELSE IF grow THEN cr - 1 > s.rm - s.rd ELSE s.rm - cr > 1
            \* every item before was a cell: their leading lengths become part of the cell shape
            cells == grow /\ cr > s.rr
            rm == MaxOf(s.rm, cr)
            esh == IF cells THEN x0.sh ELSE s.esh
            rest == IF cr < rm THEN c.sh ELSE Tail(c.sh)
        IN IF ~s.ok \/ badRanks THEN [s EXCEPT !.ok = FALSE]
           ELSE IF cr = 0 THEN [s EXCEPT !.rd = s.rm, !.cam = @ + 1]
           ELSE IF cells /\ \E j \in 1..i - 1 : items[j].sh[1] # x0.sh[1] THEN [s EXCEPT !.ok = FALSE]
           ELSE [ok |-> SubSeq(rest, 1, rm - 1) = SubSeq(esh, 1, rm - 1),
                 rm |-> rm, rr |-> MaxOf(s.rr, cr), rd |-> IF cr = s.rm THEN s.rd ELSE 1, esh |-> esh,
                 cam |-> (IF cells THEN i - 1 ELSE s.cam) + (IF cr < rm THEN 1 ELSE c.sh[1])]
  IN FoldLeft(step, first, [k \in 1..Len(items) - 1 |-> k + 1])

\* The length of a list's join is not checked against UszMax.
join_list(x) ==
  LET s == JoinScan(x.items)
  IN IF ~s.ok \/ s.rm = 0 THEN Err
     ELSE qWithFill(Reshaped(apd_tot(x.items), <<s.cam>> \o SubSeq(s.esh, 1, s.rr - 1)), ItemFills(x.items))

\* An array of arrays with several axes.  Along axis a, ll[a] has the length of
\* every position, -1 where the items lack the axis; tr counts the axes of the
\* first item not yet matched to an axis of x.
Strides(sh) == [a \in DOMAIN sh |-> Prod(EndsWith(sh, a))]

AxisLengths(x, a, tr) ==
  LET x0 == x.items[1]  r0 == Rnk(x0)  n == x.sh[a]  step == Strides(x.sh)[a]
      at(i) == x.items[(i - 1) * step + 1]
      r1 == FoldLeft(MaxOf, 0, [i \in 1..n |-> Rnk(at(i))])
      a0 == r1 = r0
  IN IF n = 1 THEN [ok |-> tr > 0, ll |-> IF tr > 0 THEN <<x0.sh[r0 - tr + 1]>> ELSE <<>>, a0 |-> TRUE]
     ELSE IF (a0 /\ tr = 0) \/ \E i \in 1..n : r1 - Rnk(at(i)) > 1
     THEN [ok |-> FALSE, ll |-> <<>>, a0 |-> a0]
     ELSE [ok |-> TRUE, a0 |-> a0,
           ll |-> [i \in 1..n |-> IF Rnk(at(i)) < r1 THEN -1 ELSE at(i).sh[r0 - tr + 1]]]

\* Every item whose first nonzero index is on axis a against the base before it.
AxisShapesMatch(x, a, tr, l) ==
  LET n == x.sh[a]  step == Strides(x.sh)[a]
  IN n = 1 \/ \A j \in {j \in 0..(Len(x.items) - 1) : j % (n * step) = 0} :
       LET base == x.items[j + 1]  r == Rnk(base)
           lr == IF r > 0 THEN r - tr ELSE 0
           without == IF l.a0 /\ r > 0 THEN RemoveAt(base.sh, lr + 1) ELSE base.sh
       IN \A i \in 2..n :
            LET c == x.items[j + (i - 1) * step + 1]
            IN c.sh = IF l.ll[i] = -1 THEN without ELSE InsertAt(without, lr + 1, l.ll[i])

AxisJoined(x, a, s, l) ==
  IF ~l.ok \/ ~AxisShapesMatch(x, a, s.tr, l) THEN [s EXCEPT !.ok = FALSE]
  ELSE [ok |-> TRUE, tr |-> s.tr - (IF l.a0 THEN 1 ELSE 0),
        lens |-> Append(s.lens, [i \in DOMAIN l.ll |-> AbsOf(l.ll[i])])]
JoinAxes(x) ==
  FoldLeft(LAMBDA s, a : IF ~s.ok THEN s ELSE AxisJoined(x, a, s, AxisLengths(x, a, s.tr)),
           [ok |-> TRUE, tr |-> Rnk(x.items[1]), lens |-> <<>>], [a \in DOMAIN x.sh |-> a])

\* Rows of an item, l elements each, go to rows of the result.
RECURSIVE PutRows(_, _, _, _, _)
PutRows(m, e, l, rows, j) ==
  IF j = Ia(e) THEN m ELSE PutRows(mut_copy(m, rows[j \div l + 1], e, j, l), e, l, rows, j + l)

\* Where an item lies: its index along each axis, the lengths before it and its own.
TotalOf(s) == FoldLeft(LAMBDA n, l : n + l, 0, s)
ItemPlace(x, lens, i) ==
  [a \in DOMAIN x.sh |-> LET ei == (((i - 1) \div Strides(x.sh)[a]) % x.sh[a]) + 1
                         IN [off |-> TotalOf(SubSeq(lens[a], 1, ei - 1)), len |-> lens[a][ei]]]

\* Where row number `row` of an item starts in a result of shape st.
RowStart(st, place, strides, row) ==
  FoldLeft(LAMBDA c, a : c * st[a] + place[a].off + (IF a = Len(st) THEN 0 ELSE (row \div strides[a]) % place[a].len),
           0, [a \in DOMAIN st |-> a])
PutItem(m, e, st, csz, place) ==
  LET lead == [a \in 1..(Len(st) - 1) |-> place[a].len]  strides == Strides(lead)
  IN IF e.at THEN mut_set(m, csz * RowStart(st, place, strides, 0), e.ra[1])
     ELSE IF Ia(e) = 0 THEN m
     ELSE PutRows(m, e, place[Len(st)].len * csz,
                  [k \in 1..Prod(lead) |-> csz * RowStart(st, place, strides, k - 1)], 0)

JoinedItems(x, lens, st, csh) ==
  LET csz == Prod(csh)
      m == FoldLeft(LAMBDA m, i : PutItem(m, x.items[i], st, csz, ItemPlace(x, lens, i)),
                    MutInit(Prod(st) * csz, ElBit), [i \in DOMAIN x.items |-> i])
  IN IF Prod(st) * csz > UszMax THEN Err
     ELSE qWithFill(IF Prod(st) = 0 THEN Arr(ElB, st \o csh, <<>>, NoFill) ELSE mut_f(m, st \o csh, NoFill),
                    ItemFills(x.items))

\* j: the axes; of the first item's shape the part not matched to an axis is the cell.
JoinOnAxes(x, j) ==
  IF ~j.ok THEN Err
  ELSE JoinedItems(x, j.lens, [a \in DOMAIN x.sh |-> TotalOf(j.lens[a])],
                   EndsWith(x.items[1].sh, Rnk(x.items[1]) - j.tr))
join_highrank(x) == JoinOnAxes(x, JoinAxes(x))

join_empty(x) ==
  LET xr == Len(x.sh)  f == x.fill
  IN IF f = NoFill THEN Arr(ElB, x.sh, <<>>, NoFill)
     ELSE IF f.at THEN (IF xr = 1 THEN Arr(ElB, <<0>>, <<>>, NoFill) ELSE Err)
     ELSE IF Rnk(f) < xr THEN Err
     ELSE withFill(Arr(ElB, (IF xr = 1 THEN <<0>> ELSE [i \in 1..xr |-> x.sh[i] * f.sh[i]]) \o EndsWith(f.sh, xr),
                       <<>>, NoFill), f.fill)

join_c1(x) == IF x.items = <<>> THEN join_empty(x)
              ELSE IF Len(x.sh) = 1 THEN join_list(x)
              ELSE IF Len(x.sh) = 0 THEN bqn_merge(<<>>, x.items)
              ELSE join_highrank(x)

\* Join of two arrays: into w's own storage when it is unshared and has the room.
join_c2(w0, x0, ru) ==
  LET w == m_unit(w0)  x == m_unit(x0)
      wr == Rnk(w)  xr == Rnk(x)  c == MaxOf(wr, xr)
      f == fill_both(w, x)
      cell(y) == EndsWith(y.sh, Rnk(y) - (c - 1))
      lead(y) == IF Rnk(y) = c THEN y.sh[1] ELSE 1
      r == arr_join_inline(w, x, ru)
  IN IF w0.at /\ x0.at THEN m_vec2(w0.ra[1], x0.ra[1])
     ELSE IF x0.at /\ wr = 1 /\ ru /\ w.el = ElOr(w.el, x.el) /\ (w.el = ElB => w.fill = NoFill)
     THEN vec_add(w, x, ru)
     ELSE IF c = 0 THEN qWithFill(Arr(ElB, <<2>>, w.ra \o x.ra, NoFill), f)
     ELSE IF c - wr > 1 \/ c - xr > 1 THEN Err
     ELSE IF c = 1 THEN qWithFill(r, f)
     ELSE IF cell(w) # cell(x) \/ lead(w) + lead(x) > UszMax THEN Err
     ELSE qWithFill(Reshaped(r, <<lead(w) + lead(x)>> \o cell(x)), f)

-----------------------------------------------------------------------------
\* Couple

couple_c1(x, ru) ==
  IF x.at THEN m_vec1(x.ra[1])
  ELSE IF Rnk(x) = UrMax THEN Err ELSE Reshaped(cpyWithShape(x, ru), <<1>> \o x.sh)

couple_c2(w0, x0) ==
  LET w == m_unit(w0)  x == m_unit(x0)  ia == Ia(w)
  IN IF w0.at /\ x0.at THEN m_vec2(w0.ra[1], x0.ra[1])
     ELSE IF w.sh # x.sh \/ Rnk(w) = UrMax THEN Err
     ELSE mut_f(mut_copyG(mut_copyG(MutInit(2 * ia, ElOr(w.el, x.el)), 0, w, 0, ia), ia, x, 0, ia),
                <<2>> \o w.sh, fill_both(w, x))

couple_powm(am, x0, ru) ==
  LET x == m_unit(x0)  xr == Rnk(x)
      dr == MinOf(-am, xr)
  IN IF am >= 0 THEN IF am > UrMax - xr THEN Err
                     ELSE Reshaped(customizeShape(x, ru), Rep(am, 1) \o x.sh)
     ELSE IF x0.at \/ (-am > xr /\ Ia(x) = 1) THEN Err
     ELSE IF \E i \in 1..dr : x.sh[i] # 1 THEN Err
     ELSE Reshaped(FlKeep(x, {}), EndsWith(x.sh, dr))

-----------------------------------------------------------------------------
\* Shifts: before (») and after («)

shift_check(w, x) ==
  LET wr == Rnk(w)  xr == Rnk(x)
  IN (wr + 1 = xr \/ wr = xr) /\ EndsWith(w.sh, 1 + wr - xr) = EndsWith(x.sh, 1)

\* m of the elements of x shift out and as many of the fill come in.
ShiftFill(aft, x, m) ==
  LET ia == Ia(x)
      r == mut_copyG(MutInit(ia, x.el), IF aft THEN 0 ELSE m, x, IF aft THEN m ELSE 0, ia - m)
  IN mut_f(mut_fillG(r, IF aft THEN ia - m ELSE 0, x.fill, m), x.sh, x.fill)

shift_c1(aft, x) ==
  IF x.at \/ Rnk(x) = 0 THEN Err
  ELSE IF Ia(x) = 0 THEN x
  ELSE IF x.fill = NoFill THEN Err
  ELSE IF Ia(x) = Csz(x) THEN Reshaped(reshape_one(Ia(x), x.fill), x.sh)
  ELSE ShiftFill(aft, x, Csz(x))

shift_c2(aft, w0, x) ==
  LET w == m_unit(w0)  wia == Ia(w)  xia == Ia(x)
      mid == MinOf(wia, xia)
      m == MutInit(xia, ElOr(w.el, x.el))
      r == IF ~aft THEN mut_copyG(mut_copyG(m, 0, w, 0, mid), mid, x, 0, xia - mid)
           ELSE IF wia < xia THEN mut_copyG(mut_copyG(m, 0, x, wia, xia - wia), xia - wia, w, 0, wia)
           ELSE mut_copyG(m, 0, w, wia - xia, xia)
  IN IF x.at \/ Rnk(x) = 0 THEN Err
     ELSE IF ~shift_check(w, x) THEN Err ELSE mut_f(r, x.sh, fill_both(w, x))

shift_powm(aft, am, x) ==
  IF x.at \/ Rnk(x) = 0 THEN Err
  ELSE IF Ia(x) = 0 THEN x
  ELSE IF x.fill = NoFill THEN Err
  ELSE IF am >= x.sh[1] THEN Reshaped(reshape_one(Ia(x), x.fill), x.sh)
  ELSE qWithFill(ShiftFill(aft, x, am * Csz(x)), x.fill)

-----------------------------------------------------------------------------
\* Reverse and rotate

reverse_c1(x) ==
  LET n == x.sh[1]  csz == Csz(x)
  IN IF x.at \/ Rnk(x) = 0 THEN Err
     ELSE IF n <= 1 THEN x
     ELSE m_directarrAs(x, [k \in DOMAIN x.ra |-> x.ra[(n - 1 - ((k - 1) \div csz)) * csz + ((k - 1) % csz) + 1]])

RotateElems(wv, x) == \* mutant: rotates by elements, not by cells
  LET am == wv % x.sh[1]
  IN IF x.at \/ Rnk(x) = 0 THEN Err
     ELSE IF Ia(x) = 0 \/ am = 0 THEN x
     ELSE mut_f(mut_copyG(mut_copyG(MutInit(Ia(x), x.el), 0, x, am, Ia(x) - am), Ia(x) - am, x, 0, am), x.sh, x.fill)

reverse_atom(wv, x) ==
  LET xia == Ia(x)  am == (wv % x.sh[1]) * Csz(x)
  IN IF x.at \/ Rnk(x) = 0 THEN Err
     ELSE IF xia = 0 \/ am = 0 THEN x
     ELSE mut_f(mut_copyG(mut_copyG(MutInit(xia, x.el), 0, x, am, xia - am), xia - am, x, 0, am), x.sh, x.fill)

\* Odometer over the axes before the innermost rotated one: pos is the position
\* in x, which wraps to 0 at the end of an axis and is done with it at rot again.
RECURSIVE NextRow(_, _, _)
NextRow(s, p, c) ==
  LET wrap == s.pos[c] + 1 = p.xsh[c]
      np == IF wrap THEN 0 ELSE s.pos[c] + 1
      t == [s EXCEPT !.pos[c] = np, !.xi = @ + (IF wrap THEN -p.xcv[c] * p.xsh[c] ELSE 0) + p.xcv[c]]
  IN IF np # p.rot[c] THEN t
     ELSE IF c = 1 THEN [t EXCEPT !.done = TRUE] ELSE NextRow(t, p, c - 1)

RECURSIVE RotateRows(_, _, _, _)
RotateRows(m, x, p, s) ==
  LET r == mut_copyG(mut_copyG(m, s.ri + p.n1, x, s.xi, p.n0), s.ri, x, s.xi + p.n0, p.n1)
      t == NextRow(s, p, p.cr)
  IN IF t.done THEN r ELSE RotateRows(r, x, p, [t EXCEPT !.ri = @ + p.n0 + p.n1])

RotatePlan(x, amount, last) ==
  [cr |-> last - 1, xsh |-> x.sh, rot |-> SubSeq(amount, 1, last - 1), xcv |-> [i \in 1..(last - 1) |-> Prod(EndsWith(x.sh, i))],
   n0 |-> Prod(EndsWith(x.sh, last)) * amount[last], n1 |-> Prod(EndsWith(x.sh, last)) * (x.sh[last] - amount[last])]
RotateFrom(x, plan) ==
  RotateRows(MutInit(Ia(x), x.el), x, plan,
             [ri |-> 0, xi |-> FoldLeft(LAMBDA s, i : s + plan.rot[i] * plan.xcv[i], 0, [i \in 1..plan.cr |-> i]), pos |-> plan.rot, done |-> FALSE])
RotateTo(x, amount, last, lastaxis) ==
  IF last = 1 THEN lastaxis ELSE m_directarrAs(x, RotateFrom(x, RotatePlan(x, amount, last)).a)
\* Axes after the last one that moves are part of its cells.
LastMoved(amount) == FoldLeft(LAMBDA c, i : IF amount[i] # 0 THEN i ELSE c, 1, [i \in DOMAIN amount |-> i])
rotate_highrank(inv, w, x) ==
  LET wia == Ia(w)  xr == Rnk(x)
      amount == [i \in 1..wia |-> (IF inv THEN -w.ra[i] ELSE w.ra[i]) % x.sh[i]]
      lastaxis == reverse_atom(IF inv THEN -w.ra[1] ELSE w.ra[1], x)
  IN IF Rnk(w) > 1 THEN Err
     ELSE IF x.at \/ xr = 0 THEN (IF wia # 0 THEN Err ELSE m_unit(x))
     ELSE IF wia = 1 THEN (IF w.ra[1] >= Chr THEN Err ELSE lastaxis)
     ELSE IF wia > xr THEN Err
     ELSE IF wia = 0 THEN x
     ELSE IF \E i \in 1..wia : w.ra[i] >= Chr THEN Err
     ELSE IF Ia(x) = 0 THEN x
     ELSE RotateTo(x, amount, LastMoved(amount), lastaxis)

reverse_c2(w, x) == IF w.at THEN (IF w.ra[1] >= Chr THEN Err ELSE reverse_atom(w.ra[1], x))
                    ELSE rotate_highrank(FALSE, w, x)

ReverseAgain(w, x) == reverse_c2(w, x) \* mutant: not inverted

reverse_ix(w, x) ==
  IF x.at THEN Err
  ELSE IF ~w.at THEN rotate_highrank(TRUE, w, x)
  ELSE IF Rnk(x) = 0 \/ w.ra[1] >= Chr THEN Err ELSE reverse_atom(-w.ra[1], x)

modmul(a, b, n) == ((a % n) * (b % n)) % n

\* Rotation am times.  `fast` is the branch that multiplies w as a whole; MAY_F
\* lets a build with randomized heuristics skip it.
reverse_powd(am, w, x, fast) ==
  LET adj(w2) == [w EXCEPT !.ra = w2]
  IN IF am < 0 /\ x.at THEN Err
     ELSE IF w.at
     THEN IF x.at \/ Rnk(x) = 0 \/ w.ra[1] >= Chr THEN Err
          ELSE IF Ia(x) = 0 THEN x ELSE reverse_atom(modmul(am, w.ra[1], x.sh[1]), x)
     ELSE IF x.at \/ Ia(x) = 0 \/ Rnk(w) > 1 \/ Ia(w) > Rnk(x) THEN rotate_highrank(am < 0, w, x)
     ELSE IF \E i \in DOMAIN w.ra : w.ra[i] >= Chr THEN Err
     ELSE IF fast THEN rotate_highrank(am < 0, adj([i \in DOMAIN w.ra |-> AbsOf(am) * w.ra[i]]), x)
     ELSE rotate_highrank(am < 0, adj([i \in DOMAIN w.ra |-> modmul(am, w.ra[i], x.sh[i])]), x)

-----------------------------------------------------------------------------
\* Repeated drop, shift and join with a left argument

drop_powd(am, w, x0) ==
  LET x == m_unit(x0)  xr == Rnk(x)  wl == m_unit(w)
      rr == MaxOf(xr, Ia(wl))
      over(i) == AbsOf(wl.ra[i]) * am > I64Max
      xsh == Rep(rr - xr, 1) \o x.sh
  IN IF \E i \in DOMAIN wl.ra : wl.ra[i] >= Chr THEN Err
     ELSE IF ~x0.at /\ Ia(x) = 0
     THEN IF Rnk(wl) > 1 \/ Ia(wl) >= UrMax THEN Err
          ELSE IF rr = 1 THEN x
          ELSE Reshaped(customizeShape(x, FALSE),
                        [i \in 1..rr |-> IF i > Ia(wl) THEN xsh[i]
                                           ELSE IF over(i) THEN 0 ELSE MaxOf(xsh[i] - AbsOf(wl.ra[i]) * am, 0)])
     ELSE LET far == [wl EXCEPT !.ra = [i \in DOMAIN @ |-> IF over(i) THEN UszMax ELSE @[i] * am]]
          IN IF w.at THEN drop_c2(far.ra[1], x0) ELSE takedrop_highrank(FALSE, far, x0)

CycledFirst(aft, wl, w, x, csh) == \* mutant: always before x
  join_c2(IF wl = 0 THEN w ELSE Reshaped(reshape_cycle(wl * Prod(csh), w), <<wl>> \o csh), x, FALSE)

join_cycled(aft, wl, w, x, csh) ==
  LET ria == wl * Prod(csh)
      wa == IF wl = 0 THEN w
            ELSE Reshaped(IF ria = Ia(w) THEN customizeShape(w, FALSE) ELSE reshape_cycle(ria, w), <<wl>> \o csh)
  IN IF ria > UszMax THEN Err ELSE IF aft THEN join_c2(x, wa, FALSE) ELSE join_c2(wa, x, FALSE)

shift_powd(aft, am, w0, x) ==
  LET w == m_unit(w0)  xr == Rnk(x)  xn == x.sh[1]
      wn == IF Rnk(w) < xr THEN 1 ELSE w.sh[1]
      all == wn * am >= xn
      xd == IF all THEN xn ELSE wn * am
      \* the last cells of the cycle come last
      wrot == IF all /\ aft /\ xn % wn # 0 /\ Rnk(w) > 0 THEN reverse_atom(wn - (xn % wn), w) ELSE w
  IN IF x.at \/ Rnk(x) = 0 THEN Err
     ELSE IF ~shift_check(w, x) THEN Err
     ELSE IF wn >= xn THEN shift_c2(aft, w, x)
     ELSE join_cycled(aft, xd, wrot, drop_c2(IF aft THEN xd ELSE -xd, x), Tail(x.sh))

join_powd(aft, am, w, x) ==
  LET wr == Rnk(w)  xr == Rnk(x)
      cr == MaxOf(1, MaxOf(wr, xr)) - 1
      wc == am * (IF wr > 0 /\ wr >= xr THEN w.sh[1] ELSE 1)
      csh == EndsWith(x.sh, xr - cr)
  IN IF cr > wr \/ cr > xr THEN Err
     ELSE IF EndsWith(w.sh, wr - cr) # csh \/ wc > UszMax THEN Err
     ELSE IF w.at THEN join_cycled(aft, 0, reshape_one(wc, w.ra[1]), m_unit(x), csh)
     ELSE join_cycled(aft, wc, w, m_unit(x), csh)

-----------------------------------------------------------------------------
\* Modifying under a primitive

\* Written in place when x is unshared and can store the new element.
ReplacedAt(pos, v, x, ru) ==
  LET re == ElOr(x.el, SelfElType(v))
      m == mut_setG(MutInit(Ia(x), re), pos, v)
  IN IF x.el = ElB \/ (ru /\ re = x.el) THEN [FlKeep(x, {}) EXCEPT !.ra[pos + 1] = v]
     ELSE mut_f(mut_copyG(mut_copyG(m, 0, x, 0, pos), pos + 1, x, pos + 1, Ia(x) - pos - 1), x.sh, x.fill)
ReplaceOne(rep, pos, x, ru) == IF IsErr(rep) THEN Err ELSE ReplacedAt(pos, rep.ra[1], x, ru)
pick_replaceOne(F, pos, x, ru) == ReplaceOne(Apply(F, Item(x, pos)), pos, x, ru)

\* What F made of a part of x of shape sh goes back before or after the lv elements
\* that were left alone.
PutBack(rep, sh, x, after, lv) ==
  LET n == Ia(x) - lv
      m == MutInit(Ia(x), ElOr(x.el, rep.el))
  IN IF IsErr(rep) THEN Err
     ELSE IF rep.at \/ rep.sh # sh THEN Err
     ELSE mut_f(IF after THEN mut_copyG(mut_copyG(m, 0, x, 0, lv), lv, rep, 0, n)
                ELSE mut_copyG(mut_copyG(m, 0, rep, 0, n), n, x, n, lv), x.sh, x.fill)

takedrop_ucw(take, wi, F, am, x) ==
  LET tk == CellLen(x) * am  lv == Ia(x) - tk
      after == (wi >= 0) # take
      sh == <<am>> \o Tail(x.sh)
      skip == IF after THEN lv ELSE 0
  IN PutBack(Apply(F, [FlKeep(x, {}) EXCEPT !.sh = sh, !.ra = SubSeq(@, skip + 1, skip + tk)]), sh, x, after, lv)

take_ucw(wi, F, x) == IF AbsOf(wi) > x.sh[1] THEN Err ELSE takedrop_ucw(TRUE, wi, F, AbsOf(wi), x)
drop_ucw(wi, F, x) == takedrop_ucw(FALSE, wi, F, x.sh[1] - MinOf(AbsOf(wi), x.sh[1]), x)

ShapedBack(rep, x) ==
  IF IsErr(rep) THEN Err
  ELSE IF rep.at \/ rep.sh # <<Ia(x)>> THEN Err
  ELSE IF Rnk(x) = 1 THEN rep
  ELSE IF Rnk(x) = 0 THEN Reshaped(take_head(1, rep), <<>>) ELSE Reshaped(take_head(Ia(x), rep), x.sh)
shape_uc1(F, x) == ShapedBack(Apply(F, shape_c1(x, FALSE)), x)

WholeBack(rep, sh, x) ==
  IF IsErr(rep) THEN Err
  ELSE IF rep.at \/ rep.sh # sh THEN Err ELSE Reshaped(customizeShape(rep, FALSE), x.sh)

\* The runtime's Under, for a selection of elements of x: at has their positions from
\* 1, 0 for a fill.  An element that is selected twice must be given the same value.
def_fn_ucw(rep, at, x) ==
  LET from(k) == {i \in DOMAIN at.ra : at.ra[i] = k}
  IN IF IsErr(rep) THEN Err
     ELSE IF rep.at \/ rep.sh # at.sh \/ from(0) # {} THEN Err
     ELSE IF \E i, j \in DOMAIN at.ra : at.ra[i] = at.ra[j] /\ rep.ra[i] # rep.ra[j] THEN Err
     ELSE Arr(ElB, x.sh, [k \in DOMAIN x.ra |-> IF from(k) = {} THEN x.ra[k] ELSE rep.ra[CHOOSE i \in from(k) : TRUE]],
              NoFill)

\* at is the same reshape of the positions in x
ShapeUnder(F, arg, at, x) ==
  IF IsErr(arg) THEN Err
  ELSE IF Ia(arg) > Ia(x) THEN def_fn_ucw(Apply(F, arg), at, x)
  ELSE IF Ia(arg) = Ia(x) THEN WholeBack(Apply(F, arg), arg.sh, x)
  ELSE PutBack(Apply(F, arg), arg.sh, x, FALSE, Ia(x) - Ia(arg))
shape_ucw(w, F, x) ==
  ShapeUnder(F, shape_c2(w, x, FALSE), shape_c2(w, Arr(ElInt, x.sh, [k \in DOMAIN x.ra |-> k], 0), FALSE), x)

TurnedBack(w, rep) == IF IsErr(rep) THEN Err ELSE reverse_ix(w, rep)
reverse_ucw(w, F, x) ==
  IF IsErr(reverse_c2(w, x)) THEN Err ELSE TurnedBack(w, Apply(F, reverse_c2(w, x)))
=============================================================================
