------------------------------ MODULE Shapes ------------------------------
(***************************************************************************)
(* Reshaping, picking, taking and dropping: the first half of              *)
(* builtins/sfns.c.  `ru` says whether the argument is unshared.           *)
(***************************************************************************)
EXTENDS Arrays

CONSTANTS Block,  \* elements copied at once by reshape_cycle after doubling (1<<15 bytes)
          I64Max  \* the largest product MUL_ON forms of an amount and a cell's size

ASSUME ShapesAssumption == Block \in Nat \ {0} /\ I64Max \in Nat /\ I64Max > UszMax

customizeShape(x, ru) == IF ru THEN FlKeep(x, {Squoze}) ELSE FlKeep(x, {})
cpyWithShape(x, ru) == customizeShape(x, ru)

\* The first n elements, as a list: in place, copied or sliced, always without flags.
take_head(n, x) == [FlKeep(x, {}) EXCEPT !.sh = <<n>>, !.ra = SubSeq(@, 1, n)]

take_impl(n, x) ==
  IF n <= Ia(x) THEN take_head(n, x)
  ELSE IF x.fill = NoFill THEN Err
  ELSE mut_f(mut_fillG(mut_copyG(MutInit(n, x.el), 0, x, 0, Ia(x)), Ia(x), x.fill, n - Ia(x)),
             <<n>>, x.fill)

TakenTo(n, x) == IF n > Ia(x) /\ x.fill = NoFill THEN Err ELSE take_head(n, take_impl(n, x))

reshape_one(n, v) == FlSet(Arr(SelfElType(v), <<n>>, Rep(n, v), ElemFill(v)), {Asc, Dsc, Squoze})

\* pair_c2 on atoms, and couple_c2's: the type both need.
m_vec2(a, b) == LET el == ElOr(SelfElType(a), SelfElType(b)) IN Arr(el, <<2>>, <<a, b>>, NoFill)

-----------------------------------------------------------------------------
\* Reshape.  An axis of w is a length, or one of the four computed ones.

AxAtop == -1  AxFloor == -2  AxReverse == -3  AxTake == -4
Computed(c) == c \in AxTake..AxAtop

ShapedAs(r, sh) == IF IsErr(r) THEN Err ELSE Reshaped(r, sh)

shape_c1(x, ru) ==
  IF x.at THEN m_vec1(x.ra[1])
  ELSE IF Rnk(x) = 1 THEN x
  ELSE IF Ia(x) = 1 /\ x.el < ElB THEN m_vec1(x.ra[1])
  ELSE Reshaped(customizeShape(x, ru), <<Ia(x)>>)

\* What is there is doubled up to a block, then copied in blocks.
RECURSIVE Doubled(_, _)
Doubled(s, l) == IF Len(s) <= l \div 2 THEN Doubled(s \o s, l) ELSE s
RECURSIVE InBlocks(_, _, _)
InBlocks(r, s, n) == IF Len(r) + Len(s) <= n THEN InBlocks(r \o s, s, n)
                     ELSE r \o SubSeq(s, 1, n - Len(r))

Cycled(nia, x) ==
  LET s == IF x.el = ElB THEN x.ra ELSE Doubled(x.ra, MinOf(Block, nia))
  IN IF x.el # ElB /\ nia >= UszMax THEN Err ELSE Arr(x.el, <<nia>>, InBlocks(s, s, nia), x.fill)

reshape_cycle(nia, x) ==
  IF Ia(x) = 0 THEN Err
  ELSE IF Ia(x) = 1 THEN reshape_one(nia, x.ra[1])
  ELSE Cycled(nia, IF Ia(x) <= nia \div 2 THEN squeeze_any(x) ELSE x)

reshape_unshaped(n, x) ==
  IF x.at THEN reshape_one(n, x.ra[1])
  ELSE IF n <= Ia(x) THEN take_head(n, x) ELSE reshape_cycle(n, x)

shape_c2_01(w, x, ru) ==
  IF w.ra = <<>>
  THEN IF x.at THEN m_unit(x) ELSE IF Ia(x) = 0 THEN Err ELSE Reshaped(take_head(1, x), <<>>)
  ELSE IF w.ra[1] \in 0..UszMax /\ ~w.at THEN reshape_unshaped(w.ra[1], x)
  ELSE IF Computed(w.ra[1]) THEN shape_c1(x, ru) ELSE Err

\* The axis `unk` of sh is computed: id says how, nia0 is the product of the others.
ComputedAxis(sh, unk, id, nia0, x) ==
  LET item == Ia(x) \div nia0 + (IF id \in {AxReverse, AxTake} /\ Ia(x) % nia0 # 0 THEN 1 ELSE 0)
      nia == nia0 * item
  IN IF nia0 = 0 THEN Err
     ELSE IF id = AxAtop /\ Ia(x) % nia0 # 0 THEN Err
     ELSE IF nia > UszMax THEN Err
     ELSE ShapedAs(IF id = AxTake THEN TakenTo(nia, m_unit(x)) ELSE reshape_unshaped(nia, x),
                     [sh EXCEPT ![unk] = item])

\* A fixed part too large to multiply counts as larger than x when that decides the axis.
ShapeList(sh, fixed, unks, over, x) ==
  LET nia0 == IF over THEN UszMax ELSE Prod(fixed)
      unk == CHOOSE i \in unks : TRUE
  IN IF \E i \in DOMAIN fixed : fixed[i] \notin 0..UszMax THEN Err
     ELSE IF Cardinality(unks) > 1 THEN Err
     ELSE IF unks = {} THEN (IF over THEN Err ELSE ShapedAs(reshape_unshaped(nia0, x), sh))
     ELSE IF over /\ sh[unk] # AxFloor /\ (x.at \/ Ia(x) # 0) THEN Err
     ELSE ComputedAxis(sh, unk, sh[unk], nia0, x)

shape_c2_listw(w, x, ru) ==
  LET fixed == SelectSeq(w.ra, LAMBDA c : ~Computed(c))
      good == \E i \in DOMAIN fixed : fixed[i] = 0
  IN IF ~w.at /\ Rnk(w) > 1 THEN Err
     ELSE IF w.at \/ Ia(w) <= 1 THEN shape_c2_01(w, x, ru)
     ELSE IF Ia(w) > UrMax THEN Err
     ELSE ShapeList(w.ra, fixed, {i \in DOMAIN w.ra : Computed(w.ra[i])}, ~good /\ Prod(fixed) > UszMax, x)

shape_c2(w, x, ru) ==
  IF w.at /\ w.ra[1] \in 0..UszMax THEN reshape_unshaped(w.ra[1], x) ELSE shape_c2_listw(w, x, ru)

-----------------------------------------------------------------------------
\* Pick

Wrap(i, n) == IF i < 0 THEN i + n ELSE i
InRange(i, n) == Wrap(i, n) \in 0..n - 1

\* PICK_IDX: the position of the index w in an array of shape sh.
PickIdx(w, sh) == FoldLeft(LAMBDA c, i : c * sh[i] + Wrap(w[i], sh[i]), 0, [i \in DOMAIN sh |-> i])

pick_c1(x) == IF x.at THEN x ELSE IF Ia(x) = 0 THEN Err ELSE Atom(x.ra[1])

\* A leaf of w: one index for every axis of x.
recPick(w, x) ==
  IF w.ra = <<>> /\ w.el \in {ElC8, ElB} THEN (IF Rnk(x) # 0 THEN Err ELSE Atom(x.ra[1]))
  ELSE IF \E i \in DOMAIN w.ra : w.ra[i] >= Chr THEN Err
  ELSE IF Rnk(w) # 1 \/ Ia(w) # Rnk(x) THEN Err
  ELSE IF \E i \in DOMAIN w.ra : ~InRange(w.ra[i], x.sh[i]) THEN Err
  ELSE Atom(x.ra[PickIdx(w.ra, x.sh) + 1])

pick_c2(w, x0) ==
  IF x0.at /\ ~w.at /\ w.sh = <<0>> THEN x0
  ELSE LET x == m_unit(x0)
       IN IF w.at THEN IF w.ra[1] >= Chr \/ Rnk(x) # 1 THEN Err
                       ELSE IF InRange(w.ra[1], Ia(x)) THEN Atom(x.ra[Wrap(w.ra[1], Ia(x)) + 1]) ELSE Err
          ELSE recPick(w, x)

-----------------------------------------------------------------------------
\* Take and drop

\* Along the first axis, by n0 cells: n elements.
CellLen(x) == IF Rnk(x) > 1 THEN Csz(x) ELSE 1
TakenCells(r, x, lead) ==
  IF IsErr(r) THEN Err
  ELSE FlSet(Reshaped(r, IF Rnk(x) <= 1 THEN <<Ia(r)>> ELSE <<lead>> \o Tail(x.sh)), x.fl \cap {Asc, Dsc})

take_last(n, x) ==
  IF n <= Ia(x) THEN [FlKeep(x, {}) EXCEPT !.sh = <<n>>, !.ra = SubSeq(@, Ia(x) - n + 1, Ia(x))]
  ELSE IF x.fill = NoFill THEN Err
  ELSE mut_f(mut_copyG(mut_fillG(MutInit(n, x.el), 0, x.fill, n - Ia(x)), n - Ia(x), x, 0, Ia(x)), <<n>>, x.fill)
TakeElems(n, x) == IF AbsOf(n) > UszMax THEN Err ELSE IF n >= 0 THEN take_impl(n, x) ELSE take_last(-n, x)
take_c2(n0, x) == TakenCells(TakeElems(n0 * CellLen(m_unit(x)), m_unit(x)), m_unit(x), AbsOf(n0))

DropElems(n, x) ==
  IF AbsOf(n) > I64Max THEN Err
  ELSE IF AbsOf(n) >= Ia(x) THEN emptyArr(x, <<0>>)
  ELSE IF n < 0 THEN take_head(Ia(x) + n, x)
  ELSE [FlKeep(x, {}) EXCEPT !.sh = <<Ia(x) - n>>, !.ra = SubSeq(@, n + 1, Ia(x))]
drop_c2(n0, x) ==
  TakenCells(DropElems(n0 * CellLen(m_unit(x)), m_unit(x)), m_unit(x), IF Rnk(x) = 0 THEN 0 ELSE MaxOf(x.sh[1] - AbsOf(n0), 0))

\* The cells that stay whole start after axis `start`; the code walks x and the
\* result together with one counter per axis before it.  One axis, from the last:
\* its length in x and in the result.
TakeDropAxis(p, i, x, r, front) ==
  LET diff == x - r  pad == diff < 0  off == IF front THEN 0 ELSE diff
  IN [p EXCEPT !.xi = @ + (IF off > 0 THEN off * p.xcs ELSE 0),
               !.ri = @ - (IF off < 0 THEN off * p.rcs ELSE 0),
               !.rcv[i] = p.rs, !.xcv[i] = p.xs,
               !.ltv[i] = IF pad THEN x ELSE r,
               !.rs = @ - (IF pad THEN p.rcs * diff ELSE 0),
               !.xs = @ + (IF pad THEN 0 ELSE p.xcs * diff),
               !.rcs = @ * r, !.xcs = @ * x]
WrittenWhole(q, cw) ==
  [q EXCEPT !.xSkip = q.xcs, !.rSkip = q.rcs, !.write = cw, !.xs = @ + cw, !.rs = @ + cw]

TakeDropPlan(take, w, xsh, rsh, start) ==
  LET rr == Len(rsh)
      zero == [i \in 1..rr |-> 0]
      step(p, i) ==
        LET q == TakeDropAxis(p, i, xsh[i], rsh[i], take # (i <= Len(w) /\ w[i] < 0))
        IN IF i # start THEN q ELSE WrittenWhole(q, p.rcs * MinOf(xsh[i], rsh[i]))
  IN FoldLeft(step, [xcs |-> 1, rcs |-> 1, xs |-> 0, rs |-> 0, ri |-> 0, xi |-> 0, rcv |-> zero,
                     xcv |-> zero, ltv |-> zero, xSkip |-> 0, rSkip |-> 0, write |-> 0, last |-> start - 1],
              [k \in 1..rr |-> rr + 1 - k])

\* One counter step: the axis that does not wrap, 0 when the copy is done.
RECURSIVE Carry(_, _, _)
Carry(lcv, ltv, c) == IF lcv[c] > 1 THEN [c |-> c, lcv |-> [lcv EXCEPT ![c] = @ - 1]]
                      ELSE IF c = 1 THEN [c |-> 0, lcv |-> lcv]
                      ELSE Carry([lcv EXCEPT ![c] = ltv[c]], ltv, c - 1)

\* With fills, what lies between two copies is filled when the second is reached,
\* and what is left after the last one at the end; `pri` is the end of the last copy.
FillGap(m, x, fills, from, to) == IF fills THEN mut_fillG(m, from, x.fill, to - from) ELSE m

RECURSIVE CopyCells(_, _, _, _, _, _, _)
CopyCells(m, x, p, fills, pri, at, lcv) ==
  LET cell == mut_copyG(FillGap(m, x, fills, pri, at.ri), at.ri, x, at.xi, p.write)
      end == at.ri + p.write
      s == Carry(lcv, p.ltv, p.last)
      skip == IF s.c = p.last THEN [ri |-> at.ri + p.rSkip, xi |-> at.xi + p.xSkip]
              ELSE [ri |-> at.ri + p.rcv[s.c], xi |-> at.xi + p.xcv[s.c]]
  IN IF s.c = 0 THEN FillGap(cell, x, fills, end, Len(m.a)) ELSE CopyCells(cell, x, p, fills, end, skip, s.lcv)

\* p.last is the last axis walked by the counters, the one before `start`.
TakeDropCopy(x, ria, fills, p) ==
  LET m == MutInit(ria, x.el)
  IN IF Ia(x) = 0 THEN mut_fillG(m, 0, x.fill, ria) ELSE CopyCells(m, x, p, fills, 0, [ri |-> p.ri, xi |-> p.xi], p.ltv)

\* Along the axes of the result, by the amounts wv; `start` is the last that changes.
TakeDropAxes(take, wv, x, xsh, rsh, start) ==
  LET lead == Reshaped(IF Rnk(x) = Len(xsh) THEN x ELSE customizeShape(x, FALSE), xsh)
      fills == \E i \in DOMAIN rsh : rsh[i] > xsh[i]
  IN IF Prod(rsh) > UszMax THEN Err
     ELSE IF start = 0 THEN lead
     ELSE IF start = 1 THEN (IF take THEN take_c2(wv[1], lead) ELSE drop_c2(wv[1], lead))
     ELSE IF Prod(rsh) = 0 THEN emptyArr(x, rsh)
     ELSE IF fills /\ x.fill = NoFill THEN Err
     ELSE withFill(mut_f(TakeDropCopy(x, Prod(rsh), fills, TakeDropPlan(take, wv, xsh, rsh, start)), rsh, NoFill),
                   x.fill)

LeftAlone(take, xsh, i) == IF take THEN xsh[i] ELSE 0
TakeDropShape(take, wv, xsh) == [i \in DOMAIN wv |-> IF take THEN AbsOf(wv[i]) ELSE MaxOf(xsh[i] - AbsOf(wv[i]), 0)]
LastChanged(rsh, xsh) == FoldLeft(LAMBDA c, i : IF rsh[i] # xsh[i] THEN i ELSE c, 0, [i \in DOMAIN rsh |-> i])

takedrop_highrank(take, w, x0) ==
  LET x == m_unit(x0)  wia == Ia(w)
      xsh == Rep(MaxOf(wia - Rnk(x), 0), 1) \o x.sh \* with leading axes of length 1
      wv == [i \in DOMAIN xsh |-> IF i <= wia THEN w.ra[i] ELSE LeftAlone(take, xsh, i)]
      rsh == TakeDropShape(take, wv, xsh)
  IN IF w.at \/ Rnk(w) > 1 \/ wia >= UrMax THEN Err
     ELSE IF wia = 0 THEN x
     ELSE IF \E i \in 1..wia : w.ra[i] >= Chr THEN Err
     ELSE IF wia = 1 THEN (IF take THEN take_c2(w.ra[1], x) ELSE drop_c2(w.ra[1], x))
     ELSE TakeDropAxes(take, wv, x, xsh, rsh, LastChanged(rsh, xsh))
=============================================================================
