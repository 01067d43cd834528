------------------------------ MODULE Searches ------------------------------
(***************************************************************************)
(* Index of, Member of and Progressive index of: builtins/search.c.  The   *)
(* method is a matter of lengths; here it is the argument `how`.  Hash     *)
(* tables are in module HashMap: what is asked of one here is the index    *)
(* stored first for equal keys.                                            *)
(***************************************************************************)
EXTENDS Arith

CONSTANT Pack \* bits of a cell that is searched for as one number

ASSUME SearchesAssumption == Pack \in Nat

\* Keys: a list of values that are compared for equality only.
KeyArr(el, sh, s) == [at |-> FALSE, el |-> el, sh |-> sh, ra |-> s, fill |-> 0, fl |-> {}]
FirstAt(s, v) == IF \E i \in DOMAIN s : s[i] = v THEN (CHOOSE i \in DOMAIN s : s[i] = v /\ \A j \in 1..(i - 1) : s[j] # v) - 1
                 ELSE Len(s)
WidthOf(el) == IF el = ElBit THEN 1 ELSE IF el = ElInt THEN 4 ELSE 2

\* Cells without their element type: what two equal cells share is the number of the
\* first of them, in the place of the bits they are packed into.
CellKeys(cells) == LET c == [i \in DOMAIN cells |-> [sh |-> cells[i].sh, ra |-> cells[i].ra]]
                   IN [i \in DOMAIN c |-> FirstAt(c, c[i])]

\* n split into cells of the rank of p's.  Typed cells of one kind and few bits become
\* numbers, others stay cells.
splitCells(n, p) ==
  LET pcr == Rnk(p) - 1
      nco == Rnk(n) - pcr
      ks == CellKeys(CellsOf(p) \o KCells(n, nco))
      np == p.sh[1]
      meb == MaxOf(WidthOf(n.el), WidthOf(p.el))
      packed == /\ nco > 0 /\ EndsWith(n.sh, nco) = Tail(p.sh)
                /\ n.el < ElB /\ p.el < ElB /\ ElNum(n.el) = ElNum(p.el)
                /\ Csz(p) * meb \in 1..Pack
      el == IF packed THEN ElInt ELSE ElB
  IN IF p.at \/ Rnk(p) = 0 \/ nco < 0 THEN Err
     ELSE [p |-> KeyArr(el, <<np>>, SubSeq(ks, 1, np)), n |-> KeyArr(el, SubSeq(n.sh, 1, nco), SubSeq(ks, np + 1, Len(ks)))]

indexOfOne(l, e) == IF l.el # ElB /\ ElOr(l.el, SelfElType(e)) # l.el THEN Ia(l) ELSE FirstAt(l.ra, e)

\* Characters are never among numbers; a mixed array has no fast method.
Kinds(w, x) == IF w.el = ElB \/ x.el = ElB THEN "mixed"
               ELSE IF ElNum(w.el) # ElNum(x.el) THEN "none" ELSE "typed"
Narrow(y) == y.el # ElB \* 16 bits at most: characters are handled as integers of their width

reduceI32Width(sh, s, count) == LET el == IF count <= I8Max THEN ElI8 ELSE ElInt IN Arr(el, sh, FitAll(el, s), 0)

-----------------------------------------------------------------------------
\* A table over the values that an argument may hold, filled from its last element to
\* its first.  Only what can be looked up in it is initialized: the range of the type
\* of what is looked up, or, of few elements of a wide type, the elements themselves;
\* nothing when both arguments are one array.
TypeRange(el) == CASE el = ElBit -> {0, 1} [] el = ElI8 -> -(I8Max + 1)..I8Max
LookedUpOnly(fors) == fors.el = ElInt /\ Ia(fors) < (2 * (I8Max + 1))^2 \div 64
InitializedFor(fors) ==
  IF LookedUpOnly(fors) THEN {fors.ra[i] : i \in DOMAIN fors.ra}
  ELSE IF fors.el \in {ElBit, ElI8} THEN TypeRange(fors.el) ELSE TypeRange(ElI8) \cup {fors.ra[i] : i \in DOMAIN fors.ra}
RangeWritten(ins, fors) == InitializedFor(ins) \* mutant: of the argument that fills the table
Initialized(ins, fors) == InitializedFor(fors)
TableOf(ins, fors, same, init, one) ==
  LET known == IF same THEN {} ELSE Initialized(ins, fors)
      vs == {ins.ra[i] : i \in DOMAIN ins.ra} \cup {fors.ra[i] : i \in DOMAIN fors.ra} \cup {0, 1}
      blank == [v \in vs |-> IF v \in known THEN init ELSE Clobbered]
  IN FoldLeft(LAMBDA t, i : [t EXCEPT ![ins.ra[i]] = IF one THEN 1 ELSE i - 1], blank, [k \in DOMAIN ins.ra |-> Ia(ins) + 1 - k])
LookUp(t, el, y) == IF y.el = ElBit THEN bit_sel(y, t[0], t[1])
                    ELSE Arr(el, y.sh, FitAll(el, [i \in DOMAIN y.ra |-> t[y.ra[i]]]), 0)

-----------------------------------------------------------------------------
\* Index of.  Of bits there are two answers; a short w is compared element by element,
\* the last one first.
LessOther(r, w, x, i) ==
  IF i = Ia(w) THEN r ELSE C2("sub", r, C2("mul", Atom(Ia(w) - i), C2("eq", Atom(1 - w.ra[1]), x)))
IndexInBits(w, x) ==
  LessOther(C2("mul", Atom(Ia(w)), C2("ne", Atom(w.ra[1]), x)), w, x, FirstAt(w.ra, 1 - w.ra[1]))
RECURSIVE IndexInFew(_, _)
IndexInFew(s, x) ==
  IF Len(s) = 1 THEN C2("ne", Atom(s[1]), x)
  ELSE C2("mul", C2("ne", Atom(s[1]), x), C2("add", Atom(1), IndexInFew(Tail(s), x)))

IndexOfKeys(w, x, how, same) ==
  LET wia == Ia(w)
      each == reduceI32Width(x.sh, [i \in DOMAIN x.ra |-> indexOfOne(w, x.ra[i])], wia)
      el == IF wia <= I8Max THEN ElI8 ELSE ElInt
  IN IF Rnk(x) = 0 THEN [m_vec1(indexOfOne(w, x.ra[1])) EXCEPT !.sh = <<>>]
     ELSE IF wia = 0 \/ Ia(x) = 0 \/ Kinds(w, x) = "none" THEN AllOf(wia, x.sh)
     ELSE IF Kinds(w, x) = "typed" /\ how = "each" THEN each
     ELSE IF w.el = ElBit /\ Kinds(w, x) = "typed" THEN IndexInBits(w, x)
     ELSE IF how = "few" /\ Kinds(w, x) = "typed" THEN IndexInFew(w.ra, x)
     ELSE IF how = "table" /\ Narrow(w) /\ Narrow(x) THEN LookUp(TableOf(w, x, same, wia, FALSE), el, x)
     ELSE reduceI32Width(x.sh, [i \in DOMAIN x.ra |-> FirstAt(w.ra, x.ra[i])], wia)

\* p is searched for what is in n.
KeysFor(n, p) == IF p.at \/ Rnk(p) # 1 THEN splitCells(m_unit(n), p) ELSE [p |-> p, n |-> m_unit(n)]
IndexIn(t, how, same) == IF IsErr(t) THEN Err ELSE IndexOfKeys(t.p, t.n, how, same)
indexOf_c2(w, x, how, same) == IndexIn(KeysFor(x, w), how, same)

-----------------------------------------------------------------------------
\* Member of
RECURSIVE MemberOfFew(_, _)
MemberOfFew(w, s) ==
  IF Len(s) = 1 THEN C2("eq", w, Atom(s[1])) ELSE C2("or", MemberOfFew(w, Front(s)), C2("eq", w, Atom(Last(s))))
MemberOfKeys(w, x, how, same) ==
  LET xia == Ia(x)
      bits(s) == Arr(ElBit, w.sh, s, 0)
      in(v) == IF FirstAt(x.ra, v) < xia THEN 1 ELSE 0
      x0 == x.ra[1]
      table == LookUp(TableOf(x, w, same, 0, TRUE), ElI8, w)
  IN IF Rnk(w) = 0 THEN bits(<<IF indexOfOne(x, w.ra[1]) = xia THEN 0 ELSE 1>>)
     ELSE IF Ia(w) = 0 \/ xia = 0 \/ Kinds(w, x) = "none" THEN AllOf(0, w.sh)
     ELSE IF Kinds(w, x) = "typed" /\ how = "each"
     THEN bits([i \in DOMAIN w.ra |-> IF indexOfOne(x, w.ra[i]) < xia THEN 1 ELSE 0])
     ELSE IF x.el = ElBit /\ Kinds(w, x) = "typed"
     THEN MemberOfFew(w, IF FirstAt(x.ra, 1 - x0) < xia THEN <<x0, 1 - x0>> ELSE <<x0>>)
     ELSE IF how = "few" /\ Kinds(w, x) = "typed"
     THEN MemberOfFew(w, x.ra)
     ELSE IF how = "table" /\ Narrow(w) /\ Narrow(x) THEN bits(table.ra) \* cpyBitArr
     ELSE bits([i \in DOMAIN w.ra |-> in(w.ra[i])])

MemberIn(t, how, same) == IF IsErr(t) THEN Err ELSE MemberOfKeys(t.n, t.p, how, same)
memberOf_c2(w, x, how, same) == MemberIn(KeysFor(w, x), how, same)

-----------------------------------------------------------------------------
\* Progressive index of: wnext links each element of w to the next equal one, and a
\* lookup takes the head of its chain.
Chains(w, x) ==
  LET vs == {w.ra[i] : i \in DOMAIN w.ra} \cup {x.ra[i] : i \in DOMAIN x.ra}
      wia == Ia(w)
      set(st, k) == LET v == w.ra[k] IN [next |-> [st.next EXCEPT ![k - 1] = st.tab[v]], tab |-> [st.tab EXCEPT ![v] = k - 1]]
  IN FoldLeft(set, [next |-> [i \in 0..wia |-> wia], tab |-> [v \in vs |-> wia]], [k \in 1..wia |-> wia + 1 - k])
TakeHeads(w, x) ==
  LET c == Chains(w, x)
      get(st, v) == [r |-> Append(st.r, st.tab[v]), tab |-> [st.tab EXCEPT ![v] = c.next[@]]]
  IN FoldLeft(get, [r |-> <<>>, tab |-> c.tab], x.ra).r

CountOfKeys(w, x, how, same) ==
  IF Ia(x) <= 1 \/ Ia(w) = 0 THEN IndexOfKeys(w, x, how, same)
  ELSE IF Kinds(w, x) = "none" THEN AllOf(Ia(w), x.sh)
  ELSE reduceI32Width(x.sh, TakeHeads(w, x), Ia(w))
CountIn(t, how, same) == IF IsErr(t) THEN Err ELSE CountOfKeys(t.p, t.n, how, same)
count_c2(w, x, how, same) == CountIn(KeysFor(x, w), how, same)
=============================================================================
