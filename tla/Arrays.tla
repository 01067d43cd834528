------------------------------ MODULE Arrays ------------------------------
(***************************************************************************)
(* The arrays the primitives work on: core/stuff.c, core/fillarr.c,        *)
(* builtins/squeeze.c and the builders of utils/mut.c and utils/mut.h.     *)
(*                                                                         *)
(* An array is a record of its element type, shape, elements in row-major  *)
(* order, fill and flags; an atom is a record of the same form with `at`   *)
(* set.  An element is an integer: a number, or from Chr up a character.   *)
(* Five element types stand for the code's nine: bits, i8 (-I8Max-1 ..     *)
(* I8Max), the wider integers, characters, and el_B, which holds anything. *)
(* Elements that are arrays appear only where a primitive takes or returns *)
(* a list of arrays, as a sequence.  Sharing (refc) is an argument `ru` of *)
(* the operators whose code asks for it; memory layout is left out.        *)
(***************************************************************************)
EXTENDS Integers, Sequences, FiniteSets, SequencesExt

CONSTANTS I8Max,   \* the largest number an i8 element holds
          UszMax,  \* the largest length (USZ_MAX)
          UrMax    \* the largest rank (UR_MAX)

ASSUME ArraysAssumption == /\ I8Max \in Nat \ {0, 1}
                           /\ UszMax \in Nat \ {0}
                           /\ UrMax \in Nat \ {0}

Chr == 1000           \* the space character; every larger element is a character too
NoFill == -1000       \* bi_noFill
Clobbered == -999     \* what is read back of an element stored in a type it does not fit
Err == [err |-> TRUE] \* an error was thrown

ElBit == 0  ElI8 == 1  ElInt == 2  ElC8 == 3  ElB == 4
Squoze == "squoze"  Asc == "asc"  Dsc == "dsc"

IsErr(x) == "err" \in DOMAIN x
ElNum(el) == el <= ElInt
MaxOf(a, b) == IF a >= b THEN a ELSE b
MinOf(a, b) == IF a <= b THEN a ELSE b
AbsOf(a) == IF a < 0 THEN -a ELSE a

SelfElType(v) == IF v >= Chr THEN ElC8
                 ELSE IF v \in 0..1 THEN ElBit
                 ELSE IF v \in -(I8Max + 1)..I8Max THEN ElI8 ELSE ElInt

ElOr(a, b) == IF a = b THEN a
              ELSE IF ElNum(a) /\ ElNum(b) THEN MaxOf(a, b) ELSE ElB

\* Storing v in an element of type el.
Fit(el, v) == IF ElOr(el, SelfElType(v)) = el THEN v ELSE Clobbered
FitAll(el, s) == [i \in DOMAIN s |-> Fit(el, s[i])]

ElemFill(v) == IF v >= Chr THEN Chr ELSE 0

\* Typed arrays have the fill of their type; only el_B arrays store one.
TypedFill(el, fill) == IF ElNum(el) THEN 0 ELSE IF el = ElC8 THEN Chr ELSE fill

Prod(sh) == LET p[i \in 0..Len(sh)] == IF i = 0 THEN 1 ELSE p[i - 1] * sh[i] IN p[Len(sh)]
Arr(el, sh, ra, fill) == [at |-> FALSE, el |-> el, sh |-> sh, ra |-> ra,
                          fill |-> TypedFill(el, fill), fl |-> {}]
Atom(v) == [Arr(SelfElType(v), <<>>, <<v>>, ElemFill(v)) EXCEPT !.at = TRUE]

Ia(x) == Len(x.ra)
Rnk(x) == Len(x.sh)
Csz(x) == Prod(Tail(x.sh))
FlSet(x, fl) == [x EXCEPT !.fl = @ \cup fl]
KeepsAll(x, fl) == x \* mutant: flags survive changes
FlKeep(x, fl) == [x EXCEPT !.fl = @ \cap fl]
Reshaped(x, sh) == [x EXCEPT !.sh = sh]
Rep(n, v) == [i \in 1..n |-> v]

m_unit(x) == IF x.at THEN [x EXCEPT !.at = FALSE] ELSE x
m_vec1(v) == [Atom(v) EXCEPT !.at = FALSE, !.sh = <<1>>]

-----------------------------------------------------------------------------
\* Fills

fill_both(w, x) == IF w.fill = x.fill THEN w.fill ELSE NoFill
TypeOfFill(f) == IF f = 0 THEN ElBit ELSE IF f = Chr THEN ElC8 ELSE ElB
emptyArr(x, sh) == Arr(TypeOfFill(x.fill), sh, <<>>, x.fill)

\* cpyXArr: the same elements as another type, in a new array without flags.
Retype(x, el) == Arr(el, x.sh, FitAll(el, x.ra), x.fill)

-----------------------------------------------------------------------------
\* Squeezing to the smallest element type

ElOrAll(els) == IF \A a, b \in els : ElNum(a) = ElNum(b) THEN CHOOSE a \in els : \A b \in els : b <= a ELSE ElB
SmallestEl(s) == ElOrAll({SelfElType(s[i]) : i \in DOMAIN s})

\* mostBit .. r_f64, squeezed: the type the whole data needs, and the flag.
SqueezeTo(x, el) == FlSet(IF el = x.el THEN x ELSE Retype(x, el), {Squoze})
SqueezeTyped(x, el, num) == IF IF num THEN ElNum(el) ELSE el = ElC8 THEN SqueezeTo(x, el) ELSE x

int_squeeze_sorted(x) ==
  IF Ia(x) = 0 \/ x.el = ElBit THEN FlSet(x, {Squoze})
  ELSE FlSet(SqueezeTo(x, SmallestEl(<<x.ra[1], x.ra[Ia(x)]>>)), x.fl)

squeeze_any(x) ==
  IF Squoze \in x.fl THEN x
  ELSE IF x.fl # {} /\ ElNum(x.el) THEN int_squeeze_sorted(x)
  ELSE IF Ia(x) = 0 THEN FlSet(x, {Squoze})
  ELSE IF x.el = ElC8 THEN FlSet(x, {Squoze})
  ELSE SqueezeTo(x, SmallestEl(x.ra))

\* squeeze_numTry and squeeze_chrTry: mixed data is returned as it is, without the flag.
squeeze_try(x, num) ==
  IF ~num /\ Squoze \in x.fl THEN x
  ELSE IF Ia(x) = 0 THEN Arr(IF num THEN ElBit ELSE ElC8, x.sh, <<>>, NoFill)
  ELSE IF num /\ Squoze \in x.fl THEN x
  ELSE IF num /\ x.fl # {} /\ ElNum(x.el) THEN int_squeeze_sorted(x)
  ELSE IF num /\ x.el = ElC8 THEN FlSet(x, {Squoze})
  ELSE IF ~num /\ ElNum(x.el) THEN (IF x.el = ElBit THEN FlSet(x, {Squoze}) ELSE x)
  ELSE SqueezeTyped(x, SmallestEl(x.ra), num)

TypedOr(y, x, fill) == IF y.el # ElB /\ y.fill = fill THEN y ELSE Arr(ElB, x.sh, x.ra, fill)
withFill(x, fill) ==
  IF x.fill = fill THEN x
  ELSE TypedOr(IF Squoze \in x.fl \/ fill = NoFill THEN x ELSE squeeze_try(x, fill = 0), x, fill)

qWithFill(x, fill) == IF fill = NoFill \/ x.el # ElB THEN x ELSE withFill(x, fill)

-----------------------------------------------------------------------------
\* Building arrays: a Mut is an element type and uninitialized storage

MutInit(ia, el) == [el |-> el, a |-> Rep(ia, Clobbered)]

\* The G operations store without asking whether the element fits.
Overwrite(a, ms, s) == [i \in DOMAIN a |-> IF i \in ms + 1..ms + Len(s) THEN s[i - ms] ELSE a[i]]
mut_copyG(m, ms, x, xs, l) == [m EXCEPT !.a = Overwrite(@, ms, FitAll(m.el, SubSeq(x.ra, xs + 1, xs + l)))]
mut_fillG(m, ms, v, l) == [m EXCEPT !.a = Overwrite(@, ms, Rep(l, Fit(m.el, v)))]
mut_setG(m, ms, v) == mut_fillG(m, ms, v, 1)

\* The checked operations first convert what is there to a type both fit.
mut_to(m, el) == [el |-> el, a |-> [i \in DOMAIN m.a |->
                   IF m.a[i] = Clobbered THEN Clobbered ELSE Fit(el, m.a[i])]]
mut_copy(m, ms, x, xs, l) == mut_copyG(mut_to(m, ElOr(m.el, x.el)), ms, x, xs, l)
mut_set(m, ms, v) == mut_setG(mut_to(m, ElOr(m.el, SelfElType(v))), ms, v)

mut_f(m, sh, fill) == Arr(m.el, sh, m.a, fill)

\* A new array of x's type, or x itself cleared of its flags when `ru`.
m_directarrAs(x, s) == Arr(x.el, x.sh, FitAll(x.el, s), x.fill)
ReusedShared(x, el, ru) == el = x.el \* mutant: whoever else holds x
Reusable(x, el, ru) == ru /\ el = x.el
toEltypeArr(x, el, ru) == IF Reusable(x, el, ru) THEN FlKeep(x, {}) ELSE Retype(x, el)

\* What a call gives that modifies x, and what is in x's storage when it ends: s when
\* x itself was written to, also when the call then failed.
Modified(x, el, ru, s, ok) ==
  [res |-> IF ok THEN [toEltypeArr(x, el, ru) EXCEPT !.ra = s] ELSE Err,
   left |-> IF Reusable(x, el, ru) THEN [x EXCEPT !.ra = s] ELSE x]
Unmodified(x, r) == [res |-> r, left |-> x]

vec_add(w, x, ru) ==
  LET v == x.ra[1]
  IN IF ru /\ ElOr(w.el, SelfElType(v)) = w.el /\ (w.el = ElB => w.fill = NoFill)
     THEN [FlKeep(w, {Squoze}) EXCEPT !.sh = <<Ia(w) + 1>>, !.ra = Append(@, v)]
     ELSE LET el == ElOr(w.el, SelfElType(v))
          IN mut_f(mut_setG(mut_copyG(MutInit(Ia(w) + 1, el), 0, w, 0, Ia(w)), Ia(w), v),
                   <<Ia(w) + 1>>, NoFill)

JoinUntyped(w, x, ru) == \* mutant: in place whatever x holds
  [FlKeep(w, {Squoze}) EXCEPT !.sh = <<Ia(w) + Ia(x)>>, !.ra = @ \o FitAll(w.el, x.ra), !.fill = TypedFill(w.el, NoFill)]

\* w's own storage when it is unshared and has the type and the room, else a new array.
arr_join_inline(w, x, ru) ==
  LET wia == Ia(w)  ria == wia + Ia(x)
  IN IF ru /\ (ElOr(w.el, x.el) = w.el)
     THEN [FlKeep(w, {Squoze}) EXCEPT !.sh = <<ria>>, !.ra = @ \o x.ra,
                                      !.fill = TypedFill(w.el, NoFill)]
     ELSE mut_f(mut_copyG(mut_copyG(MutInit(ria, ElOr(w.el, x.el)), 0, w, 0, wia), wia, x, 0, Ia(x)),
                <<ria>>, NoFill)

-----------------------------------------------------------------------------
\* Appending a list of values: the total, and one with equal shapes

AllFills(items) == IF \A i \in DOMAIN items : items[i].fill = items[1].fill THEN items[1].fill ELSE NoFill
AllEl(items) == FoldLeft(LAMBDA e, y : IF Ia(y) = 0 THEN e ELSE ElOr(e, y.el), items[1].el, items)
AllElems(items) == FoldLeft(LAMBDA s, y : s \o y.ra, <<>>, items)

ArrFit(el, sh, s, fill) == Arr(el, sh, FitAll(el, s), fill)

apd_tot(items) == ArrFit(AllEl(items), <<Len(AllElems(items))>>, AllElems(items), NoFill)

apd_sh(rsh, items) ==
  LET x == items[1]  empty == Ia(x) = 0
  IN IF Rnk(x) > 0 /\ Len(rsh) + Rnk(x) > UrMax THEN Err
     ELSE IF \E i \in DOMAIN items : items[i].sh # x.sh THEN Err
     ELSE IF Prod(rsh) * Ia(x) > UszMax THEN Err
     ELSE ArrFit(IF empty THEN x.el ELSE AllEl(items), rsh \o x.sh, AllElems(items),
                 IF empty THEN x.fill ELSE AllFills(items))

\* A single append keeps the array and puts leading 1s before its shape.
apd_reshape(rsh, x) ==
  IF Len(rsh) > 0 /\ Len(rsh) + Rnk(x) > UrMax THEN Err
  ELSE [FlKeep(m_unit(x), {Squoze}) EXCEPT !.sh = rsh \o @]

\* bqn_merge of a non-empty array of arrays, with shape rsh
bqn_merge(rsh, items) == IF Len(items) = 1 THEN apd_reshape(rsh, items[1]) ELSE apd_sh(rsh, items)

-----------------------------------------------------------------------------
(***************************************************************************)
(* The functions a program calls under a primitive, by name: they keep the *)
(* shape, widen the type, change it, return another length, or fail.       *)
(***************************************************************************)

Swapped(x) == [FlKeep(x, {}) EXCEPT !.ra = Reverse(@)]
Bigger(x) == Retype([x EXCEPT !.el = ElB, !.ra = [k \in DOMAIN @ |-> I8Max + 1]], ElInt)
Letters(x) == Retype([x EXCEPT !.el = ElB, !.ra = [k \in DOMAIN @ |-> Chr + 1]], ElC8)
Longer(x) == IF Ia(x) = 0 THEN x ELSE [FlKeep(m_unit(x), {}) EXCEPT !.sh = <<Ia(x) + 1>>, !.ra = Append(@, @[1])]
Throws(x) == Err
UnderNames == {"swap", "big", "letters", "longer", "throw"}
Apply(f, x) == CASE f = "swap" -> Swapped(x) [] f = "big" -> Bigger(x) [] f = "letters" -> Letters(x)
                 [] f = "longer" -> Longer(x) [] f = "throw" -> Throws(x)
=============================================================================
