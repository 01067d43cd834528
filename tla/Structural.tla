---------------------------- MODULE Structural ----------------------------
(***************************************************************************)
(* A program that calls the structural primitives, their repeated and      *)
(* inverse forms, and functions under them.                                *)
(***************************************************************************)
EXTENDS Joins, Promises, Programs

CONSTANTS Parts,         \* the items of the arrays that are joined
          Numbs,         \* whole numbers a left argument may be
          Vectors,       \* lists a left argument may be
          Axes,          \* lists a left argument of a reshape may be
          OvertakeSorted,\* whether a flagged array may be taken from with fills
          SlowBackwards  \* whether a negative rotation may take the branch that multiplies each amount

ASSUME StructuralAssumption == /\ OvertakeSorted \in BOOLEAN /\ SlowBackwards \in BOOLEAN
                               /\ Numbs \subseteq Int

Num(v) == Atom(v)

IsArr == ~arr.at
Flagged == arr.fl \cap {Asc, Dsc} # {}
Overtakes(w) == \E i \in DOMAIN w.ra : AbsOf(w.ra[i]) > Padded(arr, Len(w.ra))[i]

Take == \E n \in Numbs : /\ OvertakeSorted \/ ~(Flagged /\ Overtakes(Num(n)))
                         /\ Call("take", Num(n), take_c2(n, arr))
TakeList == \E w \in Vectors : /\ OvertakeSorted \/ ~(Flagged /\ Overtakes(w))
                               /\ Call("take", w, takedrop_highrank(TRUE, w, arr))
Drop == \E n \in Numbs : Call("drop", Num(n), drop_c2(n, arr))
DropList == \E w \in Vectors : Call("drop", w, takedrop_highrank(FALSE, w, arr))
DropPow == \E w \in Vectors \cup {Num(n) : n \in Numbs}, am \in 2..3 :
             Call("drop_powd", <<am, w>>, drop_powd(am, w, arr))
Shape == \E ru \in BOOLEAN : Call("shape", ru, shape_c1(arr, ru))
ReshapeTo == \E w \in Axes \cup {Num(n) : n \in Numbs}, ru \in BOOLEAN : Call("reshape", w, shape_c2(w, arr, ru))
Pick == \E w \in Vectors \cup {Num(n) : n \in Numbs} : Call("pick", w, pick_c2(w, arr))
FirstItem == Call("first", 0, pick_c1(arr))
Turn == Call("reverse", 0, reverse_c1(arr))
Rotate == \E w \in Vectors \cup {Num(n) : n \in Numbs} : Call("rotate", w, reverse_c2(w, arr))
RotateBack == \E w \in Vectors \cup {Num(n) : n \in Numbs} : Call("rotate_inv", w, reverse_ix(w, arr))
RotatePow == \E w \in Vectors \cup {Num(n) : n \in Numbs}, am \in {2, 3, -2}, fast \in BOOLEAN :
               (fast \/ am > 0 \/ SlowBackwards) /\ Call("reverse_powd", <<am, w>>, reverse_powd(am, w, arr, fast))
Couple == \/ \E ru \in BOOLEAN : Call("couple1", ru, couple_c1(arr, ru))
          \/ \E w \in Parts \cup {arr} : Call("couple", w, couple_c2(w, arr))
CouplePow == \E am \in {2, -1, -2}, ru \in BOOLEAN : Call("couple_powm", am, couple_powm(am, arr, ru))
Join == \E y \in Parts \cup {arr}, ru \in BOOLEAN : Call("join", y, join_c2(arr, y, ru))
JoinItems ==
  /\ steps = 0 /\ arr \in Parts
  /\ \/ \E y \in Parts, z \in Parts :
          \E x \in {[sh |-> <<2>>, items |-> <<arr, y>>], [sh |-> <<3>>, items |-> <<arr, y, z>>]} :
            Call("join_items", x, join_c1(x))
     \/ \E y \in Parts, z \in Parts, u \in Parts, sh \in {<<2, 2>>, <<4, 1>>, <<1, 4>>} :
          \E x \in {[sh |-> sh, items |-> <<arr, y, z, u>>]} : Call("join_items", x, join_c1(x))
JoinPow == \E w \in Parts, am \in 2..3, aft \in BOOLEAN : Call("join_powd", <<aft, am, w>>, join_powd(aft, am, w, arr))
Shift == \E aft \in BOOLEAN :
           \/ Call("shift1", aft, shift_c1(aft, arr))
           \/ \E w \in Parts : Call("shift", <<aft, w>>, shift_c2(aft, w, arr))
ShiftPow == \E aft \in BOOLEAN, am \in 2..3 :
              \/ Call("shift_powm", <<aft, am>>, shift_powm(aft, am, arr))
              \/ \E w \in Parts : Call("shift_powd", <<aft, am, w>>, shift_powd(aft, am, w, arr))
Under ==
  /\ IsArr /\ Rnk(arr) > 0
  /\ \E f \in UnderNames :
       \/ \E n \in 0..(Ia(arr) - 1), ru \in BOOLEAN :
            f # "longer" /\ Call("pick_u", <<f, n>>, pick_replaceOne(f, n, arr, ru))
       \/ \E n \in Numbs : \/ Call("take_u", <<f, n>>, take_ucw(n, f, arr))
                           \/ Call("drop_u", <<f, n>>, drop_ucw(n, f, arr))
                           \/ Call("rotate_u", <<f, n>>, reverse_ucw(Num(n), f, arr))
       \/ Call("shape_u1", f, shape_uc1(f, arr))
       \/ \E w \in Axes : Call("shape_u", <<f, w>>, shape_ucw(w, f, arr))

Next == \/ Take \/ TakeList \/ Drop \/ DropList \/ DropPow \/ Shape \/ ReshapeTo \/ Pick \/ FirstItem
        \/ Turn \/ Rotate \/ RotateBack \/ RotatePow \/ Couple \/ CouplePow \/ Join \/ JoinItems \/ JoinPow
        \/ Shift \/ ShiftPow \/ Under \/ Keep

Spec == Init /\ [][Next]_vars

-----------------------------------------------------------------------------
Unit(x) == [x EXCEPT !.at = FALSE]
WArr(w) == [w EXCEPT !.at = FALSE, !.sh = <<Len(w.ra)>>]
Expected ==
  CASE call.fn = "take" -> Taken(WArr(call.w), arr)
    [] call.fn = "drop" -> Dropped(WArr(call.w), arr)
    [] call.fn = "shape" -> ListOf(arr.ra)
    [] call.fn = "reshape" -> ReshapedTo(WArr(call.w), arr)
    [] call.fn = "reverse" -> Reversed(arr)
    [] call.fn = "rotate" -> Rotated(WArr(call.w), arr)
    [] call.fn = "pick" -> PickedAt(call.w, arr)
    [] call.fn = "couple1" -> [at |-> FALSE, sh |-> <<1>> \o arr.sh, ra |-> arr.ra]
    [] call.fn = "couple" -> Coupled(call.w, arr)
    [] call.fn = "join" -> Joined(arr, call.w)
    [] call.fn = "shift1" -> IF arr.sh = <<>> THEN Err
                             ELSE IF arr.ra = <<>> THEN Shown(arr)
                             ELSE IF arr.fill = NoFill THEN Err
                             ELSE Shifted(call.w, Arr(arr.el, Tail(arr.sh), Rep(Csz(arr), arr.fill), arr.fill), arr)
    [] call.fn = "shift" -> Shifted(call.w[1], call.w[2], arr)
    [] call.fn = "join_items" ->
         LET ls == Layouts(call.w, 2)
         IN IF ls = {} THEN Err ELSE LaidOut(call.w, CHOOSE l \in ls : TRUE)

\* A structural primitive gives every index the element its definition gives it, and
\* an error exactly where the definition has none.
AsPromised == call.fn \in {"take", "drop", "shape", "reshape", "reverse", "rotate", "pick", "couple1", "couple",
                           "join", "shift1", "shift", "join_items"}
              => Shown(call.res) = Expected

Repeated(op(_), n, x) == FoldLeft(LAMBDA y, i : IF IsErr(y) THEN y ELSE op(y), x, [i \in 1..n |-> i])
Negated(w) == [w EXCEPT !.ra = [i \in DOMAIN @ |-> IF @[i] < Chr THEN -@[i] ELSE @[i]]]
Filled(x) == Arr(x.el, Tail(x.sh), Rep(Csz(x), x.fill), x.fill)
ShiftedFill(aft, x) == IF x.sh = <<>> THEN Err ELSE IF x.ra = <<>> THEN x
                       ELSE IF x.fill = NoFill THEN Err
                       ELSE [x EXCEPT !.ra = Shifted(aft, Filled(x), x).ra]
Uncoupled(x) == IF x.sh = <<>> THEN Err ELSE IF x.sh[1] # 1 THEN Err ELSE [x EXCEPT !.sh = Tail(@)]

\* What the primitive gives when it is called am times, its inverse for a negative am.
Iterated ==
  LET w == call.w
  IN CASE call.fn = "drop_powd" -> Repeated(LAMBDA y : Dropped(WArr(w[2]), y), w[1], Unit(arr))
       [] call.fn = "rotate_inv" -> IF arr.at THEN Err ELSE Rotated(Negated(w), arr)
       [] call.fn = "reverse_powd" ->
            IF w[1] < 0 /\ arr.at THEN Err \* no rotation gives an atom
            ELSE Repeated(LAMBDA y : Rotated(IF w[1] < 0 THEN Negated(w[2]) ELSE w[2], y), AbsOf(w[1]), Unit(arr))
       [] call.fn = "couple_powm" ->
            IF w > 0 THEN [arr EXCEPT !.at = FALSE, !.sh = <<1, 1>> \o @]
            ELSE IF arr.at THEN Err ELSE Repeated(Uncoupled, -w, arr)
       [] call.fn = "join_powd" ->
            Repeated(LAMBDA y : IF w[1] THEN Joined(y, w[3]) ELSE Joined(w[3], y), w[2], Unit(arr))
       [] call.fn = "shift_powm" -> Repeated(LAMBDA y : ShiftedFill(w[1], y), w[2], Unit(arr))
       [] call.fn = "shift_powd" -> Repeated(LAMBDA y : Shifted(w[1], w[3], y), w[2], Unit(arr))

\* The shortcuts for calling a primitive several times, or backwards, give what the
\* calls one after the other would give.
RepeatIsIteration ==
  call.fn \in {"drop_powd", "rotate_inv", "reverse_powd", "couple_powm", "join_powd", "shift_powm", "shift_powd"}
  => LET e == Iterated IN Shown(call.res) = (IF IsErr(e) THEN Err ELSE Shown([e EXCEPT !.at = FALSE]))

\* The shape and the positions of arr a function under a primitive is given.
Selected ==
  LET x == arr  ia == Ia(x)  csz == IF Rnk(x) > 1 THEN Csz(x) ELSE 1  n == call.w[2]
      cells(first, k) == [sh |-> <<k>> \o Tail(x.sh), at |-> [i \in 1..(k * csz) |-> first * csz + i]]
      k == MinOf(AbsOf(n), x.sh[1])
  IN CASE call.fn = "pick_u" -> [sh |-> <<>>, at |-> <<n + 1>>]
       [] call.fn = "take_u" -> cells(IF n < 0 THEN x.sh[1] - k ELSE 0, k)
       [] call.fn = "drop_u" -> cells(IF n < 0 THEN 0 ELSE k, x.sh[1] - k)
       [] call.fn = "shape_u1" -> [sh |-> <<ia>>, at |-> [i \in 1..ia |-> i]]
       [] call.fn = "shape_u" ->
            LET a == ReshapedTo(n, [x EXCEPT !.el = ElB, !.fill = NoFill, !.ra = [i \in DOMAIN @ |-> i]])
            IN IF IsErr(a) THEN [sh |-> <<>>, at |-> <<NoFill>>] ELSE [sh |-> a.sh, at |-> a.ra]

UnderExpected ==
  IF \/ call.fn = "take_u" /\ AbsOf(call.w[2]) > arr.sh[1]
     \/ call.fn = "shape_u" /\ IsErr(ReshapedTo(call.w[2], arr))
  THEN Err
  ELSE LET s == Selected
           f == IF call.fn = "shape_u1" THEN call.w ELSE call.w[1]
       IN IF NoFill \in ToSet(s.at) THEN Err \* a fill has no place in arr
          ELSE LET rep == Apply(f, Arr(ElB, s.sh, [i \in DOMAIN s.at |-> arr.ra[s.at[i]]], NoFill))
                   pos(k) == CHOOSE i \in DOMAIN s.at : s.at[i] = k
               IN IF IsErr(rep) THEN Err
                  ELSE IF rep.sh # s.sh THEN Err
                  ELSE IF \E i, j \in DOMAIN s.at : s.at[i] = s.at[j] /\ rep.ra[i] # rep.ra[j] THEN Err
                  ELSE [at |-> FALSE, sh |-> arr.sh,
                        ra |-> [k \in DOMAIN arr.ra |->
                                  IF \E i \in DOMAIN s.at : s.at[i] = k THEN rep.ra[pos(k)] ELSE arr.ra[k]]]

\* Rotation has an inverse, so the function may even change the shape.
RotatedBack ==
  LET rep == Apply(call.w[1], [arr EXCEPT !.ra = Rotated(Num(call.w[2]), arr).ra])
  IN IF IsErr(rep) THEN Err ELSE Rotated(Num(-call.w[2]), rep)

\* Under a primitive, the elements it selects are replaced by what the function
\* makes of them and every other element stays; a function that throws or changes the
\* shape leaves no result.
UnderIsLocal ==
  /\ call.fn \in {"pick_u", "take_u", "drop_u", "shape_u1", "shape_u"} => Shown(call.res) = UnderExpected
  /\ call.fn = "rotate_u" => Shown(call.res) = RotatedBack
=============================================================================
