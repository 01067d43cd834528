---------------------------- MODULE Primitives ----------------------------
(***************************************************************************)
(* A program that selects, replicates, sorts and searches for cells, and   *)
(* calls functions under these primitives.                                 *)
(***************************************************************************)
EXTENDS Windows, Group, Definitions, Programs

CONSTANTS Lists,      \* index arrays
          AxisLists,  \* lists of index arrays
          Times,      \* how often to replicate
          Keys,       \* sorted arrays to look up in, and arrays to find
          GroupArgs,  \* numbers to group by
          Sizes,      \* arguments of Range and sizes of windows
          EmptyCells  \* whether cells without elements are selected: two indices or more are not checked

ASSUME PrimitivesAssumption == EmptyCells \in BOOLEAN

SortedHow == {"insertion", "radix", "count", "range"}

Unchecked == Ia(arr) = 0 /\ Rnk(arr) > 0 /\ arr.sh[1] # 0
IsTable == ~arr.at /\ Rnk(arr) = 2
FirstCell == \/ Call("first_cell", 1, select_c1(arr))
             \/ \E am \in 2..3 : Call("first_cell", am, select_powm(am, arr))
SelectCell == \E w \in Lists, widen \in BOOLEAN : (EmptyCells \/ ~Unchecked) /\ Call("select", w, select_c2(w, arr, widen))
SelectAxes == \E ws \in AxisLists, short \in BOOLEAN : (EmptyCells \/ ~Unchecked) /\ Call("select_axes", ws, select_depth2_impl(ws, arr, short))
SelectRows == \E w \in Lists, widen \in BOOLEAN :
  /\ call = Idle /\ IsTable /\ arr.sh[1] # 0 /\ Rnk(w) = 1 /\ (EmptyCells \/ ~Unchecked)
  /\ \E r \in {select_rows_B(arr, arr.sh[2], arr.sh[1], w, widen)} :
       Call("select_rows", w, IF IsErr(r) THEN r ELSE Reshaped(r, <<arr.sh[1], Ia(w)>>))
Indices == Call("indices", 0, slash_c1(arr))
Replicate == \E w \in Times : Call("replicate", w, slash_c2(w, arr))
CountUp == \E wide \in BOOLEAN : Call("count", 0, slash_im(arr, wide))
Sort == \E how \in SortedHow, up \in BOOLEAN : Call("sort", up, sort_c1(arr, how, up))
Grade == \E how \in SortedHow, up \in BOOLEAN : ~arr.at /\ Rnk(arr) > 0 /\ Call("grade", up, grade_c1(arr, how, up))
BinsOfKeys == \E w \in Keys \cup {arr}, narrow \in BOOLEAN, up \in BOOLEAN : Call("bins", <<w, up>>, grade_c2(w, arr, narrow, up))
Compare == \E y \in Keys \cup Seeds : Call("compare", y, Atom(compareF(arr, y)))
Window == \E w \in Sizes : Call("windows", w, ud_c2(w, arr))
Find == \E w \in Keys : ~arr.at /\ Call("find", w, find_c2(w, arr))
ShapeOf == Call("shape_of", 0, fne_c1(arr))
\* The list of index lists, as one array.
MergedList(r) == IF IsErr(r) THEN Err
                 ELSE IF r.items = <<>> THEN Arr(ElInt, Append(r.sh, Len(r.sh)), <<>>, 0) ELSE bqn_merge(r.sh, r.items)
Range1 == \E w \in Sizes : w.at /\ steps = 0 /\ Call("range", w, ud_c1(w))
RangeList == \E w \in Sizes : ~w.at /\ steps = 0 /\ Call("range_list", w, MergedList(ud_c1(w)))

\* A program looks at one group, or at how many there are.
PartOf(r, j) == IF IsErr(r) THEN r ELSE IF j = 0 THEN Atom(Len(r.groups))
                ELSE IF j <= Len(r.groups) THEN r.groups[j] ELSE Err
GroupBy == call = Idle /\ \E w \in GroupArgs, j \in 0..2 : Call("group", [by |-> w, part |-> j], PartOf(group_c2(w, arr), j))
GroupIndices == \E j \in 0..2 : Call("group_indices", j, PartOf(group_c1(arr), j))

\* What the code sees of a function that gives the same element for every argument.
ConstOf(f) == IF f = "big" THEN {NoFill, I8Max + 1} ELSE IF f = "letters" THEN {NoFill, Chr + 1} ELSE {NoFill}
\* Modifying arr, which the program holds elsewhere too unless `ru`: what it sees there.
Modify(fn, w, ru, o) == /\ UNCHANGED <<arr, steps>>
                        /\ call' = [fn |-> fn, w |-> w, res |-> o.res, held |-> IF ru THEN arr ELSE o.left]
Under ==
  /\ call = Idle /\ ~arr.at /\ Rnk(arr) > 0
  /\ \E f \in UnderNames, ru \in BOOLEAN :
       \/ \E w \in Lists, c \in ConstOf(f) :
            (EmptyCells \/ ~Unchecked) /\ Modify("select_u", <<f, w>>, ru, select_ucw(w, f, c, arr, ru))
       \/ Modify("first_cell_u", <<f, 0>>, ru, select_uc1(f, arr, ru))
       \/ \E ws \in AxisLists : Modify("pick_u", <<f, ws>>, ru, pick_ucw(ws, f, arr, ru))
       \/ \E w \in Times, c \in ConstOf(f) :
            Modify("replicate_u", <<f, w>>, ru, slash_ucw(w, f, c, arr, ru))

Next == \/ FirstCell \/ SelectCell \/ SelectAxes \/ SelectRows \/ Indices \/ GroupBy \/ GroupIndices \/ Replicate \/ CountUp \/ Sort \/ Grade
        \/ BinsOfKeys \/ Compare \/ Window \/ Find \/ ShapeOf \/ Range1 \/ RangeList \/ Under \/ Keep

Spec == Init /\ [][Next]_vars

-----------------------------------------------------------------------------
Passed == call.res = Base \* to the runtime
ListW(w) == IF w.at THEN [w EXCEPT !.at = FALSE] ELSE w

Expected ==
  CASE call.fn = "first_cell" -> IF arr.at \/ Rnk(arr) < call.w \/ \E i \in 1..MinOf(Rnk(arr), call.w) : arr.sh[i] = 0 THEN Err
                                 ELSE SelectedByAxes([i \in 1..call.w |-> [Atom(0) EXCEPT !.at = FALSE]], arr)
    [] call.fn = "select" -> SelectedBy(ListW(call.w), arr)
    [] call.fn = "select_axes" -> SelectedByAxes(call.w, arr)
    [] call.fn = "select_rows" -> RowsSelected(call.w, arr)
    [] call.fn = "indices" -> IndicesOf(arr)
    [] call.fn = "replicate" -> IF call.w.sh = <<0>> THEN Shown(m_unit(arr)) ELSE ReplicatedBy(call.w, arr)
    [] call.fn = "count" -> CountsOf(arr)
    [] call.fn = "sort" -> SortOf(arr, call.w)
    [] call.fn = "grade" -> GradeOf(arr, call.w)
    [] call.fn = "bins" -> BinsOf(call.w[1], arr, call.w[2])
    [] call.fn = "compare" -> [at |-> TRUE, sh |-> <<>>, ra |-> <<CompareOf(arr, call.w)>>]
    [] call.fn = "windows" -> WindowsOf(call.w, arr)
    [] call.fn = "find" -> FoundIn(call.w, arr)
    [] call.fn = "shape_of" -> ListOf(arr.sh)
    [] call.fn \in {"range", "range_list"} -> RangeOf(call.w)
    [] call.fn = "group" -> Shown(PartOf(GroupsOf(IF "items" \in DOMAIN call.w.by THEN call.w.by.items[1] ELSE call.w.by, arr), call.w.part))
    [] call.fn = "group_indices" -> Shown(PartOf(GroupsOf(arr, ListOf([k \in DOMAIN arr.ra |-> k - 1])), call.w))
UnderFns == {"select_u", "first_cell_u", "pick_u", "replicate_u"}

\* Selecting, replicating, sorting, grading, counting, looking up and finding give
\* every element their definitions give, and an error exactly where there is none,
\* whichever of the methods the code picks.
AsDefined ==
  call.fn \notin {"idle"} \cup UnderFns => Passed \/ Shown(call.res) = Expected

\* The shape and the positions of arr a function under a primitive is given.
CellPositions(v, x) == [j \in 1..Csz(x) |-> (IF v < 0 THEN v + x.sh[1] ELSE v) * Csz(x) + j]
Selects ==
  LET x == arr  w == call.w[2]
  IN CASE call.fn = "select_u" -> ~IsErr(SelectedBy(ListW(w), x))
       [] call.fn = "first_cell_u" -> x.sh[1] # 0
       [] call.fn = "pick_u" -> \A i \in DOMAIN w : ~IsErr(PickedAt(w[i], x))
       [] call.fn = "replicate_u" -> ~IsErr(ReplicatedBy(w, x))
Selection ==
  LET x == arr  w == call.w[2]
      times == FlattenSeq([i \in DOMAIN w.ra |-> Rep(w.ra[i], i)])
  IN CASE call.fn = "select_u" -> [sh |-> w.sh \o Tail(x.sh), at |-> FlattenSeq([k \in DOMAIN w.ra |-> CellPositions(w.ra[k], x)])]
       [] call.fn = "first_cell_u" -> [sh |-> Tail(x.sh), at |-> CellPositions(0, x)]
       [] call.fn = "pick_u" -> [sh |-> <<Len(w)>>, at |-> [i \in DOMAIN w |-> PickIdx(w[i].ra, x.sh) + 1]]
       [] call.fn = "replicate_u" -> [sh |-> <<Len(times)>>, at |-> times]

UnderExpected ==
  IF ~Selects THEN Err
  ELSE LET s == Selection
           rep == Apply(call.w[1], Arr(ElB, s.sh, [i \in DOMAIN s.at |-> arr.ra[s.at[i]]], NoFill))
           clash == \E i, j \in DOMAIN s.at : s.at[i] = s.at[j] /\ rep.ra[i] # rep.ra[j]
           pos(k) == CHOOSE i \in DOMAIN s.at : s.at[i] = k
       IN IF IsErr(rep) THEN Err
          ELSE IF rep.sh # s.sh THEN Err
          ELSE IF clash THEN Err
          ELSE [at |-> FALSE, sh |-> arr.sh,
                ra |-> [k \in DOMAIN arr.ra |-> IF \E i \in DOMAIN s.at : s.at[i] = k THEN rep.ra[pos(k)] ELSE arr.ra[k]]]

\* Under a selection the elements selected are replaced and the others stay; an element
\* selected twice must be given one value, and there is an error when it is not.  Another
\* holder of the array sees it as it was, also when the call failed half-way through.
UnderReplaces == call.fn \in UnderFns => call.held = arr /\ (Passed \/ Shown(call.res) = UnderExpected)
=============================================================================
