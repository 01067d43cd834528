------------------------------ MODULE TimSort ------------------------------
(***************************************************************************)
(* The sort of elements of any type, builtins/sortTemplate.h: it finds     *)
(* runs that are already in order, lengthens short ones by insertion, and  *)
(* merges neighbours on a stack of runs, so that the sort is stable and    *)
(* the stack stays short.  An element is a pair of a key and a value: only *)
(* the keys are compared (SORT_CMP), as when an array is graded.           *)
(*                                                                         *)
(* Positions in dst count from 0, as in the code; dst[k + 1] is dst[k].    *)
(***************************************************************************)
EXTENDS Integers, Sequences

CONSTANTS Inputs, \* the arrays to sort: sequences of pairs
          Bits    \* arrays of fewer than 2^Bits elements are sorted by insertion alone: 6

ASSUME TimSortAssumption == Bits \in Nat \ {0} /\ Inputs \subseteq Seq(Int \X Int)
\* A value says where in the array its element was: the sort never looks at it, and
\* in which order it leaves elements with equal keys could otherwise not be told.
ASSUME NumberedAssumption == \A s \in Inputs : \A j, k \in 1..Len(s) : j < k => s[j][2] < s[k][2]

VARIABLES dst,    \* the array
          size,   \* its length
          runs,   \* run_stack: the runs found, with their starts and lengths
          curr,   \* the end of the last run
          len,    \* the elements after curr known to be in order
          pushed, \* runs pushed, up to 3
          pc      \* where the code is
vars == <<dst, size, runs, curr, len, pushed, pc>>

LE(x, y) == x[1] <= y[1]
At(k) == dst[k + 1]

\* compute_minrun: the top Bits bits of the size, plus one if any other bit is set.
compute_minrun == LET b == 2^(CHOOSE s \in 0..size : size < 2^(Bits + s) /\ (s = 0 \/ size >= 2^(Bits + s - 1)))
                  IN (size \div b) + (IF size % b = 0 THEN 0 ELSE 1)

\* dst with s stored from position a on.
Stored(a, s) == [k \in 1..size |-> IF k \in a + 1..a + Len(s) THEN s[k - a] ELSE dst[k]]

-----------------------------------------------------------------------------
FindBeforeEqual(s, x) == \* mutant: the leftmost place
  LET n == Len(s)
      go[l \in 0..n] == IF l = n \/ LE(x, s[l + 1]) THEN l ELSE go[l + 1]
  IN go[0]

\* Where an element that belongs before the last of s goes, after all equal ones.
BinaryInsertionFind(s, x) ==
  LET n == Len(s)
      go[p \in (0..(n - 1)) \X (0..(n - 1))] ==
        LET l == p[1]  r == p[2]  c == l + ((r - l) \div 2)
        IN IF ~LE(s[c + 1], x) THEN (IF c - l <= 1 THEN c ELSE go[<<l, c>>])
           ELSE IF r - c <= 1 THEN c + 1 ELSE go[<<c, r>>]
  IN IF ~LE(s[1], x) THEN 0 ELSE go[<<0, n - 1>>]

Slice(a, n) == [k \in 1..n |-> dst[a + k]]

\* The element at position a + i put in its place among the i before it.
Inserted(a, i) ==
  LET s == Slice(a, i)  x == dst[a + i + 1]
      loc == BinaryInsertionFind(s, x)
  IN IF LE(s[i], x) THEN dst
     ELSE Stored(a, [k \in 1..(i + 1) |-> IF k <= loc THEN s[k] ELSE IF k = loc + 1 THEN x ELSE s[k - 1]])

\* TIM_SORT_MERGE: the shorter side is copied out, and merged from its own end.
MergedLeft(s, t) ==
  LET go[p \in (0..Len(s)) \X (0..Len(t))] ==
        LET i == p[1]  j == p[2]
        IN IF i = Len(s) THEN SubSeq(t, j + 1, Len(t))
           ELSE IF j = Len(t) THEN SubSeq(s, i + 1, Len(s))
           ELSE IF LE(s[i + 1], t[j + 1]) THEN <<s[i + 1]>> \o go[<<i + 1, j>>]
           ELSE <<t[j + 1]>> \o go[<<i, j + 1>>]
  IN go[<<0, 0>>]
MergedRight(s, t) ==
  LET go[p \in (0..Len(s)) \X (0..Len(t))] ==
        LET j == p[1]  i == p[2]
        IN IF i = 0 THEN SubSeq(s, 1, j)
           ELSE IF j = 0 THEN SubSeq(t, 1, i)
           ELSE IF ~LE(s[j], t[i]) THEN Append(go[<<j - 1, i>>], s[j])
           ELSE Append(go[<<j, i - 1>>], t[i])
  IN go[<<Len(s), Len(t)>>]

Merged(a, X, Y) == LET s == Slice(a, X)  t == Slice(a + X, Y)
                   IN Stored(a, IF X < Y THEN MergedLeft(s, t) ELSE MergedRight(s, t))

\* Runs i and i + 1 become one.
MergeRuns(i) ==
  /\ dst' = Merged(runs[i].start, runs[i].length, runs[i + 1].length)
  /\ runs' = [k \in 1..(Len(runs) - 1) |->
                IF k < i THEN runs[k]
                ELSE IF k = i THEN [start |-> runs[i].start, length |-> runs[i].length + runs[i + 1].length]
                ELSE runs[k + 1]]

-----------------------------------------------------------------------------
Init == /\ dst \in Inputs /\ size = Len(dst)
        /\ runs = <<>> /\ curr = 0 /\ len = 1 /\ pushed = 0
        /\ pc = IF size <= 1 THEN "done" ELSE IF size < 2^Bits THEN "small" ELSE "count"

\* SMALL_SORT: insertion from the second element on.
Small == /\ pc = "small"
         /\ IF len < size THEN dst' = Inserted(0, len) /\ len' = len + 1 /\ pc' = pc
            ELSE pc' = "done" /\ UNCHANGED <<dst, len>>
         /\ UNCHANGED <<size, runs, curr, pushed>>

CountAlone == \* mutant: a last element alone counts as two
  /\ pc = "count"
  /\ dst' = dst /\ len' = 2 /\ pc' = IF curr >= size - 2 THEN "extend" ELSE "follow"
  /\ UNCHANGED <<size, runs, curr, pushed>>

\* COUNT_RUN: what is left may be one or two elements, else the run is followed.
Count ==
  /\ pc = "count"
  /\ IF size - curr = 1 THEN len' = 1 /\ pc' = "extend" /\ UNCHANGED dst
     ELSE IF curr >= size - 2
     THEN /\ dst' = IF LE(At(size - 2), At(size - 1)) THEN dst
                    ELSE Stored(size - 2, <<At(size - 1), At(size - 2)>>)
          /\ len' = 2 /\ pc' = "extend"
     ELSE len' = 2 /\ pc' = "follow" /\ UNCHANGED dst
  /\ UNCHANGED <<size, runs, curr, pushed>>

\* One comparison of the run that starts at curr; a decreasing run ends at equal
\* elements, and is reversed in place.
Follow ==
  /\ pc = "follow"
  /\ LET up == LE(At(curr), At(curr + 1))
         c == curr + len
         ends == c = size - 1 \/ LE(At(c - 1), At(c)) # up
     IN IF ends
        THEN /\ dst' = IF up THEN dst ELSE Stored(curr, [k \in 1..len |-> dst[curr + len + 1 - k]])
             /\ pc' = "extend" /\ UNCHANGED len
        ELSE len' = len + 1 /\ UNCHANGED <<dst, pc>>
  /\ UNCHANGED <<size, runs, curr, pushed>>

\* A run shorter than minrun is lengthened by insertion; the run is then pushed.
Short == len < size - curr /\ len < compute_minrun
Extend == /\ pc = "extend" /\ Short
          /\ dst' = Inserted(curr, len) /\ len' = len + 1
          /\ UNCHANGED <<size, runs, curr, pushed, pc>>
Push == /\ pc = "extend" /\ ~Short
        /\ runs' = Append(runs, [start |-> curr, length |-> len])
        /\ curr' = curr + len
        /\ len' = 1
        /\ pushed' = IF pushed < 3 THEN pushed + 1 ELSE 3
        /\ pc' = IF curr' = size THEN "finish" ELSE IF pushed' < 3 THEN "count" ELSE "check"
        /\ UNCHANGED <<dst, size>>

\* The length of the i-th run from the top.
Top(i) == runs[Len(runs) - i].length

CHECK_INVARIANT == /\ Len(runs) = 2 => Top(1) > Top(0)
                   /\ Len(runs) > 2 => Top(2) > Top(1) + Top(0) /\ Top(1) > Top(0)
Check == /\ pc = "check" /\ pc' = IF CHECK_INVARIANT THEN "count" ELSE "collapse"
         /\ UNCHANGED <<dst, size, runs, curr, len, pushed>>

\* One turn of TIM_SORT_COLLAPSE.
ABC == Len(runs) >= 4 /\ Top(3) <= Top(2) + Top(1)
BCDTopOnly == Top(2) <= Top(1) + Top(0) \* mutant: only the top three runs are looked at
BCDStrict == Top(2) < Top(1) + Top(0) \/ ABC \* mutant: not what CHECK_INVARIANT asks
BCD == Top(2) <= Top(1) + Top(0) \/ ABC
CD == Top(1) <= Top(0)
Collapse ==
  /\ pc = "collapse"
  /\ IF Len(runs) <= 1 THEN pc' = "check" /\ UNCHANGED <<dst, runs>>
     ELSE IF Len(runs) = 2
     THEN /\ pc' = "check"
          /\ IF Top(1) + Top(0) = size \/ CD THEN MergeRuns(1) ELSE UNCHANGED <<dst, runs>>
     ELSE IF ~BCD /\ ~CD THEN pc' = "check" /\ UNCHANGED <<dst, runs>>
     ELSE pc' = pc /\ MergeRuns(IF BCD /\ ~CD THEN Len(runs) - 2 ELSE Len(runs) - 1)
  /\ UNCHANGED <<size, curr, len, pushed>>

\* When the last run has been pushed, the stack is merged from the top.
Finish == /\ pc = "finish"
          /\ IF Len(runs) > 1 THEN MergeRuns(Len(runs) - 1) /\ pc' = pc
             ELSE pc' = "done" /\ UNCHANGED <<dst, runs>>
          /\ UNCHANGED <<size, curr, len, pushed>>

Next == Small \/ Count \/ Follow \/ Extend \/ Push \/ Check \/ Collapse \/ Finish
Spec == Init /\ [][Next]_vars /\ WF_vars(Next)

-----------------------------------------------------------------------------
\* The runs lie one after the other from the start of the array to curr, and none is
\* empty, so no merge reads or writes outside its two runs.
RunsTile ==
  /\ \A i \in 1..Len(runs) : /\ runs[i].length >= 1
                             /\ runs[i].start = (IF i = 1 THEN 0 ELSE runs[i - 1].start + runs[i - 1].length)
  /\ curr = (IF runs = <<>> THEN 0 ELSE runs[Len(runs)].start + runs[Len(runs)].length)
  /\ curr <= size

\* When a run is about to be looked for, every run on the stack is longer than the
\* two above it together: the lengths grow like the Fibonacci numbers, so a stack of
\* TIM_SORT_STACK_SIZE runs is enough for every array.
StackShrinks ==
  (pc = "count" /\ pushed = 3) =>
    \A i \in 1..(Len(runs) - 1) :
      /\ runs[i].length > runs[i + 1].length
      /\ i + 2 <= Len(runs) => runs[i].length > runs[i + 1].length + runs[i + 2].length

\* Every run is in order, with equal keys in the order of the input, and at the end
\* the array is one such run; no merge, insertion or reversal doubles an element.
StableFrom(a, n) == \A k \in (a + 1)..(a + n - 1) :
                      \/ dst[k][1] < dst[k + 1][1]
                      \/ dst[k][1] = dst[k + 1][1] /\ dst[k][2] < dst[k + 1][2]
RunsSorted == /\ \A i \in 1..Len(runs) : StableFrom(runs[i].start, runs[i].length)
              /\ pc = "done" => StableFrom(0, size)
              /\ \A j, k \in 1..size : j # k => dst[j] # dst[k]

\* The sort ends, whatever it is given.
Ends == <>(pc = "done")
=============================================================================
