--------------------------- MODULE TimSortProofs ---------------------------
(***************************************************************************)
(* For arrays of every length: the runs on the stack tile the sorted part  *)
(* of the array, and their lengths shrink fast enough that the stack of    *)
(* TIM_SORT_STACK_SIZE runs never overflows.  The elements, and so what    *)
(* the comparisons answer, play no part in either.                         *)
(***************************************************************************)
EXTENDS TimSort, TLAPS

Run == [start : Nat, length : Nat]
PCs == {"small", "count", "follow", "extend", "check", "collapse", "finish", "done"}

TypeInv == /\ size \in Nat /\ curr \in Nat /\ len \in Nat \ {0} /\ pushed \in 0..3
           /\ pc \in PCs
           /\ runs \in Seq(Run)

\* Where the code is, and what is left to sort there.
Bounds == /\ pc \in {"count", "follow", "extend", "check", "collapse"} => curr < size
          /\ pc = "follow" => curr + len <= size - 1
          /\ pc = "extend" => curr + len <= size
          /\ pc = "small" => runs = <<>>

TileInv == TypeInv /\ Bounds /\ RunsTile

-----------------------------------------------------------------------------
\* The runs after two of them have been merged (MergeRuns).
MergedRuns(i) ==
  [k \in 1..(Len(runs) - 1) |->
     IF k < i THEN runs[k]
     ELSE IF k = i THEN [start |-> runs[i].start, length |-> runs[i].length + runs[i + 1].length]
     ELSE runs[k + 1]]

LEMMA MergeKeeps ==
  ASSUME TypeInv, RunsTile, NEW i \in 1..(Len(runs) - 1), runs' = MergedRuns(i), curr' = curr, size' = size
  PROVE  runs' \in Seq(Run) /\ RunsTile' /\ Len(runs') = Len(runs) - 1
<1>1. Len(runs) \in Nat /\ Len(runs) >= 2
  BY DEF TypeInv
<1>2. \A k \in 1..Len(runs) : runs[k] \in Run
  BY DEF TypeInv
<1>3. \A k \in 1..(Len(runs) - 1) : MergedRuns(i)[k] \in Run
  BY <1>1, <1>2 DEF MergedRuns, Run
<1>4. runs' \in Seq(Run) /\ Len(runs') = Len(runs) - 1
  BY <1>1, <1>3 DEF MergedRuns
<1>a. /\ runs'[i].start = runs[i].start
      /\ runs'[i].length = runs[i].length + runs[i + 1].length
      /\ \A k \in 1..(i - 1) : runs'[k] = runs[k]
      /\ \A k \in (i + 1)..(Len(runs) - 1) : runs'[k] = runs[k + 1]
  BY <1>1 DEF MergedRuns
<1>b. \A k \in 2..Len(runs) : runs[k].start = runs[k - 1].start + runs[k - 1].length
  BY <1>1 DEF RunsTile
<1>c. /\ \A k \in 1..Len(runs) : runs[k].length \in Nat /\ runs[k].start \in Nat /\ runs[k].length >= 1
      /\ runs[1].start = 0
  BY <1>1, <1>2 DEF RunsTile, Run
<1>d. runs[i + 1].start = runs[i].start + runs[i].length
  <2>1. i + 1 \in 2..Len(runs) /\ (i + 1) - 1 = i
    BY <1>1
  <2> QED
    BY <1>b, <2>1
<1>5. ASSUME NEW k \in 1..Len(runs')
      PROVE  /\ runs'[k].length >= 1
             /\ runs'[k].start = (IF k = 1 THEN 0 ELSE runs'[k - 1].start + runs'[k - 1].length)
  <2>1. CASE k < i
    <3>1. /\ k \in 1..(i - 1) /\ k \in 1..Len(runs) /\ runs'[k] = runs[k]
          /\ k # 1 => k \in 2..Len(runs) /\ k - 1 \in 1..(i - 1)
      BY <1>1, <1>4, <1>a, <2>1
    <3>2. k # 1 => runs'[k - 1] = runs[k - 1] /\ runs[k].start = runs[k - 1].start + runs[k - 1].length
      BY <3>1, <1>a, <1>b
    <3>3. runs'[k].length >= 1 /\ (k = 1 => runs'[k].start = 0)
      BY <3>1, <1>c
    <3> QED
      BY <3>1, <3>2, <3>3
  <2>2. CASE k = i
    <3>1. /\ k \in 1..Len(runs) /\ i + 1 \in 1..Len(runs) /\ runs'[k].start = runs[k].start
          /\ runs'[k].length = runs[k].length + runs[k + 1].length
          /\ k # 1 => k \in 2..Len(runs) /\ k - 1 \in 1..(i - 1)
      BY <1>1, <1>4, <1>a, <2>2
    <3>2. k # 1 => runs'[k - 1] = runs[k - 1] /\ runs[k].start = runs[k - 1].start + runs[k - 1].length
      BY <3>1, <1>a, <1>b
    <3>3. runs[k].length >= 1 /\ runs[k + 1].length >= 1 /\ runs[k].length \in Nat /\ runs[k + 1].length \in Nat
      BY <3>1, <1>c, <2>2
    <3>4. runs'[k].length >= 1 /\ (k = 1 => runs'[k].start = 0)
      BY <3>1, <3>3, <1>c
    <3> QED
      BY <3>1, <3>2, <3>4
  <2>3. CASE k = i + 1
    <3>1. k - 1 = i /\ runs'[k] = runs[k + 1] /\ k + 1 \in 2..Len(runs) /\ (k + 1) - 1 = k
      BY <1>1, <1>4, <1>a, <2>3
    <3>2. runs'[k].start = runs[k].start + runs[k].length
      BY <3>1, <1>b
    <3>3. runs[i].start \in Nat /\ runs[i].length \in Nat /\ runs[i + 1].length \in Nat
      BY <1>1, <1>c
    <3> QED
      BY <3>1, <3>2, <3>3, <1>1, <1>4, <1>a, <1>c, <1>d, <2>3
  <2>4. CASE k > i + 1
    <3>1. /\ k \in (i + 1)..(Len(runs) - 1) /\ k - 1 \in (i + 1)..(Len(runs) - 1)
          /\ k + 1 \in 2..Len(runs) /\ (k + 1) - 1 = k /\ (k - 1) + 1 = k
      BY <1>1, <1>4, <2>4
    <3>2. runs'[k] = runs[k + 1] /\ runs'[k - 1] = runs[k]
      BY <3>1, <1>a
    <3>3. runs[k + 1].start = runs[k].start + runs[k].length
      BY <3>1, <1>b
    <3>4. k # 1 /\ runs[k + 1].length >= 1
      BY <1>1, <1>4, <2>4, <1>c
    <3> QED
      BY <3>2, <3>3, <3>4
  <2> QED
    BY <2>1, <2>2, <2>3, <2>4, <1>1, <1>4
<1>6. runs'[Len(runs')].start + runs'[Len(runs')].length = runs[Len(runs)].start + runs[Len(runs)].length
  <2>1. CASE i = Len(runs) - 1
    BY <1>1, <1>4, <1>a, <1>c, <1>d, <2>1
  <2>2. CASE i < Len(runs) - 1
    BY <1>1, <1>4, <1>a, <2>2
  <2> QED
    BY <2>1, <2>2, <1>1
<1>7. runs # <<>> /\ runs' # <<>>
  BY <1>1, <1>4
<1> QED
  BY <1>1, <1>4, <1>5, <1>6, <1>7 DEF RunsTile

LEMMA InitTile == Init => TileInv
<1> SUFFICES ASSUME Init PROVE TileInv
  OBVIOUS
<1>1. dst \in Seq(Int \X Int)
  BY TimSortAssumption DEF Init
<1>2. size \in Nat
  BY <1>1 DEF Init
<1>3. pc \in {"done", "small", "count"}
  BY DEF Init
<1>4. pc = "count" => size > 1
  BY <1>2 DEF Init
<1>5. runs = <<>> /\ runs \in Seq(Run) /\ Len(runs) = 0 /\ curr = 0 /\ len = 1 /\ pushed = 0
  BY DEF Init
<1> QED
  BY <1>2, <1>3, <1>4, <1>5 DEF TileInv, TypeInv, PCs, Bounds, RunsTile

LEMMA NextTile == TileInv /\ [Next]_vars => TileInv'
<1> SUFFICES ASSUME TileInv, [Next]_vars PROVE TileInv'
  OBVIOUS
<1> USE DEF TileInv, PCs
<1>0. Len(runs) \in Nat /\ \A k \in 1..Len(runs) : runs[k] \in Run
  BY DEF TypeInv
<1>1. CASE Small
  BY <1>1 DEF Small, TypeInv, Bounds, RunsTile
<1>2. CASE Count
  <2>1. /\ runs' = runs /\ curr' = curr /\ size' = size /\ pushed' = pushed /\ pc = "count"
        /\ \/ len' = 1 /\ pc' = "extend"
           \/ len' = 2 /\ pc' = "extend" /\ size - curr # 1
           \/ len' = 2 /\ pc' = "follow" /\ ~(curr >= size - 2)
    BY <1>2 DEF Count
  <2>2. len' \in Nat \ {0} /\ pc' \in {"extend", "follow"}
    BY <2>1
  <2>3. Bounds'
    <3>1. CASE pc' = "extend"
      BY <2>1, <3>1 DEF TypeInv, Bounds
    <3>2. CASE pc' = "follow"
      BY <2>1, <3>2 DEF TypeInv, Bounds
    <3> QED
      BY <2>2, <3>1, <3>2
  <2> QED
    BY <2>1, <2>2, <2>3 DEF TypeInv, RunsTile
<1>3. CASE Follow
  <2>1. /\ runs' = runs /\ curr' = curr /\ size' = size /\ pushed' = pushed /\ pc = "follow"
        /\ \/ len' = len /\ pc' = "extend"
           \/ len' = len + 1 /\ pc' = "follow" /\ curr + len # size - 1
    BY <1>3 DEF Follow
  <2>2. len' \in Nat \ {0} /\ pc' \in {"extend", "follow"}
    BY <2>1 DEF TypeInv
  <2>3. Bounds'
    <3>1. CASE pc' = "extend"
      BY <2>1, <3>1 DEF TypeInv, Bounds
    <3>2. CASE pc' = "follow"
      BY <2>1, <3>2 DEF TypeInv, Bounds
    <3> QED
      BY <2>2, <3>1, <3>2
  <2> QED
    BY <2>1, <2>2, <2>3 DEF TypeInv, RunsTile
<1>4. CASE Extend
  <2>1. /\ runs' = runs /\ curr' = curr /\ size' = size /\ pushed' = pushed /\ pc = "extend" /\ pc' = "extend"
        /\ len' = len + 1 /\ len < size - curr
    BY <1>4 DEF Extend, Short
  <2> QED
    BY <2>1 DEF TypeInv, Bounds, RunsTile
<1>5. CASE Push
  <2> DEFINE new == [start |-> curr, length |-> len]
  <2>1. /\ runs' = Append(runs, new) /\ curr' = curr + len /\ len' = 1 /\ size' = size /\ pc = "extend"
        /\ pushed' = (IF pushed < 3 THEN pushed + 1 ELSE 3)
        /\ pc' \in {"finish", "count", "check"} /\ (pc' # "finish" => curr' # size)
    BY <1>5 DEF Push
  <2>2. new \in Run
    BY DEF TypeInv, Run
  <2>3. runs' \in Seq(Run) /\ Len(runs') = Len(runs) + 1 /\ runs' # <<>>
    BY <2>1, <2>2, <1>0 DEF TypeInv
  <2>4. runs'[Len(runs) + 1] = new /\ \A k \in 1..Len(runs) : runs'[k] = runs[k]
    BY <2>1, <1>0 DEF TypeInv
  <2>5. TypeInv' /\ Bounds'
    BY <2>1, <2>3 DEF TypeInv, Bounds
  <2>6. curr' <= size'
    BY <2>1 DEF TypeInv, Bounds
  <2>7. ASSUME NEW k \in 1..Len(runs')
        PROVE  /\ runs'[k].length >= 1
               /\ runs'[k].start = (IF k = 1 THEN 0 ELSE runs'[k - 1].start + runs'[k - 1].length)
    <3>1. CASE k <= Len(runs)
      BY <3>1, <2>3, <2>4, <1>0 DEF RunsTile
    <3>2. CASE k = Len(runs) + 1 /\ Len(runs) = 0
      BY <3>2, <2>3, <2>4, <1>0 DEF RunsTile, TypeInv
    <3>3. CASE k = Len(runs) + 1 /\ Len(runs) > 0
      <4>1. runs # <<>>
        BY <3>3
      <4> QED
        BY <4>1, <3>3, <2>3, <2>4, <1>0 DEF RunsTile, TypeInv
    <3> QED
      BY <3>1, <3>2, <3>3, <2>3, <1>0
  <2>8. curr' = runs'[Len(runs')].start + runs'[Len(runs')].length
    BY <2>1, <2>3, <2>4, <1>0 DEF TypeInv
  <2> QED
    BY <2>3, <2>5, <2>6, <2>7, <2>8 DEF RunsTile
<1>6. CASE Check
  BY <1>6 DEF Check, TypeInv, Bounds, RunsTile
<1>7. CASE Collapse
  <2>1. /\ curr' = curr /\ size' = size /\ len' = len /\ pushed' = pushed /\ pc = "collapse"
        /\ pc' \in {"check", "collapse"}
        /\ \/ runs' = runs
           \/ \E i \in 1..(Len(runs) - 1) : runs' = MergedRuns(i)
    <3>1. ASSUME NEW i \in Int, i \in 1..(Len(runs) - 1), MergeRuns(i) PROVE runs' = MergedRuns(i)
      BY <3>1 DEF MergeRuns, MergedRuns
    <3>2. CASE Len(runs) <= 1
      BY <1>7, <3>2 DEF Collapse
    <3>3. CASE Len(runs) = 2
      <4>1. 1 \in 1..(Len(runs) - 1)
        BY <3>3
      <4>2. runs' = runs \/ MergeRuns(1)
        BY <1>7, <3>3 DEF Collapse
      <4> QED
        BY <1>7, <3>1, <3>3, <4>1, <4>2 DEF Collapse
    <3>4. CASE Len(runs) > 2
      <4> DEFINE at == IF BCD /\ ~CD THEN Len(runs) - 2 ELSE Len(runs) - 1
      <4>1. at \in Int /\ at \in 1..(Len(runs) - 1)
        BY <1>0, <3>4
      <4>2. runs' = runs \/ MergeRuns(at)
        BY <1>7, <1>0, <3>4 DEF Collapse
      <4>3. runs' = runs \/ runs' = MergedRuns(at)
        BY <3>1, <4>1, <4>2
      <4>4. /\ curr' = curr /\ size' = size /\ len' = len /\ pushed' = pushed /\ pc = "collapse"
            /\ pc' \in {"check", "collapse"}
        BY <1>7, <1>0, <3>4 DEF Collapse
      <4> QED
        BY <4>1, <4>3, <4>4
    <3> QED
      <4>1. Len(runs) <= 1 \/ Len(runs) = 2 \/ Len(runs) > 2
        <5>1. Len(runs) \in Nat
          BY <1>0
        <5>2. \A n \in Nat : n <= 1 \/ n = 2 \/ n > 2
          OBVIOUS
        <5> QED
          BY <5>1, <5>2, Zenon
      <4> QED
        BY <4>1, <3>2, <3>3, <3>4
  <2>2. runs' \in Seq(Run) /\ RunsTile'
    <3>1. CASE runs' = runs
      BY <3>1, <2>1 DEF TypeInv, RunsTile
    <3>2. CASE \E i \in 1..(Len(runs) - 1) : runs' = MergedRuns(i)
      BY <3>2, <2>1, MergeKeeps
    <3> QED
      BY <3>1, <3>2, <2>1
  <2> QED
    BY <2>1, <2>2 DEF TypeInv, Bounds
<1>8. CASE Finish
  <2>1. /\ curr' = curr /\ size' = size /\ len' = len /\ pushed' = pushed /\ pc = "finish"
        /\ pc' \in {"finish", "done"}
        /\ \/ runs' = runs
           \/ \E i \in 1..(Len(runs) - 1) : runs' = MergedRuns(i)
    BY <1>8, <1>0 DEF Finish, MergeRuns, MergedRuns
  <2>2. runs' \in Seq(Run) /\ RunsTile'
    <3>1. CASE runs' = runs
      BY <3>1, <2>1 DEF TypeInv, RunsTile
    <3>2. CASE \E i \in 1..(Len(runs) - 1) : runs' = MergedRuns(i)
      BY <3>2, <2>1, MergeKeeps
    <3> QED
      BY <3>1, <3>2, <2>1
  <2> QED
    BY <2>1, <2>2 DEF TypeInv, Bounds
<1>9. CASE UNCHANGED vars
  BY <1>9 DEF vars, TypeInv, Bounds, RunsTile
<1> QED
  BY <1>1, <1>2, <1>3, <1>4, <1>5, <1>6, <1>7, <1>8, <1>9 DEF Next

\* For arrays of every length, the runs lie one after the other from the start of
\* the array, none is empty and none ends past its end: what TIM_SORT_MERGE reads and
\* writes is inside the array.
THEOREM RunsInPlace == Spec => []RunsTile
<1>1. TileInv => RunsTile
  BY DEF TileInv
<1> QED
  BY InitTile, NextTile, <1>1, PTL DEF Spec

-----------------------------------------------------------------------------
Shrinks(i) == runs[i].length > runs[i + 1].length
Shrinks2(i) == runs[i].length > runs[i + 1].length + runs[i + 2].length
Settled(n) == (\A i \in 1..(n - 1) : Shrinks(i)) /\ (\A i \in 1..(n - 2) : Shrinks2(i))

\* While the stack is collapsed, all but its top three comparisons hold.
StackInv ==
  /\ pc \in {"count", "follow", "extend"} => IF pushed = 3 THEN Settled(Len(runs)) ELSE Len(runs) = pushed
  /\ pc \in {"check", "collapse"} => pushed = 3
  /\ pc = "check" => Len(runs) <= 3 \/ Settled(Len(runs) - 1)
  /\ pc = "collapse" => /\ \A i \in 1..(Len(runs) - 3) : Shrinks(i)
                        /\ \A i \in 1..(Len(runs) - 4) : Shrinks2(i)

FullInv == TileInv /\ StackInv

\* What CHECK_INVARIANT asks of the top settles the stack.
LEMMA CheckSettles ==
  ASSUME TypeInv, RunsTile, CHECK_INVARIANT, Len(runs) <= 3 \/ Settled(Len(runs) - 1)
  PROVE  Settled(Len(runs))
<1>a. Len(runs) \in Nat /\ \A k \in 1..Len(runs) : runs[k] \in Run
  BY DEF TypeInv
<1>1. Len(runs) \in Nat /\ \A k \in 1..Len(runs) : runs[k].length \in Nat /\ runs[k].length >= 1
  BY <1>a DEF RunsTile, Run
<1>2. CASE Len(runs) < 2
  BY <1>1, <1>2 DEF Settled
<1>3. CASE Len(runs) = 2
  BY <1>1, <1>3 DEF Settled, Shrinks, Shrinks2, CHECK_INVARIANT, Top
<1>4. CASE Len(runs) = 3
  BY <1>1, <1>4 DEF Settled, Shrinks, Shrinks2, CHECK_INVARIANT, Top
<1>5. CASE Len(runs) > 3
  <2>1. Settled(Len(runs) - 1)
    BY <1>1, <1>5
  <2>2. Shrinks2(Len(runs) - 2) /\ Shrinks(Len(runs) - 1)
    BY <1>1, <1>5 DEF Shrinks, Shrinks2, CHECK_INVARIANT, Top
  <2> HIDE DEF Shrinks, Shrinks2
  <2>3. ASSUME NEW i \in 1..(Len(runs) - 1) PROVE Shrinks(i)
    BY <2>1, <2>2, <1>1, <1>5 DEF Settled
  <2>4. ASSUME NEW i \in 1..(Len(runs) - 2) PROVE Shrinks2(i)
    BY <2>1, <2>2, <1>1, <1>5 DEF Settled
  <2> QED
    BY <2>3, <2>4 DEF Settled
<1>6. \A n \in Nat : n < 2 \/ n = 2 \/ n = 3 \/ n > 3
  OBVIOUS
<1>7. Len(runs) < 2 \/ Len(runs) = 2 \/ Len(runs) = 3 \/ Len(runs) > 3
  BY <1>1, <1>6, Zenon
<1> QED
  BY <1>2, <1>3, <1>4, <1>5, <1>7

\* A collapse ends only when the whole stack is settled.
LEMMA CollapseSettles ==
  ASSUME TypeInv, RunsTile, StackInv, pc = "collapse", Len(runs) > 2, ~BCD, ~CD
  PROVE  Settled(Len(runs))
<1>a. Len(runs) \in Nat /\ \A k \in 1..Len(runs) : runs[k] \in Run
  BY DEF TypeInv
<1>1. Len(runs) \in Nat /\ \A k \in 1..Len(runs) : runs[k].length \in Nat /\ runs[k].length >= 1
  BY <1>a DEF RunsTile, Run
<1>2. /\ \A i \in 1..(Len(runs) - 3) : Shrinks(i)
      /\ \A i \in 1..(Len(runs) - 4) : Shrinks2(i)
  BY DEF StackInv
<1>3. Shrinks2(Len(runs) - 2) /\ Shrinks(Len(runs) - 1) /\ Shrinks(Len(runs) - 2)
  BY <1>1 DEF BCD, CD, Top, Shrinks, Shrinks2
<1>4. Len(runs) > 3 => Shrinks2(Len(runs) - 3)
  BY <1>1 DEF BCD, ABC, Top, Shrinks2
<1>5. ASSUME NEW i \in 1..(Len(runs) - 1) PROVE Shrinks(i)
  BY <1>1, <1>2, <1>3
<1>6. ASSUME NEW i \in 1..(Len(runs) - 2) PROVE Shrinks2(i)
  BY <1>1, <1>2, <1>3, <1>4
<1> QED
  BY <1>5, <1>6 DEF Settled

LEMMA InitStack == Init => StackInv
<1> SUFFICES ASSUME Init PROVE StackInv
  OBVIOUS
<1>1. pc \in {"done", "small", "count"} /\ Len(runs) = 0 /\ pushed = 0
  BY DEF Init
<1> QED
  BY <1>1 DEF StackInv

LEMMA NextStack == FullInv /\ [Next]_vars => StackInv'
<1> SUFFICES ASSUME FullInv, [Next]_vars PROVE StackInv'
  OBVIOUS
<1>0. Len(runs) \in Nat /\ TypeInv /\ RunsTile /\ StackInv /\ pushed \in 0..3
  BY DEF FullInv, TileInv, TypeInv
<1>n. Len(runs) \in Nat
  BY <1>0
<1> DEFINE Same == runs' = runs /\ pushed' = pushed
<1>1. CASE Small
  BY <1>1 DEF Small, StackInv, Settled, Shrinks, Shrinks2
<1>2. CASE Count
  <2>1. Same /\ pc = "count" /\ pc' \in {"extend", "follow"}
    BY <1>2 DEF Count
  <2> QED
    BY <1>0, <2>1 DEF StackInv, Settled, Shrinks, Shrinks2
<1>3. CASE Follow
  <2>1. Same /\ pc = "follow" /\ pc' \in {"extend", "follow"}
    BY <1>3 DEF Follow
  <2> QED
    BY <1>0, <2>1 DEF StackInv, Settled, Shrinks, Shrinks2
<1>4. CASE Extend
  BY <1>0, <1>4 DEF Extend, StackInv, Settled, Shrinks, Shrinks2
<1>5. CASE Push
  <2>1. /\ runs' = Append(runs, [start |-> curr, length |-> len]) /\ pc = "extend"
        /\ pushed' = (IF pushed < 3 THEN pushed + 1 ELSE 3)
        /\ pc' = "finish" \/ (pc' = "count" /\ pushed' < 3) \/ (pc' = "check" /\ ~(pushed' < 3))
    BY <1>5 DEF Push
  <2>2. Len(runs') = Len(runs) + 1 /\ \A k \in 1..Len(runs) : runs'[k] = runs[k]
    BY <2>1, <1>0 DEF TypeInv
  <2>3. CASE pc' = "finish"
    BY <2>3 DEF StackInv
  <2>4. CASE pc' = "count" /\ pushed' < 3
    BY <1>0, <2>1, <2>2, <2>4 DEF StackInv
  <2>5. CASE pc' = "check" /\ ~(pushed' < 3)
    <3>1. pushed' = 3
      BY <1>0, <2>1, <2>5
    <3>2. CASE pushed = 3
      <4>1. Settled(Len(runs))
        BY <1>0, <2>1, <3>2 DEF StackInv
      <4>2. (Len(runs') - 1 <= Len(runs)) /\ (Len(runs') - 1 \in Nat) /\ (Len(runs') - 1 = Len(runs))
        BY <1>0, <2>2
      <4>3. \A i \in 1..(Len(runs) - 1) : runs'[i].length > runs'[i + 1].length
        BY <1>0, <2>2, <4>1 DEF Settled, Shrinks
      <4>4. \A i \in 1..(Len(runs) - 2) : runs'[i].length > runs'[i + 1].length + runs'[i + 2].length
        BY <1>0, <2>2, <4>1 DEF Settled, Shrinks2
      <4>5. Settled(Len(runs) - 1)'
        BY <4>2, <4>3, <4>4 DEF Settled, Shrinks, Shrinks2
      <4> QED
        BY <2>5, <3>1, <4>5 DEF StackInv
    <3>3. CASE pushed # 3
      <4>1. Len(runs') = 3
        BY <1>0, <2>1, <2>2, <3>1, <3>3 DEF StackInv
      <4> QED
        BY <2>5, <3>1, <4>1 DEF StackInv
    <3> QED
      BY <3>2, <3>3
  <2> QED
    BY <2>1, <2>3, <2>4, <2>5
<1>6. CASE Check
  <2>1. Same /\ pc = "check" /\ pushed = 3 /\ (Len(runs) <= 3 \/ Settled(Len(runs) - 1))
    BY <1>6, <1>0 DEF Check, StackInv
  <2>2. CASE CHECK_INVARIANT
    <3>1. Settled(Len(runs))
      BY <1>0, <2>1, <2>2, CheckSettles
    <3>2. pc' = "count"
      BY <1>6, <2>2 DEF Check
    <3> QED
      BY <2>1, <3>1, <3>2 DEF StackInv, Settled, Shrinks, Shrinks2
  <2>3. CASE ~CHECK_INVARIANT
    <3>1. pc' = "collapse"
      BY <1>6, <2>3 DEF Check
    <3>2. /\ \A i \in 1..(Len(runs) - 3) : Shrinks(i)
          /\ \A i \in 1..(Len(runs) - 4) : Shrinks2(i)
      BY <1>0, <2>1 DEF Settled
    <3> QED
      BY <2>1, <3>1, <3>2 DEF StackInv, Shrinks, Shrinks2
  <2> QED
    BY <2>2, <2>3
<1>7. CASE Collapse
  <2>0. pc = "collapse" /\ pushed' = pushed /\ pushed = 3
    BY <1>7, <1>0 DEF Collapse, StackInv
  <2>1. CASE Len(runs) <= 2
    <3>1. pc' = "check" /\ (runs' = runs \/ (Len(runs) = 2 /\ MergeRuns(1)))
      <4>1. \A n \in Nat : n <= 2 => n <= 1 \/ n = 2
        OBVIOUS
      <4>2. Len(runs) <= 1 \/ Len(runs) = 2
        BY <4>1, <1>n, <2>1, Zenon
      <4>3. CASE Len(runs) <= 1
        BY <1>7, <4>3 DEF Collapse
      <4>4. CASE Len(runs) = 2
        BY <1>7, <4>4 DEF Collapse
      <4> QED
        BY <4>2, <4>3, <4>4
    <3>2. Len(runs') <= 3
      <4>1. CASE runs' = runs
        BY <4>1, <2>1, <1>0
      <4>2. CASE Len(runs) = 2 /\ MergeRuns(1)
        <5>1. runs' = MergedRuns(1) /\ 1 \in 1..(Len(runs) - 1) /\ curr' = curr /\ size' = size
          BY <4>2, <1>7 DEF MergeRuns, MergedRuns, Collapse
        <5> QED
          <6>1. Len(runs') = Len(runs) - 1
            BY <5>1, <1>0, MergeKeeps
          <6> QED
            BY <6>1, <4>2
      <4> QED
        BY <3>1, <4>1, <4>2
    <3> QED
      BY <2>0, <3>1, <3>2 DEF StackInv
  <2>2. CASE Len(runs) > 2 /\ ~BCD /\ ~CD
    <3>1. runs' = runs /\ pc' = "check"
      <4>1. \A n \in Nat : n > 2 => ~(n <= 1) /\ n # 2
        OBVIOUS
      <4>2. ~(Len(runs) <= 1) /\ Len(runs) # 2
        BY <4>1, <1>n, <2>2, Zenon
      <4> QED
        BY <1>7, <2>0, <4>2, <2>2, Zenon DEF Collapse
    <3>2. Settled(Len(runs))
      BY <1>0, <2>0, <2>2, CollapseSettles
    <3>3. Settled(Len(runs) - 1)
      BY <1>0, <3>2 DEF Settled
    <3> QED
      BY <2>0, <3>1, <3>3 DEF StackInv, Settled, Shrinks, Shrinks2
  <2>3. CASE Len(runs) > 2 /\ (BCD \/ CD)
    <3> DEFINE at == IF BCD /\ ~CD THEN Len(runs) - 2 ELSE Len(runs) - 1
    <3>1. at \in 1..(Len(runs) - 1) /\ at >= Len(runs) - 2 /\ at \in Nat
      BY <1>0, <2>3
    <3>2. MergeRuns(at) /\ pc' = "collapse" /\ curr' = curr /\ size' = size
      <4>1. \A n \in Nat : n > 2 => ~(n <= 1) /\ n # 2
        OBVIOUS
      <4>2. ~(Len(runs) <= 1) /\ Len(runs) # 2
        BY <4>1, <1>n, <2>3, Zenon
      <4> QED
        BY <1>7, <2>0, <4>2, <2>3, Zenon DEF Collapse
    <3>3. runs' = MergedRuns(at)
      BY <3>2 DEF MergeRuns, MergedRuns
    <3>4. Len(runs') = Len(runs) - 1
      BY <1>0, <3>1, <3>2, <3>3, MergeKeeps
    <3>5. \A k \in 1..(Len(runs) - 3) : runs'[k] = runs[k]
      BY <1>0, <3>1, <3>3 DEF MergedRuns
    <3>6. \A i \in 1..(Len(runs') - 3) : runs'[i].length > runs'[i + 1].length
      BY <1>0, <2>0, <3>4, <3>5 DEF StackInv, Shrinks
    <3>7. \A i \in 1..(Len(runs') - 4) : runs'[i].length > runs'[i + 1].length + runs'[i + 2].length
      BY <1>0, <2>0, <3>4, <3>5 DEF StackInv, Shrinks2
    <3> QED
      BY <2>0, <3>2, <3>6, <3>7 DEF StackInv, Shrinks, Shrinks2
  <2>4. \A n \in Nat : n <= 2 \/ n > 2
    OBVIOUS
  <2>5. Len(runs) <= 2 \/ Len(runs) > 2
    BY <1>0, <2>4, Zenon
  <2> QED
    BY <2>1, <2>2, <2>3, <2>5
<1>8. CASE Finish
  <2>1. pc' \in {"finish", "done"}
    BY <1>8 DEF Finish
  <2> QED
    BY <2>1 DEF StackInv
<1>9. CASE UNCHANGED vars
  BY <1>0, <1>9 DEF vars, StackInv, Settled, Shrinks, Shrinks2
<1> QED
  BY <1>1, <1>2, <1>3, <1>4, <1>5, <1>6, <1>7, <1>8, <1>9 DEF Next

\* For arrays of every length, whenever the next run is looked for, each run on the
\* stack is longer than the next one, and than the next two together, so that the
\* lengths grow at least like the Fibonacci numbers from the top of the stack down.
THEOREM StackStaysShort == Spec => []StackShrinks
<1>1. Init => FullInv
  BY InitTile, InitStack DEF FullInv
<1>2. FullInv /\ [Next]_vars => FullInv'
  BY NextTile, NextStack DEF FullInv
<1>3. FullInv => StackShrinks
  <2> SUFFICES ASSUME FullInv, pc = "count", pushed = 3, NEW i \in 1..(Len(runs) - 1)
               PROVE  /\ runs[i].length > runs[i + 1].length
                      /\ i + 2 <= Len(runs) => runs[i].length > runs[i + 1].length + runs[i + 2].length
    BY DEF StackShrinks
  <2>1. Settled(Len(runs)) /\ Len(runs) \in Nat
    BY DEF FullInv, StackInv, TileInv, TypeInv
  <2> QED
    BY <2>1 DEF Settled, Shrinks, Shrinks2
<1> QED
  BY <1>1, <1>2, <1>3, PTL DEF Spec
=============================================================================
