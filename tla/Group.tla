-------------------------------- MODULE Group --------------------------------
(***************************************************************************)
(* Group and Group Indices: builtins/group.c, as built without SIMD.       *)
(* A list of groups is a sequence of arrays, in a record.                  *)
(***************************************************************************)
EXTENDS Sorts

CONSTANTS ChunkFrom,  \* more cells than this may be moved in chunks (64),
          ChunkRatio, \* if the numbers change this many times fewer than there is to move (32)
          FilterFrom, \* of more cells than this those without a group may be removed first (32),
          FilterRatio \* if they are more than one in so many (16)

ASSUME GroupAssumption == {ChunkRatio, FilterRatio} \subseteq Nat \ {0} /\ {ChunkFrom, FilterFrom} \subseteq Nat

Groups(s) == [groups |-> s]
CellOf(x, i) == SubSeq(x.ra, (i - 1) * Csz(x) + 1, i * Csz(x))
CellsAt(x, is) == FlattenSeq([k \in DOMAIN is |-> CellOf(x, is[k])])
Leading(s, v) == Cardinality({i \in DOMAIN s : \A j \in 1..i : s[j] = v})

\* What the first pass over the numbers finds: how many groups there are, and how the
\* numbers lie.  Numbers marked as sorted are read at their ends only.
IntStatistics(w, xn) ==
  LET s == SubSeq(w.ra, 1, xn)
      before(i) == IF i = 1 THEN -1 ELSE s[i - 1]
      marked == Asc \in w.fl /\ xn > 0
      neg == IF marked THEN Leading(s, -1) ELSE Cardinality({i \in DOMAIN s : s[i] = -1})
      extra == IF Ia(w) > xn THEN w.ra[xn + 1] ELSE 0
      top == IF marked THEN s[xn] ELSE FoldLeft(MaxOf, -1, s)
  IN [ria |-> MaxOf(extra, top + 1),
      bad |-> extra < -1 \/ (IF marked THEN s[1] < -1 ELSE \E i \in DOMAIN s : s[i] < -1),
      neg |-> neg,
      sort |-> marked \/ \A i \in DOMAIN s : before(i) <= s[i],
      change |-> IF ~marked THEN Cardinality({i \in DOMAIN s : s[i] # before(i)})
                 ELSE IF neg = xn THEN 0 ELSE 1 + s[xn] - s[neg + 1]]

BitStatistics(w, xn) ==
  LET s == SubSeq(w.ra, 1, xn)
      marked == w.fl \cap {Asc, Dsc} # {}
      top == IF ~marked THEN FoldLeft(MaxOf, 0, s) ELSE IF Dsc \in w.fl THEN s[1] ELSE s[xn]
  IN [ria |-> IF xn # 0 THEN 1 + top ELSE IF Ia(w) > 0 THEN w.ra[1] ELSE 0,
      bad |-> FALSE, neg |-> 0, sort |-> marked, change |-> 0]

-----------------------------------------------------------------------------
\* Bits, some of them 1: two pieces of x when they are sorted, else two replications.
bit_groups(w, x, xn, sort) ==
  LET s == SubSeq(w.ra, 1, xn)
      dn == Dsc \in w.fl
      l == Leading(s, IF dn THEN 1 ELSE 0)
      halves == <<take_c2(l, x), drop_c2(l, x)>>
      those(v) == slash_c2(Arr(ElBit, <<xn>>, [i \in DOMAIN s |-> IF s[i] = v THEN 1 ELSE 0], 0), x)
  IN IF sort THEN Groups(IF dn THEN Reverse(halves) ELSE halves)
     ELSE Groups([n \in 1..2 |-> those(n - 1)])

\* A group made of a copy of cells; one of no cells is the fill z.
Copied(x, z, cells) == IF cells = <<>> THEN z ELSE Arr(x.el, <<Len(cells)>> \o Tail(x.sh), CellsAt(x, cells), x.fill)

\* Runs of one number, moved together.  A number that comes in one run only is a slice
\* of x if all of them are.
chunk_groups(s, x, z, ria) ==
  LET starts == SelectSeq([i \in DOMAIN s |-> i], LAMBDA i : s[i] # (IF i = 1 THEN -1 ELSE s[i - 1]))
      end(k) == IF k = Len(starts) THEN Len(s) ELSE starts[k + 1] - 1
      of(n) == SelectSeq([k \in DOMAIN starts |-> k], LAMBDA k : s[starts[k]] = n)
      cells(n) == FlattenSeq([j \in DOMAIN of(n) |-> [i \in 1..(end(of(n)[j]) - starts[of(n)[j]] + 1) |-> starts[of(n)[j]] + i - 1]])
  IN Groups([n \in 1..ria |-> Copied(x, z, cells(n - 1))])

\* The lengths of the groups; a group's place in x when the numbers are sorted.
GroupLen(s, n) == Cardinality({i \in DOMAIN s : s[i] = n})
PartsFromStart(s, x, z, ria, neg) == \* mutant: cells without a group are not skipped
  LET from(n) == Cardinality({i \in DOMAIN s : s[i] \in 0..(n - 1)})
  IN Groups([n \in 1..ria |-> Copied(x, z, [i \in 1..GroupLen(s, n - 1) |-> from(n - 1) + i])])
sorted_groups(s, x, z, ria, neg) ==
  LET from(n) == neg + Cardinality({i \in DOMAIN s : s[i] \in 0..(n - 1)})
  IN Groups([n \in 1..ria |-> Copied(x, z, [i \in 1..GroupLen(s, n - 1) |-> from(n - 1) + i])])

\* Cell by cell, each to the end of its group.
Moved(s, ria) ==
  FoldLeft(LAMBDA g, i : IF s[i] < 0 THEN g ELSE [g EXCEPT ![s[i] + 1] = Append(@, i)],
           Rep(ria, <<>>), [i \in DOMAIN s |-> i])
moved_groups(s, x, z, ria) == LET g == Moved(s, ria) IN Groups([n \in 1..ria |-> Copied(x, z, g[n])])
\* Into arrays of the general type, also for groups of no cells.
generic_groups(s, x, ria) ==
  LET g == Moved(s, ria)
  IN Groups([n \in 1..ria |-> Arr(ElB, <<Len(g[n])>> \o Tail(x.sh), CellsAt(x, g[n]), x.fill)])

\* Sizes of cells that are moved as a machine word.
CpuSized(x) == x.el \notin {ElB, ElBit} /\ Csz(x) \in {1, 2}

\* Numbers of which some are not negative.
with_groups(s, x, z, ria, sort, neg) ==
  IF Csz(x) = 0 THEN Groups([n \in 1..ria |-> IF GroupLen(s, n - 1) = 0 THEN z ELSE emptyArr(x, <<GroupLen(s, n - 1)>> \o Tail(x.sh))])
  ELSE IF x.el # ElB /\ sort THEN sorted_groups(s, x, z, ria, neg)
  ELSE IF CpuSized(x) \/ (x.el = ElBit /\ Csz(x) = 1) THEN moved_groups(s, x, z, ria)
  ELSE generic_groups(s, x, ria)
int_groups(s, x, z, st, filter) ==
  with_groups(IF filter THEN SelectSeq(s, LAMBDA v : v # -1) ELSE s,
              IF filter THEN slash_c2(Arr(ElBit, <<Len(s)>>, [i \in DOMAIN s |-> IF s[i] # -1 THEN 1 ELSE 0], 0), x) ELSE x,
              z, st.ria, st.sort, IF filter THEN 0 ELSE st.neg)

group_by(w, x, xn, st) ==
  LET s == SubSeq(w.ra, 1, xn)
      z == emptyArr(x, <<0>> \o Tail(x.sh))
      chunks == xn > ChunkFrom /\ x.el # ElB /\ st.change < (xn * MaxOf(Csz(x), 1)) \div ChunkRatio
      filter == xn > FilterFrom /\ st.neg > (IF x.el = ElBit THEN 0 ELSE xn \div FilterRatio)
  IN IF st.bad THEN Err
     ELSE IF st.ria > UszMax THEN Err
     ELSE IF st.ria = 0 THEN Groups(<<>>)
     ELSE IF st.ria = 1 /\ st.neg = 0 THEN Groups(<<x>>)
     ELSE IF w.el = ElBit THEN bit_groups(w, x, xn, st.sort)
     ELSE IF st.neg = xn THEN Groups(Rep(st.ria, z))
     ELSE IF chunks /\ Csz(x) # 0 THEN chunk_groups(s, x, z, st.ria)
     ELSE int_groups(s, x, z, st, filter)
group_simple(w, x, xn) == group_by(w, x, xn, IF w.el = ElBit THEN BitStatistics(w, xn) ELSE IntStatistics(w, xn))

-----------------------------------------------------------------------------
\* An array of numbers stands for the leading axes of x, which become one.
group_arr(w, x) ==
  LET k == Rnk(w)
      x1 == IF k = 1 THEN x ELSE Reshaped(FlKeep(x, {}), <<Ia(w)>> \o SubSeq(x.sh, k + 1, Rnk(x)))
  IN IF k = 1 /\ Ia(w) - x.sh[1] \notin {0, 1} THEN Err
     ELSE IF k # 1 /\ w.sh # SubSeq(x.sh, 1, k) THEN Err
     ELSE group_simple(IF k = 1 THEN w ELSE shape_c1(w, FALSE), x1, x1.sh[1])

\* w may also be a list of one array.
group_c2(w0, x) ==
  LET w == IF "items" \in DOMAIN w0 THEN w0.items[1] ELSE w0
      w1 == IF w.el <= ElInt THEN w ELSE squeeze_try(w, TRUE)
  IN IF x.at THEN Err
     ELSE IF "items" \in DOMAIN w0 /\ (Len(w0.items) # 1 \/ Rnk(x) = 0) THEN Base
     ELSE IF w.at \/ Rnk(w) > Rnk(x) THEN Base
     ELSE IF w1.el > ElInt THEN Base
     ELSE group_arr(w1, x)

\* The indices of x are grouped by its elements.
group_c1(x) ==
  LET y == IF x.el <= ElInt THEN x ELSE squeeze_try(x, TRUE)
  IN IF x.at \/ Rnk(x) # 1 THEN Base ELSE IF y.el > ElInt THEN Base ELSE group_c2(y, ud_atom(Ia(x)))
=============================================================================
