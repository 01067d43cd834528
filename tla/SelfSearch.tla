----------------------------- MODULE SelfSearch -----------------------------
(***************************************************************************)
(* Mark firsts, Occurrence count, Classify and Deduplicate:                *)
(* builtins/selfsearch.c, with the radix offsets of builtins/radix.h.      *)
(***************************************************************************)
EXTENDS Scans

\* The width of a cell as one number; cells of other widths are padded or compared.
KeyClass(x) ==
  LET b == Csz(x) * WidthOf(x.el)
  IN IF x.el = ElB THEN "cells" ELSE IF b = 1 THEN "bit" ELSE IF b = 2 THEN "narrow"
     ELSE IF b \in 3..4 THEN "wide" ELSE "cells"
\* The bits of an element, or a number for each different cell.
KeysOf(x) == IF Csz(x) = 1 THEN [i \in DOMAIN x.ra |-> IF x.el = ElC8 THEN x.ra[i] - Chr ELSE x.ra[i]]
             ELSE CellKeys(CellsOf(x))

fast_sameness(x) == IF {Asc, Dsc} \subseteq x.fl THEN "same" ELSE "unknown"
use_sorted(x) == x.fl \cap {Asc, Dsc} # {} /\ KeyClass(x) \in {"narrow", "wide"}
shift_ne(s, r0) == Arr(ElBit, <<Len(s)>>, [i \in DOMAIN s |-> IF i = 1 THEN r0 ELSE IF s[i] # s[i - 1] THEN 1 ELSE 0], 0)

\* A table over all values, read and then changed by every element: counted on when inc
\* is 1, set to 0 when it is 0.
LookupAll(s, init, inc) ==
  FoldLeft(LAMBDA st, v : [r |-> Append(st.r, st.t[v]), t |-> [st.t EXCEPT ![v] = inc * (@ + 1)]],
           [r |-> <<>>, t |-> [v \in {s[i] : i \in DOMAIN s} |-> init]], s).r

-----------------------------------------------------------------------------
\* Radix-assisted lookup: numbers are moved into the order of their upper digits, each
\* run of equal upper digits uses the table for the lowest, and the results move back.
LowDigit(v) == v % Radix
MidDigit(v) == (v \div Radix) % Radix
HighDigit(v) == (v \div (Radix * Radix)) % Radix
StartsOf(k) == [d \in 0..(Radix - 1) |-> Cardinality({i \in DOMAIN k : k[i] < d})]

Moved(s, k) == \* s in the order of k; c counts on from where each digit starts
  FoldLeft(LAMBDA st, i : [c |-> [st.c EXCEPT ![k[i]] = @ + 1], r |-> [st.r EXCEPT ![st.c[k[i]] + 1] = s[i]]],
           [c |-> StartsOf(k), r |-> s], [i \in DOMAIN s |-> i])
UnmovedAsIs(r, k, c) == r \* mutant: results stay in sorted order
Unmoved(r, k, c) == \* after the moves c[d] is where digit d + 1 starts
  LET back == [d \in DOMAIN c |-> IF d = 0 THEN 0 ELSE c[d - 1]]
  IN FoldLeft(LAMBDA st, i : [c |-> [st.c EXCEPT ![k[i]] = @ + 1], r |-> Append(st.r, r[st.c[k[i]] + 1])],
              [c |-> back, r |-> <<>>], [i \in DOMAIN r |-> i]).r

\* The table is initialized again where the upper digits change.
SameRun(v, u) == MidDigit(v) = MidDigit(u) /\ HighDigit(v) = HighDigit(u)
RECURSIVE LookupFrom(_, _, _, _, _, _)
LookupFrom(s, i, t, fresh, inc, j) == \* j: the digit looked up at i
  <<t[j]>> \o (IF i = Len(s) THEN <<>>
               ELSE LookupFrom(s, i + 1, IF SameRun(s[i], s[i + 1]) THEN [t EXCEPT ![j] = inc * (@ + 1)] ELSE fresh,
                               fresh, inc, LowDigit(s[i + 1])))
FreshTable(init) == [d \in 0..(Radix - 1) |-> init]
LookupRuns(s, init, inc) == LookupFrom(s, 1, FreshTable(init), FreshTable(init), inc, LowDigit(s[1]))

MidDigits(s) == [i \in DOMAIN s |-> MidDigit(s[i])]
HighDigits(s) == [i \in DOMAIN s |-> HighDigit(s[i])]
Varies(k) == \E i \in DOMAIN k : k[i] # k[1]
\* passes: the digits that vary and are moved by, the upper ones after the middle ones
RadixLookup(s, m1, m2, passes, init, inc) ==
  LET looked == LookupRuns(IF passes = 2 THEN m2.r ELSE IF passes = 1 THEN m1.r ELSE s, init, inc)
  IN IF passes = 0 THEN looked
     ELSE Unmoved(IF passes = 1 THEN looked ELSE Unmoved(looked, HighDigits(m1.r), m2.c), MidDigits(s), m1.c)
RadixLookupFrom(s, m1, init, inc) ==
  RadixLookup(s, m1, Moved(m1.r, HighDigits(m1.r)), IF Varies(HighDigits(s)) THEN 2 ELSE IF Varies(MidDigits(s)) THEN 1 ELSE 0, init, inc)
RADIX_LOOKUP_32(s, init, inc) == RadixLookupFrom(s, Moved(s, MidDigits(s)), init, inc)

\* Every method but the brute comparison of all pairs, which is for short lists.
ByMethod(s, class, how, init, inc) ==
  IF class = "wide" /\ how = "radix" THEN RADIX_LOOKUP_32(s, init, inc) ELSE LookupAll(s, init, inc)
Brute(n, how) == how = "brute" /\ n - 1 <= I8Max

-----------------------------------------------------------------------------
\* Mark firsts.  That all cells turned out the same is remembered in a shared argument.
FirstsOfBits(s) == LET i == FirstAt(s, 1 - s[1]) IN [k \in DOMAIN s |-> IF k = 1 \/ k = i + 1 THEN 1 ELSE 0]
memberOf_c1(x, how) ==
  LET n == x.sh[1]
      s == KeysOf(x)
      bits(b) == Arr(ElBit, <<n>>, b, 0)
      only1 == [i \in 1..n |-> IF i = 1 THEN 1 ELSE 0]
      all == [i \in 1..n |-> IF \A j \in 1..(i - 1) : s[i] # s[j] THEN 1 ELSE 0]
  IN IF x.at \/ Rnk(x) = 0 THEN Err
     ELSE IF n = 0 THEN emptyIVec ELSE IF n = 1 THEN bits(<<1>>)
     ELSE IF Csz(x) = 0 THEN bits(only1)
     ELSE IF KeyClass(x) = "bit" THEN bits(FirstsOfBits(x.ra))
     ELSE IF fast_sameness(x) = "same" THEN bits(only1)
     ELSE IF use_sorted(x) THEN shift_ne(s, 1)
     ELSE IF how = "brute" THEN bits(all)
     ELSE bits(ByMethod(s, KeyClass(x), how, 1, 0))
EndsSame(x) == Rnk(x) = 1 /\ Ia(x) > 1 /\ x.ra[Ia(x)] = x.ra[1] \* mutant: only the ends are compared
AllSameFound(x) ==
  /\ ~x.at /\ Rnk(x) > 0 /\ x.sh[1] > 1 /\ Csz(x) # 0 /\ KeyClass(x) # "bit"
  /\ \/ fast_sameness(x) = "same"
     \/ Rnk(x) = 1 /\ KeyClass(x) = "cells" /\ \A i \in DOMAIN x.ra : x.ra[i] = x.ra[1]

\* Occurrence count
CountBits(s) == [i \in DOMAIN s |-> LET n1 == Sum(SubSeq(s, 1, i - 1)) IN IF s[i] = 1 THEN n1 ELSE i - 1 - n1]
\* In sorted data: the distance to the last element that differs from the one before.
SortedCount(s) == C2("sub", ud_atom(Len(s)), scan_mm_num(TRUE, C2("mul", shift_ne(s, 1), ud_atom(Len(s))), 0))
count_c1(x, how) ==
  LET n == x.sh[1]
      s == KeysOf(x)
      small == IF n <= I8Max + 1 THEN ElI8 ELSE ElInt
  IN IF x.at \/ Rnk(x) = 0 THEN Err
     ELSE IF n = 0 THEN emptyIVec ELSE IF n = 1 THEN Arr(ElBit, <<1>>, <<0>>, 0)
     ELSE IF Csz(x) = 0 THEN ud_atom(n)
     ELSE IF KeyClass(x) = "bit" THEN Arr(small, <<n>>, FitAll(small, CountBits(x.ra)), 0)
     ELSE IF use_sorted(x) /\ how = "sorted" THEN SortedCount(s)
     ELSE IF Brute(n, how) /\ KeyClass(x) # "cells"
     THEN Arr(ElI8, <<n>>, FitAll(ElI8, [i \in 1..n |-> Cardinality({j \in 1..(i - 1) : s[j] = s[i]})]), 0)
     ELSE squeeze_any(Arr(ElInt, <<n>>, ByMethod(s, KeyClass(x), how, 0, 1), 0))

-----------------------------------------------------------------------------
\* Classify
reduceI32WidthBelow(s, after) ==
  LET el == IF after <= 2 THEN ElBit ELSE IF after <= I8Max + 1 THEN ElI8 ELSE ElInt IN Arr(el, <<Len(s)>>, FitAll(el, s), 0)
DOTAB(s) ==
  LET n == Len(s)
      step(st, v) == LET new == st.t[v] = n
                         t == IF new THEN [st.t EXCEPT ![v] = st.u] ELSE st.t
                     IN [r |-> Append(st.r, t[v]), t |-> t, u |-> st.u + (IF new THEN 1 ELSE 0)]
  IN FoldLeft(step, [r |-> <<>>, t |-> [v \in {s[i] : i \in DOMAIN s} |-> n], u |-> 0], s)
BruteClasses(s) ==
  FoldLeft(LAMBDA st, v : [uniq |-> IF FirstAt(st.uniq, v) = Len(st.uniq) THEN Append(st.uniq, v) ELSE st.uniq,
                           r |-> Append(st.r, FirstAt(st.uniq, v))],
           [uniq |-> <<>>, r |-> <<>>], s).r
indexOf_c1(x, how) ==
  LET n == x.sh[1]
      s == KeysOf(x)
      d == DOTAB(s)
      zeros == FlSet(Arr(ElBit, <<n>>, Rep(n, 0), 0), {Asc, Dsc, Squoze})
  IN IF x.at \/ Rnk(x) = 0 THEN Err
     ELSE IF n = 0 THEN emptyIVec
     ELSE IF n = 1 \/ Csz(x) = 0 THEN zeros
     ELSE IF KeyClass(x) = "bit" THEN shape_c1(IF x.ra[1] = 1 THEN bit_negate(x) ELSE x, FALSE)
     ELSE IF use_sorted(x) /\ how = "sorted" THEN scan_add_bool(shift_ne(s, 0), 0)
     ELSE IF Brute(n, how) /\ KeyClass(x) # "cells" THEN Arr(ElI8, <<n>>, FitAll(ElI8, BruteClasses(s)), 0)
     ELSE reduceI32WidthBelow(d.r, d.u)

\* Deduplicate
find_c1(x, how) ==
  LET s == FirstsOfBits(x.ra)
      two == \E i \in DOMAIN x.ra : x.ra[i] # x.ra[1]
      \* 2 ^ -x0: a bit for each value, the first value first
      pair == IF two THEN <<x.ra[1], 1 - x.ra[1]>> ELSE <<x.ra[1]>>
  IN IF x.at \/ Rnk(x) = 0 THEN Err
     ELSE IF x.sh[1] <= 1 THEN x
     ELSE IF Ia(x) = 0 \/ fast_sameness(x) = "same" THEN take_c2(1, x)
     ELSE IF x.el = ElBit /\ Rnk(x) = 1 THEN Arr(ElBit, <<Len(pair)>>, pair, 0)
     ELSE slash_c2(memberOf_c1(x, how), x)
=============================================================================
