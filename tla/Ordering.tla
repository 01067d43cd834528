----------------------------- MODULE Ordering -----------------------------
(***************************************************************************)
(* The order of values of any shape: builtins/compare.c.                   *)
(***************************************************************************)
EXTENDS Arrays

ICMP(a, b) == IF a < b THEN -1 ELSE IF a > b THEN 1 ELSE 0

\* An atom comes before an array of it.
CompareAtom(v, x) == IF Ia(x) = 0 THEN 1 ELSE IF v <= x.ra[1] THEN -1 ELSE 1

\* The axes that agree, from the last; the first that does not decides about arrays
\* that agree on the elements both have in the same place.
LastAxes(y, n) == SubSeq(y.sh, Rnk(y) - n + 1, Rnk(y))
AgreeFrom(w, x, n) == LastAxes(w, n) = LastAxes(x, n)
CompareFrom(w, x, ri) ==
  LET wr == Rnk(w)  xr == Rnk(x)  rr == MinOf(wr, xr)
      tail == Prod(SubSeq(w.sh, wr - ri + 1, wr))
      rc == IF ri < rr THEN ICMP(w.sh[wr - ri], x.sh[xr - ri]) ELSE ICMP(wr, xr)
      rm == IF ri < rr THEN tail * MinOf(w.sh[wr - ri], x.sh[xr - ri]) ELSE tail
      differ == SelectSeq([i \in 1..rm |-> i], LAMBDA i : w.ra[i] # x.ra[i])
  IN IF Ia(w) = 0 \/ Ia(x) = 0 THEN (IF Ia(w) # Ia(x) THEN ICMP(Ia(w), Ia(x)) ELSE rc)
     ELSE IF differ = <<>> THEN rc ELSE ICMP(w.ra[differ[1]], x.ra[differ[1]])

CompareArrays(w, x) ==
  CompareFrom(w, x, CHOOSE n \in 0..MinOf(Rnk(w), Rnk(x)) :
                      AgreeFrom(w, x, n) /\ (n < MinOf(Rnk(w), Rnk(x)) => ~AgreeFrom(w, x, n + 1)))

compareF(w, x) == IF w.at /\ x.at THEN ICMP(w.ra[1], x.ra[1])
                  ELSE IF w.at THEN CompareAtom(w.ra[1], x)
                  ELSE IF x.at THEN -CompareAtom(x.ra[1], w)
                  ELSE CompareArrays(w, x)

=============================================================================
