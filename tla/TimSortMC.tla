----------------------------- MODULE TimSortMC -----------------------------
(***************************************************************************)
(* Arrays of three keys up to length 6, of two keys up to length 10, and   *)
(* sawtooth arrays whose runs bring the stack near its limits; each        *)
(* element carries its position in the input as its value.                 *)
(***************************************************************************)
EXTENDS TimSort, SequencesExt

Numbered(keys) == [k \in DOMAIN keys |-> <<keys[k], k>>]
Some(n, K) == {Numbered(f) : f \in [1..n -> K]}
Teeth(ls) == FoldLeft(LAMBDA s, l : s \o [k \in 1..l |-> k], <<>>, ls)
Lens == {<<a, b, c, d, e, f>> : a \in {17, 23}, b \in {9, 16}, c \in {3, 6}, d \in {3, 5}, e \in {4, 5}, f \in {5, 8}}
MCInputs == UNION {Some(n, 0..2) : n \in 0..6} \cup UNION {Some(n, 0..1) : n \in 7..10} \cup {Numbered(Teeth(ls)) : ls \in Lens}
=============================================================================
