----------------------------- MODULE Programs -----------------------------
(***************************************************************************)
(* A program that calls primitives one after the other on the array it     *)
(* holds: a call is one action, and its result, when it is small enough,   *)
(* is the argument of the next call, with the element type, the fill and   *)
(* the flags the code gave it.                                             *)
(***************************************************************************)
EXTENDS Arrays

CONSTANTS Seeds,         \* the arrays a program starts from
          MaxSteps,      \* calls in a row
          MaxIa, MaxRank \* the largest result that is kept

ASSUME ProgramsAssumption == MaxSteps \in Nat /\ MaxIa \in Nat /\ MaxRank \in Nat

VARIABLES arr,  \* the argument
          call, \* the call made on it and its result
          steps
vars == <<arr, call, steps>>

Idle == [fn |-> "idle"]
Did(fn, w, r) == [fn |-> fn, w |-> w, res |-> r]

Init == arr \in Seeds /\ call = Idle /\ steps = 0
Call(fn, w, r) == call = Idle /\ call' = Did(fn, w, r) /\ UNCHANGED <<arr, steps>>

\* The result becomes the array held.
Keep == /\ call # Idle /\ steps < MaxSteps
        /\ ~IsErr(call.res)
        /\ Ia(call.res) <= MaxIa /\ Rnk(call.res) <= MaxRank
        /\ arr' = call.res /\ call' = Idle /\ steps' = steps + 1

\* What is held is an array its type can hold, with flags that are true of it.
Proper(x) == /\ Len(x.ra) = Prod(x.sh)
             /\ \A k \in DOMAIN x.ra : x.ra[k] # Clobbered /\ ElOr(x.el, SelfElType(x.ra[k])) = x.el
             /\ x.fill = TypedFill(x.el, x.fill)
FlagsHold(x) ==
  /\ (Squoze \in x.fl /\ x.ra # <<>>) => x.el = SmallestEl(x.ra)
  /\ Rnk(x) = 1 => \A k \in 1..(Ia(x) - 1) : /\ Asc \in x.fl => x.ra[k] <= x.ra[k + 1]
                                             /\ Dsc \in x.fl => x.ra[k] >= x.ra[k + 1]

\* An array, returned or held on to, is marked squeezed, ascending or descending only
\* when it is (validate_flags, core/h.h:628): sorting, searching and squeezing skip
\* their work on the word of a flag.
FlagsTrue == FlagsHold(arr) /\ ((call # Idle /\ ~IsErr(call.res)) => FlagsHold(call.res))

\* Every array a primitive returns has as many elements as its shape says, each of
\* them written, in a type that holds it, and its flags are true.
ResultsProper == FlagsTrue /\ ((call # Idle /\ ~IsErr(call.res)) => Proper(call.res))
=============================================================================
