------------------------------ MODULE BuddyMC ------------------------------
(***************************************************************************)
(* Instances of Buddy for TLC.  Sizes are in units of the smallest block.   *)
(***************************************************************************)
EXTENDS Buddy

\* opt/mm_buddy.c: BSZ(X) = 1<<X
PowersOfTwo == [b \in 0 .. MaxBucket |-> 2 ^ b]
\* the second template of opt/mm_2buddy.c: BSZ(X) = 3<<X
ThreeTimes == [b \in 0 .. MaxBucket |-> 3 * 2 ^ b]

TwoBases == {0, 10}
=============================================================================
