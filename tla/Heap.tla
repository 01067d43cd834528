------------------------------- MODULE Heap -------------------------------
(***************************************************************************)
(* What an allocator of CBQN promises to the rest of the program, whatever *)
(* its layout: a set of live regions that never overlap, a request that is *)
(* answered with a region of the size asked for or refused, and a          *)
(* collection during which regions only disappear.                         *)
(***************************************************************************)
EXTENDS Integers

CONSTANT Sizes    \* the byte sizes that regions have

VARIABLES
  live,    \* the regions, [start, len], that belong to objects
  want,    \* the size of the request being served, 0 when there is none
  gc       \* a collection is running

vars == <<live, want, gc>>

Apart(r, s) == r.start + r.len =< s.start \/ s.start + s.len =< r.start

Init == live = {} /\ want = 0 /\ gc = FALSE

Request(n) ==
  /\ want = 0 /\ ~gc
  /\ want' = n
  /\ UNCHANGED <<live, gc>>

\* the answer lies apart from everything that is live
Grant ==
  /\ want # 0 /\ ~gc
  /\ \E r \in live' :
       /\ r.len = want
       /\ \A s \in live : Apart(r, s)
       /\ live' = live \cup {r}
  /\ want' = 0
  /\ UNCHANGED gc

\* an exception instead of an answer
Refuse ==
  /\ want # 0 /\ ~gc
  /\ want' = 0
  /\ UNCHANGED <<live, gc>>

\* by the program between requests, or by the collector
Release ==
  /\ want = 0 \/ gc
  /\ \E r \in live : live' = live \ {r}
  /\ UNCHANGED <<want, gc>>

\* a collection may run between requests and while one is served
Start == ~gc /\ gc' = TRUE /\ UNCHANGED <<live, want>>
Stop  == gc /\ gc' = FALSE /\ UNCHANGED <<live, want>>

Next ==
  \/ \E n \in Sizes : Request(n)
  \/ Grant
  \/ Refuse
  \/ Release
  \/ Start
  \/ Stop

Spec == Init /\ [][Next]_vars

=============================================================================
