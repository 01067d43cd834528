------------------------------ MODULE SysFnsMC -------------------------------
(***************************************************************************)
(* Instances of HashMap, Imports and Shell for TLC.  They share nothing but *)
(* the secret of the hashes, so a behaviour is one of the three: `part`    *)
(* says which, and the other two stay where they are.                      *)
(***************************************************************************)
EXTENDS Imports, Shell

VARIABLE part
vars == <<mapVars, importVars, shVars, part>>

\* Hashes of four bits.  In the first two keys are equal in all bits and run
\* past the last home; in the second all share their first two bits; in the
\* third there are two homes at a distance and one collision.
Hashes == {[k1 |-> 15, k2 |-> 15, k3 |-> 14, k4 |-> 0],
           [k1 |-> 2, k2 |-> 3, k3 |-> 2, k4 |-> 3],
           [k1 |-> 0, k2 |-> 2, k3 |-> 5, k4 |-> 5]}

NoMap    == tab = NewMap /\ shared = {} /\ spoiled = FALSE /\ res = Done
NoImport == cache = NewMap /\ importing = <<>> /\ thrown = FALSE
NoShell  == /\ at = "done" /\ revents = [f \in {"in", "out", "err"} |-> {}]
            /\ iLen = 0 /\ iOff = 0 /\ iDone = TRUE
            /\ got = [f \in Outputs |-> 0] /\ fds = {} /\ theirs = {}
            /\ pipe = [f \in {"in", "out", "err"} |-> 0]
            /\ child = [alive |-> FALSE, open |-> {}, want |-> "end", read |-> 0,
                        eof |-> TRUE, made |-> [f \in Outputs |-> 0]]
            /\ cut = "no" /\ status = "right"

Init ==
  \/ part = "map" /\ MapInit /\ NoImport /\ NoShell
  \/ part = "import" /\ ImportInit /\ NoMap /\ NoShell
  \/ part = "shell" /\ ShInit /\ NoMap /\ NoImport /\ hash = CHOOSE h \in HashFunctions : TRUE

Next ==
  \/ part = "map" /\ MapNext /\ UNCHANGED <<cache, importing, thrown, shVars, part>>
  \/ part = "import" /\ ImportNext /\ UNCHANGED <<tab, shared, spoiled, res, shVars, part>>
  \/ part = "shell" /\ ShNext /\ UNCHANGED <<mapVars, importVars, part>>

Spec == Init /\ [][Next]_vars /\ ShFair

\* The map alone, where memory may run out.
InitOOM == part = "map" /\ MapInit /\ NoImport /\ NoShell
NextOOM == part = "map" /\ MapNextOOM /\ UNCHANGED <<cache, importing, thrown, shVars, part>>
SpecOOM == InitOOM /\ [][NextOOM]_vars

\* What a call of the map returned matters to the next state only.
View == <<hash, tab, shared, spoiled, cache, importing, thrown, shVars, part>>
=============================================================================
