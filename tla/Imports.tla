------------------------------- MODULE Imports -------------------------------
(***************************************************************************)
(* •Import and its cache, which is a •HashMap from absolute paths to       *)
(* results (builtins/sysfn.c:829-865, vm/load.c:134-136,487-492).          *)
(*                                                                         *)
(* A file that is being imported has a mark in the cache.  Between putting *)
(* the mark there and taking it away the file's code runs, which imports   *)
(* other files, catches errors and throws them.                            *)
(***************************************************************************)
EXTENDS HashMap

CONSTANTS
  Running,        \* tag_running
  Paths,
  MaxDepth        \* bound: imports running at once

ASSUME PathsAssumption == Paths \subseteq Keys /\ Running \in Vals

VARIABLES
  cache,          \* the HashMap at re_map: its table and lists
  importing,      \* the imports that run, innermost last
  thrown          \* an error is on its way out
importVars == <<hash, cache, importing, thrown>>

Results == Vals \ {Running}
Cached(p) == Lookup(cache, p, None)
Put(t, p, v) ==
  IF Matches(t, p) # {} THEN Replace(t, p, v)
  ELSE [Enter(t, p).t EXCEPT !.keys = Append(@, p), !.vals = Append(@, v)]

ImportInit ==
  /\ hash \in HashFunctions
  /\ cache = NewMap /\ importing = <<>> /\ thrown = FALSE

\* import_c1 up to the call of bqn_execFileRe.  A result in the cache is
\* returned, which changes nothing.  Bound: the cache has room for the mark.
ImportStarts(p) ==
  /\ ~thrown /\ Cached(p) = None
  /\ Len(importing) < MaxDepth /\ Len(cache.keys) < MaxList
  /\ Put(cache, p, Running).level # 0
  /\ cache' = Put(cache, p, Running)
  /\ importing' = Append(importing, [path |-> p, kept |-> TRUE])
  /\ UNCHANGED <<hash, thrown>>

\* "cyclic import"
ImportCyclic(p) ==
  /\ ~thrown /\ Cached(p) = Running
  /\ thrown' = TRUE
  /\ UNCHANGED <<hash, cache, importing>>

\* import_c2: with arguments, a file is executed again every time, and the
\* cache is not looked at.
ImportWithArgs(p) ==
  /\ ~thrown /\ Len(importing) < MaxDepth
  /\ importing' = Append(importing, [path |-> p, kept |-> FALSE])
  /\ UNCHANGED <<hash, cache, thrown>>

\* The file's code has run to its end, with result r.
ImportEnds(r) ==
  /\ ~thrown /\ importing # <<>>
  /\ cache' = IF Last(importing).kept THEN Put(cache, Last(importing).path, r) ELSE cache
  /\ importing' = Front(importing)
  /\ UNCHANGED <<hash, thrown>>

\* The file cannot be read or compiled, or its code throws.
FileThrows ==
  /\ ~thrown /\ importing # <<>>
  /\ thrown' = TRUE
  /\ UNCHANGED <<hash, cache, importing>>

\* mutant: the mark stays when a file throws
FailsMarked ==
  /\ thrown /\ importing # <<>>
  /\ importing' = Front(importing)
  /\ UNCHANGED <<hash, cache, thrown>>

\* The error leaves the file; import_c1 deletes the mark and throws it again.
ImportFails ==
  /\ thrown /\ importing # <<>>
  /\ cache' = IF Last(importing).kept THEN Delete(cache, Last(importing).path) ELSE cache
  /\ importing' = Front(importing)
  /\ UNCHANGED <<hash, thrown>>

\* A ⎊ in the innermost file, or the session's line, takes the error.
Caught ==
  /\ thrown /\ thrown' = FALSE
  /\ UNCHANGED <<hash, cache, importing>>

\* The command )clearImportCache, between two lines.
ClearImportCache ==
  /\ importing = <<>> /\ ~thrown
  /\ cache' = NewMap
  /\ UNCHANGED <<hash, importing, thrown>>

ImportNext ==
  \/ \E p \in Paths : ImportStarts(p) \/ ImportCyclic(p) \/ ImportWithArgs(p)
  \/ \E r \in Results : ImportEnds(r)
  \/ FileThrows \/ ImportFails \/ Caught \/ ClearImportCache

ImportSpec == ImportInit /\ [][ImportNext]_importVars
-----------------------------------------------------------------------------
\* The cache marks a file as running exactly while it is imported: an import
\* that failed can be tried again, whichever way the error went, and a file
\* that imports itself is told so instead of running for ever.
MarksRight ==
  \A p \in Paths :
    LET running == {n \in DOMAIN importing : importing[n].kept /\ importing[n].path = p}
    IN Cardinality(running) = IF Cached(p) = Running THEN 1 ELSE 0

=============================================================================
