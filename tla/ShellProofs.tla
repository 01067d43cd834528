---------------------------- MODULE ShellProofs ----------------------------
(***************************************************************************)
(* Proofs about Shell, for every input, capacity of the pipes, program     *)
(* that runs as the child, and number of signals.                          *)
(***************************************************************************)
EXTENDS Shell, TLAPS

-----------------------------------------------------------------------------
(* The inductive invariant *)

Pipes == {"in", "out", "err"}
Places == {"start", "poll", "out", "err", "in", "check", "close", "wait"} \cup Over
Children ==
  [alive : BOOLEAN, open : SUBSET Pipes, want : Pipes \cup {"start", "any", "end"},
   read : Nat, eof : BOOLEAN, made : [Outputs -> Nat]]

Types ==
  /\ at \in Places
  /\ revents \in [Pipes -> SUBSET {"IN", "OUT", "ERR", "HUP"}]
  /\ iLen \in Nat /\ iOff \in Nat /\ iOff <= iLen /\ iDone \in BOOLEAN
  /\ got \in [Outputs -> Nat]
  /\ fds \subseteq Pipes /\ theirs \subseteq Pipes
  /\ pipe \in [Pipes -> Nat] /\ \A f \in Pipes : pipe[f] <= Cap
  /\ child \in Children
  /\ cut \in {"no", "ALRM", "INT"} /\ status \in {"unset", "right"}

\* the child writes only to what it has not closed; cat closes nothing
WritesOpen ==
  /\ child.want \in Outputs => child.want \in child.open
  /\ IsCat /\ child.alive => child.open = Pipes

\* the poll before has reported f, and f has yet to be read
Unread(f) == at = "out" \/ (at = "err" /\ f = "err")

\* What the last poll reported as having no writer has none, and what was in
\* the pipe then is read, a buffer at a time, before the end of the loop is
\* decided; unless a read throws.
HupRight ==
  \A f \in Outputs :
    "HUP" \in revents[f] /\ at # "failed" =>
      f \notin child.open /\ (pipe[f] = 0 \/ (Unread(f) /\ "IN" \in revents[f]))

\* the loop was left because both outputs had no writer
LeftRight ==
  at \in {"close", "wait", "done"} /\ cut = "no" => \A f \in Outputs : "HUP" \in revents[f]

\* which ends of the pipes are open where
EndsRight ==
  /\ at = "start" => ~iDone /\ ~HasStarted /\ \A f \in Outputs : revents[f] = {}
  /\ at \in {"poll", "out", "err", "in", "check", "close", "killed"} =>
       HasStarted /\ ("in" \in fds <=> ~iDone) /\ Outputs \subseteq fds
  /\ at \in {"wait", "done"} => HasStarted /\ fds = {}
  /\ at = "failed" /\ HasStarted => ("in" \in fds <=> ~iDone) /\ Outputs \subseteq fds
  /\ at = "failed" /\ ~HasStarted => fds = theirs

\* the child's ends are closed as soon as there is one, and status is set by the
\* wait for it
TheirsRight ==
  /\ HasStarted => theirs = {}
  /\ child.alive => HasStarted
  /\ at # "done" => status = "unset"
  /\ at = "done" => status = "right" \/ cut = "INT"

ShInv == Types /\ BytesConserved /\ WritesOpen /\ HupRight /\ LeftRight /\ EndsRight /\ TheirsRight

-----------------------------------------------------------------------------
(* The steps *)

LEMMA InitInv == ShInit => ShInv
<1> SUFFICES ASSUME ShInit PROVE ShInv
  OBVIOUS
<1>1. /\ at = "start" /\ revents = [f \in Pipes |-> {}] /\ iLen \in Lengths /\ iOff = 0
      /\ iDone = FALSE /\ got = [f \in Outputs |-> 0] /\ fds = {} /\ theirs = {}
      /\ pipe = [f \in Pipes |-> 0] /\ cut = "no" /\ status = "unset"
      /\ child = [alive |-> FALSE, open |-> {}, want |-> "start",
                  read |-> 0, eof |-> FALSE, made |-> [f \in Outputs |-> 0]]
  BY DEF ShInit, Pipes
<1>2. \A f \in Outputs : f \in Pipes
  BY DEF Outputs, Pipes
<1>3. child \in Children /\ child.read = 0 /\ child.open = {} /\ child.want = "start"
      /\ ~child.alive /\ \A f \in Outputs : child.made[f] = 0
  BY <1>1 DEF Children
<1>4. Types
  <2>1. revents \in [Pipes -> SUBSET {"IN", "OUT", "ERR", "HUP"}]
    BY <1>1
  <2>2. got \in [Outputs -> Nat] /\ pipe \in [Pipes -> Nat] /\ \A f \in Pipes : pipe[f] <= Cap
    BY <1>1, PipeAssumption
  <2>3. iLen \in Nat /\ iOff \in Nat /\ iOff <= iLen /\ iDone \in BOOLEAN
    <3>1. iLen \in Nat /\ iOff = 0
      BY <1>1, PipeAssumption, Zenon
    <3>2. iDone \in BOOLEAN
      BY <1>1, Zenon
    <3> QED
      BY <3>1, <3>2
  <2>4. at \in Places /\ fds \subseteq Pipes /\ theirs \subseteq Pipes /\ cut \in {"no", "ALRM", "INT"}
        /\ status \in {"unset", "right"}
    BY <1>1 DEF Places
  <2> QED
    BY <1>3, <2>1, <2>2, <2>3, <2>4 DEF Types
<1>5. BytesConserved
  BY <1>1, <1>2, <1>3 DEF BytesConserved, Pipes
<1>6. WritesOpen /\ HupRight /\ LeftRight /\ EndsRight /\ TheirsRight
  BY <1>1, <1>2, <1>3 DEF WritesOpen, HupRight, LeftRight, EndsRight, TheirsRight, HasStarted, Outputs
<1> QED
  BY <1>4, <1>5, <1>6 DEF ShInv

\* A step of the parent that reads and writes nothing and leaves the child alone.
LEMMA QuietInv ==
  ASSUME ShInv, UNCHANGED <<iLen, iOff, iDone, got, pipe>>,
         child' = child, at' \in Places, cut' \in {"no", "ALRM", "INT"},
         status' \in {"unset", "right"}, fds' \subseteq Pipes, theirs' \subseteq Pipes,
         HupRight', LeftRight', EndsRight', TheirsRight',
         revents' \in [Pipes -> SUBSET {"IN", "OUT", "ERR", "HUP"}]
  PROVE  ShInv'
BY DEF ShInv, Types, BytesConserved, WritesOpen

LEMMA PollInv == ASSUME ShInv, Poll PROVE ShInv'
<1>1. /\ at = "poll" /\ at' = "out" /\ revents' = Events
      /\ UNCHANGED <<iLen, iOff, iDone, got, fds, theirs, pipe, child, cut, status>>
  BY DEF Poll
<1>2. Events \in [Pipes -> SUBSET {"IN", "OUT", "ERR", "HUP"}]
  BY DEF Events, Pipes
<1>3. \A f \in Outputs : /\ "HUP" \in Events[f] => f \notin child.open
                         /\ "IN" \in Events[f] <=> pipe[f] > 0
  BY DEF Events, Outputs
<1>4. HupRight'
  <2>1. \A f \in Outputs : pipe[f] \in Nat
    BY DEF ShInv, Types, Outputs, Pipes
  <2> QED
    BY <1>1, <1>3, <2>1 DEF HupRight, Unread
<1>5. LeftRight' /\ EndsRight' /\ TheirsRight' /\ at' \in Places
  BY <1>1 DEF ShInv, LeftRight, EndsRight, TheirsRight, HasStarted, Places
<1> QED
  BY <1>1, <1>2, <1>4, <1>5, QuietInv DEF ShInv, Types

\* A buffer is read from one of the outputs, and joined to what there is or not.
LEMMA TakeInv ==
  ASSUME ShInv, NEW f \in Outputs, Take(f), at' = f \/ at' = "failed"
  PROVE  ShInv'
<1> DEFINE len == IF pipe[f] <= BufSize THEN pipe[f] ELSE BufSize
<1>1. /\ at = f /\ "IN" \in revents[f]
      /\ got' = [got EXCEPT ![f] = got[f] + len] /\ pipe' = [pipe EXCEPT ![f] = pipe[f] - len]
      /\ UNCHANGED <<revents, iLen, iOff, iDone, fds, theirs, child, cut, status>>
  BY DEF Take
<1>0. /\ got \in [Outputs -> Nat] /\ pipe \in [Pipes -> Nat] /\ Cap \in Nat /\ BufSize \in Nat
      /\ f \in Pipes /\ "in" \in Pipes /\ f # "in" /\ \A g \in Outputs : g \in Pipes
  BY PipeAssumption DEF ShInv, Types, Outputs, Pipes
<1>2. len \in Nat /\ len <= pipe[f]
  BY <1>0
<1> HIDE DEF len
<1>3. /\ got' \in [Outputs -> Nat] /\ pipe' \in [Pipes -> Nat]
      /\ \A g \in Pipes : pipe'[g] <= pipe[g]
      /\ pipe'["in"] = pipe["in"]
      /\ \A g \in Outputs : g # f => pipe'[g] = pipe[g]
      /\ \A g \in Outputs : got'[g] + pipe'[g] = got[g] + pipe[g]
  BY <1>0, <1>1, <1>2
<1>4. Types'
  <2>1. at' \in Places
    BY DEF Places, Outputs, Over
  <2>2. \A g \in Pipes : pipe'[g] <= Cap
    BY <1>0, <1>3 DEF ShInv, Types
  <2> QED
    BY <1>1, <1>3, <2>1, <2>2 DEF ShInv, Types
<1>5. BytesConserved'
  BY <1>1, <1>3 DEF ShInv, BytesConserved
<1>6. HupRight'
  <2>1. ASSUME NEW g \in Outputs, pipe[g] = 0 PROVE pipe'[g] = 0
    BY <1>0, <1>3, <2>1
  <2> QED
    BY <1>1, <1>3, <2>1 DEF ShInv, HupRight, Unread, Outputs
<1>7. WritesOpen' /\ LeftRight' /\ EndsRight' /\ TheirsRight'
  BY <1>1 DEF ShInv, WritesOpen, LeftRight, EndsRight, TheirsRight, HasStarted, Outputs
<1> QED
  BY <1>4, <1>5, <1>6, <1>7 DEF ShInv

\* The last read of an output has found nothing, or poll did not call for one.
LEMMA DrainedInv ==
  ASSUME ShInv, NEW f \in Outputs, NEW next,
         \/ f = "out" /\ next = "err"
         \/ f = "err" /\ next = "in",
         Drained(f, next)
  PROVE  ShInv'
<1>1. /\ at = f /\ at' = next /\ ("IN" \notin revents[f] \/ pipe[f] = 0)
      /\ UNCHANGED <<revents, iLen, iOff, iDone, got, fds, theirs, pipe, child, cut, status>>
  BY DEF Drained
<1>2. HupRight'
  BY <1>1 DEF ShInv, HupRight, Unread, Outputs
<1>3. LeftRight' /\ EndsRight' /\ TheirsRight' /\ at' \in Places
  BY <1>1 DEF ShInv, LeftRight, EndsRight, TheirsRight, HasStarted, Places
<1> QED
  BY <1>1, <1>2, <1>3, QuietInv DEF ShInv, Types

\* What fits of the input is written, and stdin closed behind the last of it.
LEMMA WriteInv == ASSUME ShInv, Write PROVE ShInv'
<1> DEFINE room == Cap - pipe["in"]
           left == iLen - iOff
           ww   == IF left <= room THEN left ELSE room
<1>0. /\ pipe \in [Pipes -> Nat] /\ "in" \in Pipes /\ pipe["in"] <= Cap /\ Cap \in Nat
      /\ iLen \in Nat /\ iOff \in Nat /\ iOff <= iLen
      /\ \A f \in Outputs : f \in Pipes /\ f # "in"
  BY PipeAssumption DEF ShInv, Types, Pipes, Outputs
<1>1. CASE "in" \notin child.open \cup theirs /\ left > 0
  <2>1. at' = "killed" /\ UNCHANGED <<revents, iLen, iOff, iDone, got, fds, theirs, pipe, child, cut, status>>
    BY <1>1 DEF Write
  <2>2. at = "in"
    BY DEF Write
  <2>3. HupRight' /\ LeftRight' /\ EndsRight' /\ TheirsRight' /\ at' \in Places
    BY <2>1, <2>2 DEF ShInv, HupRight, LeftRight, EndsRight, TheirsRight, HasStarted, Unread, Places, Over
  <2> QED
    BY <2>1, <2>3, QuietInv DEF ShInv, Types
<1>2. CASE ~("in" \notin child.open \cup theirs /\ left > 0)
  <2>1. /\ at = "in" /\ at' = "check" /\ ~iDone
        /\ iOff' = iOff + ww /\ pipe' = [pipe EXCEPT !["in"] = pipe["in"] + ww]
        /\ iDone' = (iOff' = iLen) /\ fds' = IF iDone' THEN fds \ {"in"} ELSE fds
        /\ UNCHANGED <<revents, iLen, got, theirs, child, cut, status>>
    BY <1>2 DEF Write
  <2>2. ww \in Nat /\ iOff + ww <= iLen /\ pipe["in"] + ww <= Cap
    BY <1>0
  <2> HIDE DEF ww
  <2>3. /\ pipe' \in [Pipes -> Nat] /\ pipe'["in"] = pipe["in"] + ww
        /\ \A f \in Outputs : pipe'[f] = pipe[f]
        /\ \A f \in Pipes : pipe'[f] <= Cap
    <3>1. \A f \in Pipes : pipe[f] <= Cap
      BY DEF ShInv, Types
    <3> QED
      BY <1>0, <2>1, <2>2, <3>1
  <2>4. Types'
    <3>1. iDone' \in BOOLEAN /\ fds' \subseteq Pipes /\ at' \in Places
      BY <2>1 DEF ShInv, Types, Places
    <3>2. iOff' \in Nat /\ iOff' <= iLen
      BY <1>0, <2>1, <2>2
    <3> QED
      BY <2>1, <2>3, <3>1, <3>2 DEF ShInv, Types
  <2>5. BytesConserved'
    <3>1. child.read \in Nat
      BY DEF ShInv, Types, Children
    <3> QED
      BY <1>0, <2>1, <2>2, <2>3, <3>1 DEF ShInv, BytesConserved
  <2>6. HupRight'
    BY <2>1, <2>3 DEF ShInv, HupRight, Unread
  <2>7. WritesOpen' /\ LeftRight' /\ EndsRight' /\ TheirsRight'
    BY <2>1 DEF ShInv, WritesOpen, LeftRight, EndsRight, TheirsRight, HasStarted, Outputs
  <2> QED
    BY <2>4, <2>5, <2>6, <2>7 DEF ShInv
<1> QED
  BY <1>1, <1>2

\* Without a child both ends of the pipes there are stay open.
LEMMA SpawnFailsInv == ASSUME ShInv, SpawnFails PROVE ShInv'
<1>1. PICK made \in {{}, {"in"}, {"in", "out"}, {"in", "out", "err"}} :
        fds' = made /\ theirs' = made
  BY DEF SpawnFails
<1>2. /\ at = "start" /\ at' = "failed"
      /\ UNCHANGED <<revents, iLen, iOff, iDone, got, pipe, child, cut, status>>
  BY DEF SpawnFails
<1>3. fds' \subseteq Pipes /\ theirs' \subseteq Pipes /\ at' \in Places
  BY <1>1, <1>2 DEF Pipes, Places, Over
<1>4. HupRight' /\ LeftRight' /\ EndsRight' /\ TheirsRight'
  BY <1>1, <1>2 DEF ShInv, HupRight, LeftRight, EndsRight, TheirsRight, HasStarted
<1> QED
  BY <1>2, <1>3, <1>4, QuietInv DEF ShInv, Types

\* The steps of the parent that only move on.
LEMMA ParentInv ==
  ASSUME ShInv,
         \/ NoWrite \/ Check \/ Close \/ WaitPid \/ WaitInterrupted
         \/ \E sig \in {"ALRM", "INT"} : PollInterrupted(sig)
  PROVE  ShInv'
<1>1. /\ UNCHANGED <<revents, iLen, iOff, iDone, got, pipe, child>>
      /\ at' \in Places /\ fds' \subseteq Pipes /\ theirs' \subseteq Pipes
      /\ cut' \in {"no", "ALRM", "INT"} /\ status' \in {"unset", "right"}
  <2>1. /\ UNCHANGED <<revents, iLen, iOff, iDone, got, theirs, pipe, child>>
        /\ fds' = fds \/ fds' = {}
    BY DEF NoWrite, Check, Close, WaitPid, WaitInterrupted, PollInterrupted
  <2>2. at' \in Places
    BY DEF NoWrite, Check, Close, WaitPid, WaitInterrupted, PollInterrupted, Places, Over
  <2>3. (cut' = cut \/ cut' \in {"ALRM", "INT"}) /\ (status' = status \/ status' = "right")
    BY DEF NoWrite, Check, Close, WaitPid, WaitInterrupted, PollInterrupted
  <2>4. fds \subseteq Pipes /\ theirs \subseteq Pipes /\ cut \in {"no", "ALRM", "INT"}
        /\ status \in {"unset", "right"}
    BY DEF ShInv, Types
  <2> QED
    BY <2>1, <2>2, <2>3, <2>4
<1>2. HupRight'
  <2>1. at \notin {"out", "err", "failed"}
    BY DEF NoWrite, Check, Close, WaitPid, WaitInterrupted, PollInterrupted
  <2> QED
    BY <1>1, <2>1 DEF ShInv, HupRight, Unread
<1>3. LeftRight'
  BY DEF NoWrite, Check, Close, WaitPid, WaitInterrupted, PollInterrupted,
         ShInv, LeftRight
<1>4. EndsRight'
  BY DEF NoWrite, Check, Close, WaitPid, WaitInterrupted, PollInterrupted,
         ShInv, EndsRight, HasStarted
<1>5. TheirsRight'
  BY DEF NoWrite, Check, Close, WaitPid, WaitInterrupted, PollInterrupted,
         ShInv, EndsRight, TheirsRight, HasStarted
<1> QED
  BY <1>1, <1>2, <1>3, <1>4, <1>5, QuietInv DEF ShInv, Types

\* The child comes to life with all its pipes, and only it has their other ends.
LEMMA StartedInv ==
  ASSUME ShInv, NEW next \in {"poll", "failed"}, Started(next)
  PROVE  ShInv'
<1>1. /\ at = "start" /\ at' = next /\ fds' = Pipes /\ theirs' = {}
      /\ child' = [child EXCEPT !.alive = TRUE, !.open = Pipes,
                                !.want = IF IsCat THEN "in" ELSE "any"]
      /\ UNCHANGED <<revents, iLen, iOff, iDone, got, pipe, cut, status>>
  BY DEF Started, CloseTheirs, Pipes
<1>2. /\ child' \in Children /\ child'.read = child.read /\ child'.made = child.made
      /\ child'.want \notin Outputs /\ child'.want # "start"
  BY <1>1 DEF ShInv, Types, Children, Pipes, Outputs
<1>3. Types' /\ BytesConserved' /\ WritesOpen'
  BY <1>1, <1>2 DEF ShInv, Types, BytesConserved, WritesOpen, Places, Over
<1>4. HupRight' /\ LeftRight' /\ EndsRight' /\ TheirsRight'
  BY <1>1, <1>2 DEF ShInv, HupRight, LeftRight, EndsRight, TheirsRight, HasStarted, Pipes, Outputs
<1> QED
  BY <1>3, <1>4 DEF ShInv

\* A step of the child that moves no byte.
LEMMA ChildQuietInv ==
  ASSUME ShInv, UNCHANGED parent, pipe' = pipe, child' \in Children,
         child'.open \subseteq child.open, child'.read = child.read,
         child'.made = child.made, WritesOpen', child.alive, child'.want # "start"
  PROVE  ShInv'
<1>1. UNCHANGED <<at, revents, iLen, iOff, iDone, got, fds, theirs, cut, status>>
  BY DEF parent
<1>2. Types' /\ BytesConserved'
  BY <1>1 DEF ShInv, Types, BytesConserved
<1>3. HupRight' /\ LeftRight' /\ EndsRight' /\ TheirsRight'
  BY <1>1 DEF ShInv, HupRight, LeftRight, EndsRight, TheirsRight, HasStarted, Unread
<1> QED
  BY <1>2, <1>3 DEF ShInv

\* cat reads a byte to write it, another child to do anything next.
LEMMA ChildReadsInv == ASSUME ShInv, ChildReads PROVE ShInv'
<1>0. /\ child \in Children /\ pipe \in [Pipes -> Nat] /\ "in" \in Pipes /\ child.alive
      /\ \A f \in Outputs : f \in Pipes /\ f # "in"
  BY DEF ShInv, Types, Pipes, Outputs, ChildReads
<1>1. UNCHANGED parent /\ UNCHANGED <<at, revents, iLen, iOff, iDone, got, fds, theirs, cut, status>>
  BY DEF ChildReads, parent
<1>2. CASE /\ pipe["in"] > 0
           /\ pipe' = [pipe EXCEPT !["in"] = pipe["in"] - 1]
           /\ child' = [child EXCEPT !.read = child.read + 1,
                                     !.want = IF IsCat THEN "out" ELSE "any"]
  <2>1. /\ child' \in Children /\ child'.read = child.read + 1 /\ child'.made = child.made
        /\ child'.open = child.open /\ child'.alive = child.alive
        /\ child'.want = IF IsCat THEN "out" ELSE "any"
    <3>1. PICK w, n : w = (IF IsCat THEN "out" ELSE "any") /\ n = child.read + 1
      OBVIOUS
    <3>2. w \in {"out", "any"} /\ n \in Nat
      BY <1>0, <3>1 DEF Children
    <3>3. child' = [child EXCEPT !.read = n, !.want = w]
      BY <1>2, <3>1
    <3> QED
      BY <1>0, <3>1, <3>2, <3>3 DEF Children, Pipes
  <2>2. /\ pipe' \in [Pipes -> Nat] /\ pipe'["in"] = pipe["in"] - 1
        /\ \A f \in Outputs : pipe'[f] = pipe[f]
        /\ \A f \in Pipes : pipe'[f] <= pipe[f]
    BY <1>0, <1>2
  <2>3. Types'
    <3>1. \A f \in Pipes : pipe'[f] <= Cap
      BY <1>0, <2>2, PipeAssumption DEF ShInv, Types
    <3> QED
      BY <1>1, <2>1, <2>2, <3>1 DEF ShInv, Types
  <2>4. BytesConserved'
    <3>1. child.read \in Nat /\ pipe["in"] \in Nat /\ iOff = child.read + pipe["in"]
      BY <1>0 DEF Children, ShInv, BytesConserved
    <3> QED
      BY <1>1, <2>1, <2>2, <3>1 DEF ShInv, BytesConserved
  <2>5. WritesOpen'
    BY <1>0, <2>1 DEF ShInv, WritesOpen, Pipes, Outputs
  <2>6. HupRight' /\ LeftRight' /\ EndsRight' /\ TheirsRight'
    BY <1>0, <1>1, <2>1, <2>2 DEF ShInv, HupRight, LeftRight, EndsRight, TheirsRight, HasStarted, Unread
  <2> QED
    BY <2>3, <2>4, <2>5, <2>6 DEF ShInv
<1>3. CASE child' = [child EXCEPT !.eof = TRUE, !.want = "any"] /\ pipe' = pipe
  <2>1. /\ child' \in Children /\ child'.read = child.read /\ child'.made = child.made
        /\ child'.open = child.open /\ child'.alive = child.alive /\ child'.want = "any"
    BY <1>0, <1>3 DEF Children
  <2>2. WritesOpen'
    BY <2>1 DEF ShInv, WritesOpen, Outputs
  <2> QED
    BY <1>0, <1>1, <1>3, <2>1, <2>2, ChildQuietInv
<1> QED
  BY <1>2, <1>3 DEF ChildReads

LEMMA ChildWritesInv == ASSUME ShInv, NEW f \in Outputs, ChildWrites(f) PROVE ShInv'
<1>0. /\ child \in Children /\ pipe \in [Pipes -> Nat] /\ "in" \in Pipes
      /\ child.alive /\ f \in child.open /\ f # "in" /\ f \in Pipes /\ child.made \in [Outputs -> Nat]
      /\ \A g \in Outputs : g \in Pipes /\ g # "in"
      /\ Cap \in Nat
  BY PipeAssumption DEF ShInv, Types, Pipes, Outputs, Children, ChildWrites, WritesOpen
<1>1. UNCHANGED parent /\ UNCHANGED <<at, revents, iLen, iOff, iDone, got, fds, theirs, cut, status>>
  BY DEF ChildWrites, parent
<1>2. PICK made : made = [child.made EXCEPT ![f] = child.made[f] + 1]
  OBVIOUS
<1>3. /\ made \in [Outputs -> Nat] /\ made[f] = child.made[f] + 1
      /\ \A g \in Outputs : g # f => made[g] = child.made[g]
  BY <1>0, <1>2
<1>4. /\ child' \in Children /\ child'.read = child.read /\ child'.made = made
      /\ child'.open = child.open /\ child'.alive = child.alive
      /\ child'.want = IF IsCat THEN "in" ELSE "any"
  <2>1. child' = [child EXCEPT !.made = made, !.want = IF IsCat THEN "in" ELSE "any"]
    BY <1>0, <1>2 DEF ChildWrites, Children
  <2> QED
    BY <2>1, <1>0, <1>3 DEF Children, Pipes
<1>5. /\ pipe' \in [Pipes -> Nat] /\ pipe'[f] = pipe[f] + 1 /\ pipe'["in"] = pipe["in"]
      /\ \A g \in Outputs : g # f => pipe'[g] = pipe[g]
      /\ \A g \in Pipes : pipe'[g] <= Cap
  <2>1. pipe[f] < Cap /\ pipe' = [pipe EXCEPT ![f] = pipe[f] + 1]
        /\ \A g \in Pipes : pipe[g] <= Cap
    BY DEF ChildWrites, ShInv, Types
  <2> QED
    BY <1>0, <2>1
<1>6. Types'
  BY <1>1, <1>4, <1>5 DEF ShInv, Types
<1>7. BytesConserved'
  <2>1. got \in [Outputs -> Nat] /\ \A g \in Outputs : child.made[g] = got[g] + pipe[g]
    BY DEF ShInv, Types, BytesConserved
  <2>2. ASSUME NEW g \in Outputs PROVE made[g] = got[g] + pipe'[g]
    <3>1. got[g] \in Nat /\ pipe[g] \in Nat
      BY <1>0, <2>1
    <3> QED
      BY <1>3, <1>5, <2>1, <3>1
  <2> QED
    BY <1>1, <1>4, <1>5, <2>2 DEF ShInv, BytesConserved
<1>8. WritesOpen'
  BY <1>4 DEF ShInv, WritesOpen, Outputs
<1>9. HupRight' /\ LeftRight' /\ EndsRight' /\ TheirsRight'
  BY <1>0, <1>1, <1>4, <1>5 DEF ShInv, HupRight, LeftRight, EndsRight, TheirsRight, HasStarted, Unread
<1> QED
  BY <1>6, <1>7, <1>8, <1>9 DEF ShInv

\* The child chooses what to do next, closes a pipe, or ends.
LEMMA ChildChoosesInv ==
  ASSUME ShInv, Settles \/ ChildCloses \/ ChildExits
  PROVE  ShInv'
<1>0. child \in Children /\ UNCHANGED parent /\ pipe' = pipe /\ child.open \subseteq Pipes /\ child.alive
  BY DEF ShInv, Types, Settles, ChildCloses, ChildExits, Children
<1>1. CASE Settles
  <2>1. PICK w \in child.open : child' = [child EXCEPT !.want = w]
    BY <1>1 DEF Settles
  <2>2. /\ child' \in Children /\ child'.read = child.read /\ child'.made = child.made
        /\ child'.open = child.open /\ child'.alive = child.alive /\ child'.want = w /\ w # "start"
    BY <1>0, <2>1 DEF Children, Pipes
  <2>3. WritesOpen'
    BY <2>2 DEF ShInv, WritesOpen
  <2> QED
    BY <1>0, <2>2, <2>3, ChildQuietInv
<1>2. CASE ChildCloses
  <2>1. PICK f \in child.open : child' = [child EXCEPT !.open = child.open \ {f}]
    BY <1>2 DEF ChildCloses
  <2>2. /\ child' \in Children /\ child'.read = child.read /\ child'.made = child.made
        /\ child'.open \subseteq child.open /\ child'.want = "any" /\ ~IsCat
    BY <1>0, <1>2, <2>1 DEF ChildCloses, Children
  <2>3. WritesOpen'
    BY <2>2 DEF WritesOpen, Outputs
  <2> QED
    BY <1>0, <2>2, <2>3, ChildQuietInv
<1>3. CASE ChildExits
  <2>1. child' = [child EXCEPT !.alive = FALSE, !.open = {}, !.want = "end"]
    BY <1>3 DEF ChildExits
  <2>2. /\ child' \in Children /\ child'.read = child.read /\ child'.made = child.made
        /\ child'.open = {} /\ ~child'.alive /\ child'.want = "end"
    BY <1>0, <2>1 DEF Children
  <2>3. WritesOpen'
    BY <2>2 DEF WritesOpen, Outputs
  <2> QED
    BY <1>0, <2>2, <2>3, ChildQuietInv
<1> QED
  BY <1>1, <1>2, <1>3

LEMMA StepInv == ShInv /\ [ShNext]_shVars => ShInv'
<1> SUFFICES ASSUME ShInv, [ShNext]_shVars PROVE ShInv'
  OBVIOUS
<1>1. CASE UNCHANGED shVars
  BY <1>1 DEF shVars, ShInv, Types, BytesConserved, WritesOpen, HupRight, LeftRight, EndsRight,
     TheirsRight, HasStarted, Unread
<1>2. CASE Drained("out", "err") \/ Drained("err", "in")
  BY <1>2, DrainedInv DEF Outputs
<1>3. CASE \E f \in Outputs : Read(f) \/ ReadThrows(f)
  BY <1>3, TakeInv DEF Read, ReadThrows
<1>4. CASE Spawn \/ SetupThrows
  BY <1>4, StartedInv DEF Spawn, SetupThrows
<1> QED
  BY <1>1, <1>2, <1>3, <1>4, SpawnFailsInv, PollInv, WriteInv, ParentInv, ChildReadsInv, ChildWritesInv,
     ChildChoosesInv DEF ShNext, ShStep, ChildStep

-----------------------------------------------------------------------------
(* The theorem *)

\* •SH neither loses nor invents a byte, whatever the child does with its pipes and in
\* whatever order, and wherever memory runs out: what was written is with one of the
\* two or in a pipe; a call that no signal cuts short returns all that the child
\* wrote; stdin is closed exactly when its last byte is written; a call that returns
\* has closed all its ends and waited for the child, and one that throws leaves the
\* ends and the child that LeftByFailure says.
THEOREM PipesStayRight == ShSpec => []PipesRight
<1>1. ShInv => PipesRight
  <2> SUFFICES ASSUME ShInv PROVE PipesRight
    OBVIOUS
  <2>1. ShTypeOK
    <3>1. iOff \in 0 .. iLen
      BY DEF ShInv, Types
    <3>2. pipe \in [Pipes -> 0 .. Cap]
      BY PipeAssumption DEF ShInv, Types
    <3> QED
      BY <3>1, <3>2 DEF ShInv, Types, ShTypeOK, Places, Pipes, Children
  <2>2. OutputWhole
    <3> SUFFICES ASSUME at = "done", cut = "no", NEW f \in Outputs
                 PROVE  got[f] = child.made[f]
      BY DEF OutputWhole
    <3>1. "HUP" \in revents[f]
      BY DEF ShInv, LeftRight
    <3>2. pipe[f] = 0
      BY <3>1 DEF ShInv, HupRight, Unread
    <3>3. got[f] \in Nat /\ child.made[f] = got[f] + pipe[f]
      BY DEF ShInv, Types, BytesConserved
    <3> QED
      BY <3>2, <3>3
  <2>3. ClosedInTime
    BY DEF ShInv, Types, Places, Over, EndsRight, TheirsRight, ClosedInTime
  <2>4. LeftByFailure
    BY DEF ShInv, EndsRight, TheirsRight, LeftByFailure
  <2> QED
    BY <2>1, <2>2, <2>3, <2>4 DEF ShInv, PipesRight
<1> QED
  BY <1>1, InitInv, StepInv, PTL DEF ShSpec

=============================================================================
