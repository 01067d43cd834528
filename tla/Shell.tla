-------------------------------- MODULE Shell --------------------------------
(***************************************************************************)
(* •SH: a child process and the loop that feeds and drains its three pipes *)
(* (sh_core and sh_c2, builtins/sysfn.c:1016-1134,1222-1240).              *)
(*                                                                         *)
(* Pipes keep order, so a pipe is the number of bytes in it.  The child is *)
(* any program, or cat; it and what it starts are one process here.        *)
(***************************************************************************)
EXTENDS Naturals, FiniteSets

CONSTANTS
  Lengths,        \* possible lengths of the input
  Cap,            \* capacity of a pipe
  BufSize,        \* bufsz: the most that one read takes
  MaxOut, MaxErr, \* bound: bytes the child writes to its outputs
  MaxSignals,     \* bound: signals during one call
  IsCat           \* the child copies its input to its output and ends

ASSUME PipeAssumption == Lengths \subseteq Nat /\ {Cap, BufSize} \subseteq Nat \ {0}

VARIABLES
  at,             \* where sh_core is
  revents,        \* what the last poll reported
  iLen, iOff, iDone,
  got,            \* bytes read from the outputs
  fds,            \* our ends of the pipes that are open
  theirs,         \* the child's ends that are open in this process
  pipe,           \* bytes in each pipe
  child, cut, status
shVars == <<at, revents, iLen, iOff, iDone, got, fds, theirs, pipe, child, cut, status>>
parent == <<at, revents, iLen, iOff, iDone, got, fds, theirs, cut, status>>

Outputs == {"out", "err"}
MaxMade == [out |-> MaxOut, err |-> MaxErr]

\* Before the process exists: arguments and pipes.
ShInit ==
  /\ at = "start" /\ revents = [f \in {"in", "out", "err"} |-> {}]
  /\ iLen \in Lengths /\ iOff = 0 /\ iDone = FALSE
  /\ got = [f \in Outputs |-> 0] /\ fds = {} /\ theirs = {}
  /\ pipe = [f \in {"in", "out", "err"} |-> 0]
  /\ child = [alive |-> FALSE, open |-> {}, want |-> "start",
              read |-> 0, eof |-> FALSE, made |-> [f \in Outputs |-> 0]]
  /\ cut = "no" /\ status = "unset"

\* mutant: the child's ends of the outputs stay open here
CloseTheirsNot == theirs' = Outputs
\* shClose of the ends that the child has now
CloseTheirs == theirs' = {}

\* posix_spawnp succeeds, and sh_core goes on to `next'.
Started(next) ==
  /\ at = "start" /\ at' = next
  /\ fds' = {"in", "out", "err"} /\ CloseTheirs
  /\ child' = [child EXCEPT !.alive = TRUE, !.open = {"in", "out", "err"},
                            !.want = IF IsCat THEN "in" ELSE "any"]
  /\ UNCHANGED <<revents, iLen, iOff, iDone, got, pipe, cut, status>>
Spawn == Started("poll")

\* The child runs, but there is no memory for its input or for the buffer.
SetupThrows == Started("failed")

\* A bad argument, a pipe that cannot be made, or a process that cannot be
\* started: both ends of the pipes there are stay open.
SpawnFails ==
  /\ at = "start" /\ at' = "failed"
  /\ \E made \in {{}, {"in"}, {"in", "out"}, {"in", "out", "err"}} :
       fds' = made /\ theirs' = made
  /\ UNCHANGED <<revents, iLen, iOff, iDone, got, pipe, child, cut, status>>

\* poll returns what holds now of the pipes it watches: of stdin only while
\* there is something to write.
Events ==
  [f \in {"in", "out", "err"} |->
     IF f = "in"
     THEN {e \in {"OUT", "ERR"} :
             /\ ~iDone
             /\ e = "OUT" => pipe["in"] < Cap
             /\ e = "ERR" => "in" \notin child.open \cup theirs}
     ELSE {e \in {"IN", "HUP"} :
             /\ e = "IN" => pipe[f] > 0
             /\ e = "HUP" => f \notin child.open \cup theirs}]
Poll ==
  /\ at = "poll" /\ \E f \in DOMAIN Events : Events[f] # {}
  /\ revents' = Events /\ at' = "out"
  /\ UNCHANGED <<iLen, iOff, iDone, got, fds, theirs, pipe, child, cut, status>>

\* A signal while poll waits: it returns -1, with or without SA_RESTART.  The
\* profiler's SIGALRM and, at a session's line, SIGINT come here.
PollInterrupted(sig) ==
  /\ at = "poll" /\ \A f \in DOMAIN Events : Events[f] = {}
  /\ MaxSignals > 0 /\ cut = "no"
  /\ cut' = sig /\ at' = "close"
  /\ UNCHANGED <<revents, iLen, iOff, iDone, got, fds, theirs, pipe, child, status>>

\* One read into the buffer, and the join that may find no memory.
Take(f) ==
  LET len == IF pipe[f] <= BufSize THEN pipe[f] ELSE BufSize
  IN /\ at = f /\ "IN" \in revents[f] /\ pipe[f] > 0
     /\ got' = [got EXCEPT ![f] = @ + len]
     /\ pipe' = [pipe EXCEPT ![f] = @ - len]
     /\ UNCHANGED <<revents, iLen, iOff, iDone, fds, theirs, child, cut, status>>
\* mutant: one read for each poll
ReadOnce(f) == Take(f) /\ at' = IF f = "out" THEN "err" ELSE "in"
\* Reads go on until one finds nothing.
Read(f) == Take(f) /\ at' = f
\* vec_join throws: what follows the loop is left out.
ReadThrows(f) == Take(f) /\ at' = "failed"
Drained(f, next) ==
  /\ at = f /\ at' = next
  /\ "IN" \notin revents[f] \/ pipe[f] = 0
  /\ UNCHANGED <<revents, iLen, iOff, iDone, got, fds, theirs, pipe, child, cut, status>>

\* mutant: stdin stays open when all is written
WriteOpen ==
  LET room == Cap - pipe["in"]
      left == iLen - iOff
      ww   == IF left <= room THEN left ELSE room
  IN /\ at = "in" /\ "OUT" \in revents["in"] /\ ~iDone
     /\ at' = "check"
     /\ iOff' = iOff + ww /\ iDone' = (iOff' = iLen)
     /\ pipe' = [pipe EXCEPT !["in"] = @ + ww]
     /\ UNCHANGED <<revents, iLen, got, fds, theirs, child, cut, status>>

\* One write of what fits; SIGPIPE, which nothing handles, if the child has
\* closed its end.
Write ==
  LET room == Cap - pipe["in"]
      left == iLen - iOff
      ww   == IF left <= room THEN left ELSE room
  IN /\ at = "in" /\ "OUT" \in revents["in"] /\ ~iDone
     /\ IF "in" \notin child.open \cup theirs /\ left > 0
        THEN at' = "killed" /\ UNCHANGED <<iOff, iDone, fds, pipe>>
        ELSE /\ at' = "check"
             /\ iOff' = iOff + ww
             /\ pipe' = [pipe EXCEPT !["in"] = @ + ww]
             /\ iDone' = (iOff' = iLen)
             /\ fds' = IF iDone' THEN fds \ {"in"} ELSE fds
     /\ UNCHANGED <<revents, iLen, got, theirs, child, cut, status>>
NoWrite ==
  /\ at = "in" /\ (iDone \/ "OUT" \notin revents["in"])
  /\ at' = "check"
  /\ UNCHANGED <<revents, iLen, iOff, iDone, got, fds, theirs, pipe, child, cut, status>>

\* mutant: one output without a writer ends the loop
CheckOne ==
  /\ at = "check"
  /\ at' = IF \E f \in Outputs : "HUP" \in revents[f] THEN "close" ELSE "poll"
  /\ UNCHANGED <<revents, iLen, iOff, iDone, got, fds, theirs, pipe, child, cut, status>>

\* The loop ends when the last poll found that both outputs have no writer.
Check ==
  /\ at = "check"
  /\ at' = IF \A f \in Outputs : "HUP" \in revents[f] THEN "close" ELSE "poll"
  /\ UNCHANGED <<revents, iLen, iOff, iDone, got, fds, theirs, pipe, child, cut, status>>

Close ==
  /\ at = "close" /\ at' = "wait" /\ fds' = {}
  /\ UNCHANGED <<revents, iLen, iOff, iDone, got, theirs, pipe, child, cut, status>>

WaitPid ==
  /\ at = "wait" /\ ~child.alive
  /\ at' = "done" /\ status' = "right"
  /\ UNCHANGED <<revents, iLen, iOff, iDone, got, fds, theirs, pipe, child, cut>>

\* waitpid is restarted after SIGALRM but not after SIGINT: then status is
\* not set.
WaitInterrupted ==
  /\ at = "wait" /\ child.alive /\ MaxSignals > 0 /\ cut # "INT"
  /\ cut' = "INT" /\ at' = "done"
  /\ UNCHANGED <<revents, iLen, iOff, iDone, got, fds, theirs, pipe, child, status>>

(***************************************************************************)
(* The child.  It does what it has settled on, and waits if it cannot.     *)
(***************************************************************************)
Settles ==
  /\ child.alive /\ child.want = "any"
  /\ \E w \in child.open :
       /\ w = "in" => ~child.eof
       /\ w \in Outputs => child.made[w] < MaxMade[w]
       /\ child' = [child EXCEPT !.want = w]
  /\ UNCHANGED parent /\ UNCHANGED pipe

ChildReads ==
  /\ child.alive /\ child.want = "in"
  /\ \/ /\ pipe["in"] > 0
        /\ pipe' = [pipe EXCEPT !["in"] = @ - 1]
        /\ child' = [child EXCEPT !.read = @ + 1,
                                  !.want = IF IsCat THEN "out" ELSE "any"]
     \/ /\ pipe["in"] = 0 /\ "in" \notin fds
        /\ child' = [child EXCEPT !.eof = TRUE, !.want = "any"]
        /\ UNCHANGED pipe
  /\ UNCHANGED parent

ChildWrites(f) ==
  /\ child.alive /\ child.want = f /\ f \in fds /\ pipe[f] < Cap
  /\ pipe' = [pipe EXCEPT ![f] = @ + 1]
  /\ child' = [child EXCEPT !.made[f] = @ + 1,
                            !.want = IF IsCat THEN "in" ELSE "any"]
  /\ UNCHANGED parent

ChildCloses ==
  /\ child.alive /\ child.want = "any" /\ ~IsCat
  /\ \E f \in child.open : child' = [child EXCEPT !.open = @ \ {f}]
  /\ UNCHANGED parent /\ UNCHANGED pipe

\* By itself, or because it writes to a pipe that we have closed.
ChildExits ==
  /\ child.alive
  /\ \/ child.want = "any" /\ (IsCat => child.eof)
     \/ child.want \in Outputs \ (fds \cup theirs)
  /\ child' = [child EXCEPT !.alive = FALSE, !.open = {}, !.want = "end"]
  /\ UNCHANGED parent /\ UNCHANGED pipe

ChildStep ==
  \/ ChildReads \/ ChildExits \/ \E f \in Outputs : ChildWrites(f)
ShStep ==
  \/ Spawn \/ Poll \/ Drained("out", "err") \/ Drained("err", "in")
  \/ \E f \in Outputs : Read(f)
  \/ Write \/ NoWrite \/ Check \/ Close \/ WaitPid
ShNext ==
  \/ ShStep \/ SpawnFails \/ SetupThrows \/ WaitInterrupted
  \/ \E f \in Outputs : ReadThrows(f)
  \/ \E sig \in {"ALRM", "INT"} : PollInterrupted(sig)
  \/ ChildStep \/ Settles \/ ChildCloses

\* The loop is run to its end, and so is the child unless it has to wait.
ShFair == WF_shVars(ShStep) /\ WF_shVars(ChildStep)
ShSpec == ShInit /\ [][ShNext]_shVars /\ ShFair
-----------------------------------------------------------------------------
Over == {"done", "failed", "killed"}
HasStarted == child.want # "start"

ShTypeOK ==
  /\ at \in {"start", "poll", "out", "err", "in", "check", "close", "wait"} \cup Over
  /\ iOff \in 0 .. iLen /\ pipe \in [{"in", "out", "err"} -> 0 .. Cap]
  /\ {fds, theirs, child.open} \subseteq SUBSET {"in", "out", "err"}
  /\ status \in {"unset", "right"} /\ cut \in {"no", "ALRM", "INT"}

\* Every byte that was written is with us, with the child or in a pipe.
BytesConserved ==
  /\ iOff = child.read + pipe["in"]
  /\ \A f \in Outputs : child.made[f] = got[f] + pipe[f]

\* Unless a signal cut it short, the call returns all that the child wrote: what it
\* wrote after a poll is found by a later one, although the test for the end uses
\* what an earlier poll reported.
OutputWhole ==
  at = "done" /\ cut = "no" => \A f \in Outputs : got[f] = child.made[f]

\* A call that returns has closed what it opened, and waited for the child unless
\* SIGINT stopped that.  In the loop stdin is closed exactly when all input is
\* written, so that a child which reads to the end of its input gets there, and no
\* end of the child's is kept here, which would hide the end of its outputs.
ClosedInTime ==
  /\ at = "done" => fds = {} /\ theirs = {} /\ (status = "right" \/ cut = "INT")
  /\ HasStarted => theirs = {}
  /\ HasStarted /\ at \notin {"wait", "done"} => ("in" \in fds <=> ~iDone)

\* What a call that throws leaves behind, as sh_core's TODO says of it: before there
\* is a child both ends of each pipe; after that both outputs, stdin unless all of
\* it is written, and a child that nobody waits for.
LeftByFailure ==
  at = "failed" =>
    /\ status = "unset"
    /\ IF HasStarted THEN Outputs \subseteq fds ELSE fds = theirs

\* No byte is lost on the way, a call that returns leaves nothing out and nothing
\* open, and one that throws leaves exactly its open ends and the child.
PipesRight == ShTypeOK /\ BytesConserved /\ OutputWhole /\ ClosedInTime /\ LeftByFailure

\* The call returns, whatever the child does with its pipes: no state has
\* both wait for each other.
Returns == <>(at \in Over)
=============================================================================
