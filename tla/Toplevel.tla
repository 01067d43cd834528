------------------------------ MODULE Toplevel ------------------------------
(***************************************************************************)
(* How CBQN enters, leaves and unwinds BQN code: the entry points and the  *)
(* count of nested runs (utils/toplevel.h), errors thrown with longjmp to  *)
(* the last CatchFrame (vm/vm.c), the places that catch them, the one      *)
(* compilation that may be under way (vm/load.c), and interrupts.          *)
(*                                                                         *)
(* The C stack is explicit: a frame for each call that owns one of the      *)
(* global stacks' entries.  What BQN code computes is left out; at every    *)
(* point where user code runs it may call, return or throw.                *)
(***************************************************************************)
EXTENDS Integers, Sequences, FiniteSets, SequencesExt

CONSTANTS
  Errors,        \* messages of errors that BQN code raises
  MaxFrames,     \* bound on the depth of the C stack
  EnvSize,       \* ENV_SIZE
  GsSize,        \* GS_SIZE
  MaxCountdown,  \* run_countdown after run_slow (64)
  ForeignCalls,  \* foreign functions call back through bqn_call1 and the like
  Remappers,     \* a function given to ReBQN as remap evaluates BQN source
  ReplInterrupt  \* the build option REPL_INTERRUPT

ASSUME ToplevelAssumption ==
  /\ MaxFrames \in Nat /\ EnvSize \in Nat /\ GsSize \in Nat
  /\ MaxCountdown \in Nat \ {0}
  /\ {ForeignCalls, Remappers, ReplInterrupt} \subseteq BOOLEAN

None == "none"
Overflow == "Stack overflow"
Interrupted == "interrupted"
Messages == Errors \cup {Overflow, Interrupted}

\* what gs holds for a value, which no message is
Value == "value"
ASSUME MessagesAssumption == Value \notin Errors

VARIABLES
  stack,       \* the C stack, outermost frame first
  cf,          \* the CatchFrames between cfStart and cf
  gs,          \* gStack: saved values of lastErrMsg, and Value for the others
  env,         \* envCurr+1-envStart
  nesting,     \* run_nesting
  countdown,   \* run_countdown
  comps,       \* depth of the frame that set comps_curr, 0 for NULL
  thrown,      \* thrownMsg
  lastErr,     \* lastErrMsg, what CurrentError returns
  flag,        \* cbqn_interrupted
  armed,       \* the SIGINT handler is installed
  status,      \* "running", or how the process ended
  owed         \* history: an error was thrown since the last run_slow

vars == <<stack, cf, gs, env, nesting, countdown, comps, thrown, lastErr, flag,
          armed, status, owed>>
signalVars == <<flag, armed>>
runVars == <<nesting, countdown, owed>>
errVars == <<thrown, lastErr>>

(***************************************************************************)
(* Frames.  stage: "body" while the callee or its body runs, "landed" when *)
(* longjmp has returned to the frame's setjmp.                             *)
(***************************************************************************)
Kinds == {"line", "entry", "block", "catch", "handling", "fill", "comp",
          "cleanup"}
Stages == {"body", "landed", "cleared", "ended", "unarmed"}
CatchKinds == {"line", "catch", "fill", "comp", "cleanup"}

Depth == Len(stack)
Top == stack[Depth]
Below == Front(stack)

Frame(k, e) == [kind |-> k, stage |-> "body", run |-> e, gs |-> Len(gs),
                err |-> None]

\* user code is running and may call, throw or return
InCode == status = "running" /\ Depth > 0 /\ Top.stage = "body"
\* what the compiler runs, user code only as a remap function
Free == comps = 0 \/ Remappers
At(k, s) == status = "running" /\ Depth > 0 /\ Top.kind = k /\ Top.stage = s
Stage(s) == [stack EXCEPT ![Depth].stage = s]

Init ==
  /\ stack = << >> /\ cf = << >> /\ gs = << >> /\ env = 0
  /\ nesting = 0 /\ countdown = 1
  /\ comps = 0
  /\ thrown = None /\ lastErr = None
  /\ flag = FALSE /\ armed = FALSE
  /\ status = "running" /\ owed = FALSE

-----------------------------------------------------------------------------
(* throwImpl *)

\* the values saved in the ReObjs that are freed when gs is cut to n, the
\* outermost of which is what lastErrMsg ends as
Freed(n) == {i \in n + 1 .. Len(gs) : gs[i] # Value}
Restored(n) == IF Freed(n) = {} THEN lastErr ELSE gs[Min(Freed(n))]

\* mutant: an error does not hurry the next collection
PressureNot == UNCHANGED countdown
\* run_pressure
RunPressure == countdown' = 1

(***************************************************************************)
(* throwImpl: the last CatchFrame is taken off, gStack is cut and freed,   *)
(* envCurr is cut, and longjmp resumes the frame that called prepareCatch. *)
(* Without a CatchFrame the error is printed and the process exits.        *)
(***************************************************************************)
Throw(msg) ==
  /\ thrown' = msg
  /\ RunPressure
  /\ owed' = TRUE
  /\ IF cf # << >>
       THEN LET c == Last(cf) IN
            /\ cf' = Front(cf)
            /\ gs' = SubSeq(gs, 1, c.gs)
            /\ lastErr' = Restored(c.gs)
            /\ env' = c.env
            /\ stack' = [SubSeq(stack, 1, c.frame) EXCEPT ![c.frame].stage = "landed"]
            /\ UNCHANGED status
       ELSE status' = "exited" /\ UNCHANGED <<cf, gs, lastErr, env, stack>>
  /\ UNCHANGED nesting

\* an error of BQN code or of a primitive
Raise(msg) ==
  /\ InCode
  /\ Throw(msg)
  /\ UNCHANGED <<comps, signalVars>>

\* CHECK_INTERRUPT, at the start of a block and in allocateMore
CheckInterrupt ==
  /\ InCode /\ flag
  /\ flag' = FALSE
  /\ Throw(Interrupted)
  /\ UNCHANGED <<comps, armed>>

-----------------------------------------------------------------------------
(* Entering and leaving runs *)

Room == Depth < MaxFrames
\* mutant: envCurr itself is left out
CatchHereOff == [frame |-> Depth + 1, gs |-> Len(gs), env |-> IF env = 0 THEN 0 ELSE env - 1]
\* prepareCatch
CatchHere == [frame |-> Depth + 1, gs |-> Len(gs), env |-> env]
\* mutant: popCatch is forgotten
PopCatchNot == UNCHANGED cf
PopCatch == cf' = Front(cf)

\* a frame of kind k that has called prepareCatch
PushCatching(k, e) ==
  /\ stack' = Append(stack, Frame(k, e))
  /\ cf' = Append(cf, CatchHere)

\* cbqn_runLine1, up to the call of cbqn_runLine0
EnterLine ==
  /\ status = "running" /\ stack = << >> /\ Room
  /\ nesting' = nesting + 1
  /\ PushCatching("line", nesting + 1)
  /\ armed' = ReplInterrupt
  /\ UNCHANGED <<gs, env, countdown, owed, comps, errVars, flag, status>>

\* bqn_call1, bqn_call2, bqn_eval and bqn_evalCStr, from the host program or
\* from a foreign function; also the files and expressions run by main
EnterEntry ==
  /\ status = "running" /\ Room
  /\ stack = << >> \/ (ForeignCalls /\ InCode /\ Free)
  /\ nesting' = nesting + 1
  /\ stack' = Append(stack, Frame("entry", nesting + 1))
  /\ UNCHANGED <<cf, gs, env, countdown, owed, comps, errVars, signalVars, status>>

\* run_end, and run_slow when the countdown of the outermost runs is over
RunEnd ==
  /\ nesting' = nesting - 1
  /\ IF nesting # 1
       THEN UNCHANGED <<countdown, owed>>
       ELSE IF countdown = 1
              THEN countdown' = MaxCountdown /\ owed' = FALSE
              ELSE countdown' = countdown - 1 /\ UNCHANGED owed

EntryReturns ==
  /\ At("entry", "body")
  /\ RunEnd
  /\ stack' = Below
  /\ UNCHANGED <<cf, gs, env, comps, errVars, signalVars, status>>

\* takeInterrupts(false), after it cleared the flag
Disarm == armed' = FALSE

\* the end of cbqn_runLine1: run_end, takeInterrupts(false), which clears the
\* flag and then uninstalls the handler, and popCatch
LineEnds ==
  /\ At("line", "body")
  /\ RunEnd
  /\ stack' = Stage("ended")
  /\ UNCHANGED <<cf, gs, env, comps, errVars, signalVars, status>>

LineClears ==
  /\ At("line", "ended")
  /\ flag' = FALSE
  /\ stack' = Stage("cleared")
  /\ UNCHANGED <<cf, gs, env, runVars, comps, errVars, armed, status>>

LineReturns ==
  /\ At("line", "cleared")
  /\ Disarm
  /\ PopCatch
  /\ stack' = Below
  /\ UNCHANGED <<gs, env, runVars, comps, errVars, flag, status>>

\* the CATCH branch of cbqn_runLine1: takeInterrupts(false) in two steps, the
\* message is printed and freed, run_end
LineLandsClears ==
  /\ At("line", "landed")
  /\ flag' = FALSE
  /\ stack' = Stage("unarmed")
  /\ UNCHANGED <<cf, gs, env, runVars, comps, errVars, armed, status>>

LineReports ==
  /\ At("line", "unarmed")
  /\ Disarm
  /\ thrown' = None
  /\ RunEnd
  /\ stack' = Below
  /\ UNCHANGED <<cf, gs, env, comps, lastErr, flag, status>>

-----------------------------------------------------------------------------
(* Blocks: execBlock and evalBC *)

\* mutant: an off-by-one in the test
EnvRoomOff == env =< EnvSize
\* pushEnv
EnvRoom == env < EnvSize

EnterBlock ==
  /\ InCode /\ ~flag /\ Room
  /\ IF EnvRoom
       THEN /\ env' = env + 1
            /\ stack' = Append(stack, Frame("block", 0))
            /\ UNCHANGED <<cf, gs, runVars, errVars, status>>
       ELSE Throw(Overflow)
  /\ UNCHANGED <<comps, signalVars>>

\* ADD of evalBC, which does not look where gStack ends: the page after it may
\* not be written, and the process is killed
PushValue ==
  /\ At("block", "body")
  /\ IF Len(gs) < GsSize THEN gs' = Append(gs, Value) /\ UNCHANGED status
     ELSE status' = "fault" /\ UNCHANGED gs
  /\ UNCHANGED <<stack, cf, env, runVars, comps, errVars, signalVars>>

\* gsAdd of an object that a builtin wants freed if it throws
AddValue ==
  /\ At("block", "body")
  /\ IF Len(gs) < GsSize
       THEN gs' = Append(gs, Value)
            /\ UNCHANGED <<stack, cf, env, runVars, errVars, status>>
       ELSE Throw(Overflow)
  /\ UNCHANGED <<comps, signalVars>>

PopValue ==
  /\ At("block", "body")
  /\ Len(gs) > Top.gs
  /\ gs' = Front(gs)
  /\ UNCHANGED <<stack, cf, env, runVars, comps, errVars, signalVars, status>>

BlockReturns ==
  /\ At("block", "body")
  /\ Len(gs) = Top.gs
  /\ env' = env - 1
  /\ stack' = Below
  /\ UNCHANGED <<cf, gs, runVars, comps, errVars, signalVars, status>>

-----------------------------------------------------------------------------
(* The builtins that catch *)

\* catch_c1 and catch_c2; a fill computed by user code (fillBy, homFil, ...);
\* code that undoes something and rethrows (import_c1, the profiler)
EnterCatching(k) ==
  /\ k \in {"catch", "fill", "cleanup"}
  /\ InCode /\ Room
  /\ PushCatching(k, 0)
  /\ UNCHANGED <<gs, env, runVars, comps, errVars, signalVars, status>>

\* the body returned: popCatch
CatchingReturns ==
  /\ At("catch", "body") \/ At("fill", "body") \/ At("cleanup", "body")
  /\ PopCatch
  /\ stack' = Below
  /\ UNCHANGED <<gs, env, runVars, comps, errVars, signalVars, status>>

\* mutant: the message is not kept before it is replaced
SavedNone == None
\* what pushRe keeps in the ReObj
Saved == lastErr

\* pushRe, and the call of G
CatchHandles ==
  /\ At("catch", "landed")
  /\ IF Len(gs) < GsSize
       THEN /\ gs' = Append(gs, Saved)
            /\ lastErr' = thrown
            /\ thrown' = None
            /\ stack' = [stack EXCEPT ![Depth] = [@ EXCEPT !.kind = "handling",
                                         !.stage = "body", !.err = thrown]]
            /\ UNCHANGED <<cf, env, runVars, status>>
       ELSE Throw(Overflow)
  /\ UNCHANGED <<comps, signalVars>>

\* G returned: the ReObj is popped and freed, which restores lastErrMsg
HandlingReturns ==
  /\ At("handling", "body")
  /\ lastErr' = Last(gs)
  /\ gs' = Front(gs)
  /\ stack' = Below
  /\ UNCHANGED <<cf, env, runVars, comps, thrown, signalVars, status>>

\* mutant: the error is not freed before the fill is given up
FreeThrownNot == UNCHANGED thrown
FreeThrown == thrown' = None

FillGivesUp ==
  /\ At("fill", "landed")
  /\ FreeThrown
  /\ stack' = Below
  /\ UNCHANGED <<cf, gs, env, runVars, comps, lastErr, signalVars, status>>

CleanupRethrows ==
  /\ At("cleanup", "landed")
  /\ Throw(thrown)
  /\ UNCHANGED <<comps, signalVars>>

-----------------------------------------------------------------------------
(* Compilation *)

\* bqn_comp up to the compiler's run: comps_push asserts that there is none
\* under way, and prepareCatch.  While it is compiling, user code runs only as
\* the remap function.
EnterComp ==
  /\ InCode /\ Free /\ Room
  /\ IF comps = 0
       THEN /\ PushCatching("comp", 0)
            /\ comps' = Depth + 1
            /\ UNCHANGED status
       ELSE status' = "assert" /\ UNCHANGED <<stack, cf, comps>>
  /\ UNCHANGED <<gs, env, runVars, errVars, signalVars>>

CompsPop == comps' = 0

CompReturns ==
  /\ At("comp", "body")
  /\ CompsPop
  /\ PopCatch
  /\ stack' = Below
  /\ UNCHANGED <<gs, env, runVars, errVars, signalVars, status>>

\* the CATCH of COMPS_PUSH: COMPS_POP; rethrow()
CompRethrows ==
  /\ At("comp", "landed")
  /\ CompsPop
  /\ Throw(thrown)
  /\ UNCHANGED signalVars

-----------------------------------------------------------------------------
(* What comes from elsewhere *)

\* interrupt_sigHandler.  Without a handler the signal ends the process.
Signal ==
  /\ status = "running" /\ armed
  /\ IF flag
       THEN status' = "abort" /\ UNCHANGED signalVars
       ELSE armed' = FALSE /\ flag' = TRUE /\ UNCHANGED status
  /\ UNCHANGED <<stack, cf, gs, env, runVars, comps, errVars>>

\* run_pressure, when the heap grows or a collection ran
Pressure ==
  /\ InCode
  /\ RunPressure
  /\ UNCHANGED <<stack, cf, gs, env, nesting, owed, comps, errVars, signalVars, status>>

-----------------------------------------------------------------------------
Code ==
  \/ \E m \in Errors : Raise(m)
  \/ CheckInterrupt
  \/ EnterBlock \/ PushValue \/ AddValue \/ PopValue \/ BlockReturns
  \/ \E k \in Kinds : EnterCatching(k)
  \/ CatchingReturns \/ HandlingReturns
  \/ EnterComp \/ CompReturns
  \/ EntryReturns
  \/ LineEnds \/ LineClears \/ LineReturns

\* what follows a longjmp, none of it up to the program being run
Land ==
  \/ LineLandsClears \/ LineReports
  \/ CatchHandles
  \/ FillGivesUp
  \/ CleanupRethrows
  \/ CompRethrows

Next ==
  \/ EnterLine
  \/ EnterEntry
  \/ Code
  \/ Land
  \/ Signal
  \/ Pressure

Spec == Init /\ [][Next]_vars

\* a handler that was landed in runs on: it is C code without a loop
FairSpec == Spec /\ WF_vars(Land)

-----------------------------------------------------------------------------
(* Properties *)

Frames == DOMAIN stack
Running == status = "running"
Owners(ks) == {i \in Frames : stack[i].kind \in ks}

TypeOK ==
  /\ stack \in Seq([kind : Kinds, stage : Stages, run : Nat, gs : 0 .. GsSize,
                     err : Messages \cup {None}])
  /\ cf \in Seq([frame : Nat \ {0}, gs : 0 .. GsSize, env : 0 .. EnvSize])
  /\ gs \in Seq({Value, None} \cup Messages) /\ Len(gs) =< GsSize
  /\ env \in 0 .. EnvSize
  /\ nesting \in Nat /\ countdown \in 1 .. MaxCountdown
  /\ comps \in 0 .. MaxFrames
  /\ thrown \in Messages \cup {None} /\ lastErr \in Messages \cup {None}
  /\ flag \in BOOLEAN /\ armed \in BOOLEAN /\ owed \in BOOLEAN
  /\ status \in {"running", "exited", "abort", "assert", "fault"}

\* Every CatchFrame was pushed by a frame that is still on the C stack and has
\* neither returned nor caught: longjmp never resumes a function that is gone,
\* and no catcher is skipped.
Waiting(i) == stack[i].kind \in CatchKinds /\ stack[i].stage \in {"body", "ended", "cleared"}
CatchersLive ==
  Running =>
    /\ \A j \in DOMAIN cf : cf[j].frame \in Frames /\ Waiting(cf[j].frame)
    /\ \A i \in Frames : Waiting(i) =>
         Cardinality({j \in DOMAIN cf : cf[j].frame = i}) = 1

\* After any mixture of returns and throws the environment stack holds exactly
\* the blocks that are running, and gStack one saved message for each error
\* being handled, at the place its handler will pop.
Blocks(n) == Cardinality({i \in 1 .. n : stack[i].kind = "block"})
StacksExact ==
  Running =>
    /\ env = Blocks(Depth)
    /\ \A j \in DOMAIN cf : cf[j].env = Blocks(cf[j].frame - 1)
    /\ {stack[i].gs + 1 : i \in Owners({"handling"})} = {n \in DOMAIN gs : gs[n] # Value}
    /\ stack = << >> => gs = << >>

\* CurrentError is the error that the innermost handler running was given, and
\* what it was before once that handler is over, by a return or by a throw.
CurrentErrorRight ==
  Running =>
    lastErr = IF Owners({"handling"}) = {} THEN None
              ELSE stack[Max(Owners({"handling"}))].err

\* run_end is always called with the nesting of its run_start (the assertion in
\* run_end), so the outermost run is recognised as such.
RunNestingExact ==
  Running =>
    nesting = Cardinality({i \in Owners({"line", "entry"}) :
                             stack[i].stage \notin {"ended", "cleared"}})

\* An error leaves reference counts wrong; the next time no run is active the
\* collector has been asked to repair them.
NothingOwed == Running /\ stack = << >> => ~owed

\* comps_curr is set exactly while a compilation is on the C stack, and a
\* second one is not begun.
CompsExact ==
  Running =>
    Owners({"comp"}) = IF comps = 0 THEN {} ELSE {comps}

\* While user code runs or may be entered no error is being processed: a
\* top-level collection never finds thrownMsg set, which is fatal.
NoErrorPending ==
  Running /\ (stack = << >> \/ Top.stage \notin {"landed", "unarmed"}) => thrown = None

\* Outside the lines of a session an interrupt is not caught: it ends the process.
ArmedOnlyInLine ==
  Running /\ armed => \E i \in Frames : stack[i].kind = "line"

\* The globals tell what is on the C stack, whichever way frames left it: the stacks,
\* the compilation, the handler of signals, and the errors being thrown and handled.
GlobalsExact == TypeOK /\ StacksExact /\ CompsExact /\ ArmedOnlyInLine /\ CurrentErrorRight /\ NoErrorPending

\* The outermost run is recognised and does the repairs that errors call for.
RunsExact == RunNestingExact /\ NothingOwed

\* Whatever is thrown is handled or ends the process; a chain of rethrows ends.
ThrownHandled == Running /\ thrown # None ~> thrown = None \/ ~Running

=============================================================================
