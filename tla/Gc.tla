--------------------------------- MODULE Gc ---------------------------------
(***************************************************************************)
(* Memory management of CBQN above the allocator: reference counts         *)
(* (core/h.h) and the collector of cycles (opt/gc.c).                      *)
(*                                                                         *)
(* Objects are numbered in the order in which mm_forHeap meets them.  A    *)
(* counted reference is held by a field of an object, by a root, by the    *)
(* profiler, or by a local variable of C code; a throw forgets some of the *)
(* last kind without decrementing (lost).  A top-level collection trusts   *)
(* the roots alone; one made inside a running program must keep what local *)
(* variables hold, and finds those by subtracting every reference that it  *)
(* can see from the counts.                                                *)
(*                                                                         *)
(* Not modelled: the shapes of arrays (t_shape), which the collector never *)
(* frees itself and which go with the last array that has them.            *)
(***************************************************************************)
EXTENDS Integers, Sequences, FiniteSets, Functions

CONSTANTS
  N,         \* number of objects
  Slots,     \* fields of an object
  MaxRefs,   \* bound on the counted references at a time
  MaxHeld,   \* bound on the references C code holds at a time
  MaxLost,   \* bound on the references forgotten by throws at a time
  MaxSamples \* bound on the references the profiler holds

Obj == 1 .. N
Nil == 0

ASSUME GcAssumption ==
  /\ {N, MaxRefs, MaxHeld, MaxLost, MaxSamples} \subseteq Nat
  /\ Slots \subseteq Int /\ IsFiniteSet(Slots)

VARIABLES
  kind,     \* what the block is: "obj", "temp" (t_talloc, t_temp), "freed"
            \*   (t_freed), "empty" (t_empty)
  slot,     \* the references in an object's fields
  refc,     \* the reference count
  marked,   \* objects with the bit 0x80 of mmInfo
  roots,    \* gc_rootObjs, gc_rootBRefs and what the root functions visit
  held,     \* references of C code in progress
  profiler, \* "on" while profiler_active; "stopped" and "read" until the buffer is freed
  prof,     \* references in the profiler's buffer
  lost,     \* history: references forgotten by a throw
  work,     \* what remains of the frees being made, next first
  phase,    \* the part of gc_run, or "run" for the program
  cur,      \* the object that mm_forHeap is at
  top       \* toplevel

heapVars == <<kind, slot, refc>>
refVars == <<roots, held, profiler, prof, lost>>
gcVars == <<phase, cur, top>>
vars == <<heapVars, marked, refVars, work, gcVars>>

Kinds == {"obj", "temp", "freed", "empty"}
Phases == {"run", "dec", "mark", "inc", "unmark", "roots", "try", "merge"}

Blocks == {o \in Obj : kind[o] # "empty"}
One(b) == IF b THEN 1 ELSE 0
NoSlots == [s \in Slots |-> Nil]

\* references to x from fields, which TIv(x,visit) meets
Incoming(x) == Cardinality({p \in Obj \X Slots : slot[p[1]][p[2]] = x})
Children(o) == {slot[o][s] : s \in Slots} \ {Nil}

\* the objects that can be reached from the set S: those in every set that has S and
\* whatever its members refer to
Closed(T) == \A o \in T : Children(o) \subseteq T
Reach(S) == {o \in Obj : \A T \in SUBSET Obj : S \subseteq T /\ Closed(T) => o \in T}

Init ==
  /\ kind = [o \in Obj |-> "empty"]
  /\ slot = [o \in Obj |-> NoSlots]
  /\ refc = [o \in Obj |-> 0]
  /\ marked = {}
  /\ roots = {} /\ held = [o \in Obj |-> 0]
  /\ profiler = "off" /\ prof = [o \in Obj |-> 0]
  /\ lost = [o \in Obj |-> 0]
  /\ work = << >>
  /\ phase = "run" /\ cur = 1 /\ top = FALSE

-----------------------------------------------------------------------------
(* The program *)

Idle == phase = "run" /\ work = << >>
Total(f) == FoldFunction(+, 0, f)
MayRefer == Total(refc) < MaxRefs
MayHold == MayRefer /\ Total(held) < MaxHeld

\* mm_alloc: C code holds the only reference, and the mark bit is clear
New(o, k) ==
  /\ Idle /\ MayHold /\ kind[o] = "empty"
  /\ kind' = [kind EXCEPT ![o] = k]
  /\ refc' = [refc EXCEPT ![o] = 1]
  /\ marked' = marked \ {o}
  /\ held' = [held EXCEPT ![o] = 1]
  /\ UNCHANGED <<slot, roots, profiler, prof, lost, work, gcVars>>

\* inc: C code holds one more counted reference to x
Inc(x) ==
  /\ refc' = [refc EXCEPT ![x] = @ + 1]
  /\ held' = [held EXCEPT ![x] = @ + 1]

\* inc of a value that C code holds or reads from a field of one it holds
Copy(x) ==
  /\ Idle /\ MayHold
  /\ \E o \in Obj : held[o] > 0 /\ (x = o \/ x \in Children(o))
  /\ kind[x] = "obj"
  /\ Inc(x)
  /\ UNCHANGED <<kind, slot, marked, roots, profiler, prof, lost, work, gcVars>>

\* inc of a value reached from a root
Load(x) ==
  /\ Idle /\ MayHold
  /\ x \in roots
  /\ Inc(x)
  /\ UNCHANGED <<kind, slot, marked, roots, profiler, prof, lost, work, gcVars>>

Pending(op, o) == [op |-> op, obj |-> o]

\* dec of a value that C code holds
Drop(x) ==
  /\ Idle /\ held[x] > 0
  /\ held' = [held EXCEPT ![x] = @ - 1]
  /\ work' = <<Pending("dec", x)>>
  /\ UNCHANGED <<heapVars, marked, roots, profiler, prof, lost, gcVars>>

\* a reference that C code holds moves into a field; the old value is freed
Store(o, s, x) ==
  /\ Idle /\ kind[o] = "obj" /\ kind[x] = "obj"
  /\ held[o] > 0 /\ held[x] > 0
  /\ slot' = [slot EXCEPT ![o][s] = x]
  /\ held' = [held EXCEPT ![x] = @ - 1]
  /\ work' = IF slot[o][s] = Nil THEN << >> ELSE <<Pending("dec", slot[o][s])>>
  /\ UNCHANGED <<kind, refc, marked, roots, profiler, prof, lost, gcVars>>

\* a reference moves into or out of what the collector visits as a root
Root(x) ==
  /\ Idle /\ kind[x] = "obj" /\ held[x] > 0 /\ x \notin roots
  /\ roots' = roots \cup {x}
  /\ held' = [held EXCEPT ![x] = @ - 1]
  /\ UNCHANGED <<heapVars, marked, profiler, prof, lost, work, gcVars>>

Unroot(x) ==
  /\ Idle /\ x \in roots
  /\ roots' = roots \ {x}
  /\ work' = <<Pending("dec", x)>>
  /\ UNCHANGED <<heapVars, marked, held, profiler, prof, lost, gcVars>>

\* throwImpl: the C frames between the throw and its catch are gone, with the
\* references that their variables held
Forget(S) ==
  /\ Idle /\ S # {}
  /\ \A o \in S : held[o] > 0
  /\ Total(lost) + Total(Restrict(held, S)) =< MaxLost
  /\ lost' = [o \in Obj |-> IF o \in S THEN lost[o] + held[o] ELSE lost[o]]
  /\ held' = [o \in Obj |-> IF o \in S THEN 0 ELSE held[o]]
  /\ UNCHANGED <<heapVars, marked, roots, profiler, prof, work, gcVars>>

\* profiler_start
ProfilerStart ==
  /\ Idle /\ profiler = "off" /\ MaxSamples > 0
  /\ profiler' = "on"
  /\ UNCHANGED <<heapVars, marked, roots, held, prof, lost, work, gcVars>>

\* profiler_bc_handler, a signal handler that keeps a counted reference to the
\* code that is running, until profiler_stop has turned the timer off.  No root
\* function visits what it keeps.
Sample(x) ==
  /\ profiler \in {"on", "stopped"} /\ phase = "run" /\ MayRefer /\ Total(prof) < MaxSamples
  /\ x \in Reach(roots \cup {o \in Obj : held[o] > 0}) /\ kind[x] = "obj"
  /\ prof' = [prof EXCEPT ![x] = @ + 1]
  /\ refc' = [refc EXCEPT ![x] = @ + 1]
  /\ UNCHANGED <<kind, slot, marked, roots, held, profiler, lost, work, gcVars>>

\* profiler_stop
ProfilerStop ==
  /\ Idle /\ profiler = "on"
  /\ profiler' = "stopped"
  /\ UNCHANGED <<heapVars, marked, roots, held, prof, lost, work, gcVars>>

\* profiler_getResults: the list of results takes over one reference to each of
\* the objects in S
ProfilerResults(S) ==
  /\ Idle /\ profiler = "stopped"
  /\ \A o \in S : prof[o] > 0
  /\ Total(held) + Cardinality(S) =< MaxHeld
  /\ profiler' = "read"
  /\ prof' = [o \in Obj |-> prof[o] - One(o \in S)]
  /\ held' = [o \in Obj |-> held[o] + One(o \in S)]
  /\ UNCHANGED <<heapVars, marked, roots, lost, work, gcVars>>

\* profiler_free, which unmaps the buffer without a decrement; after an error
\* there may be no results
ProfilerFree ==
  /\ Idle /\ profiler \in {"stopped", "read"}
  /\ Total(lost) + Total(prof) =< MaxLost
  /\ profiler' = "off"
  /\ prof' = [o \in Obj |-> 0]
  /\ lost' = [o \in Obj |-> lost[o] + prof[o]]
  /\ UNCHANGED <<heapVars, marked, roots, held, work, gcVars>>

-----------------------------------------------------------------------------
(* Frees *)

\* the decrements of the fields ss of o, in order
Decrements(o, ss) ==
  [i \in 1 .. Cardinality(ss) |->
     Pending("dec", slot[o][CHOOSE s \in ss : Cardinality({t \in ss : t =< s}) = i])]
Full(o) == {s \in Slots : slot[o][s] # Nil}

\* mutant: a field without a heap object is decremented too
FreeFieldsAll(o) == Decrements(o, Slots)
\* mutant: the first field is left out
FreeFieldsRest(o) == Decrements(o, {s \in Full(o) : \E t \in Slots : t < s})
\* freeO: a decrement for each field
FreeFields(o) == Decrements(o, Full(o))

Emptied(o) ==
  /\ kind' = [kind EXCEPT ![o] = "empty"]
  /\ slot' = [slot EXCEPT ![o] = NoSlots]
  /\ lost' = [lost EXCEPT ![o] = 0]

\* value_free of a t_freed object, def_freeF, frees the block and no field
FreesOnlyBlock(o) == kind[o] = "freed"

\* dec and ptr_dec; a count that reaches zero calls freeF
Dec ==
  /\ work # << >> /\ Head(work).op = "dec"
  /\ LET o == Head(work).obj IN
     /\ refc' = [refc EXCEPT ![o] = @ - 1]
     /\ IF refc[o] # 1
          THEN work' = Tail(work) /\ UNCHANGED <<kind, slot, lost>>
          ELSE IF FreesOnlyBlock(o)
                 THEN work' = Tail(work) /\ Emptied(o)
                 ELSE /\ work' = FreeFields(o) \o <<Pending("free", o)>> \o Tail(work)
                      /\ UNCHANGED <<kind, slot, lost>>
  /\ UNCHANGED <<marked, roots, held, profiler, prof, gcVars>>

\* mm_free, after freeO
FreeBlock ==
  /\ work # << >> /\ Head(work).op = "free"
  /\ Emptied(Head(work).obj)
  /\ work' = Tail(work)
  /\ UNCHANGED <<refc, marked, roots, held, profiler, prof, gcVars>>

\* tptr_dec(v, mm_free) at the end of gc_tryFree
TryFreed ==
  /\ work # << >> /\ Head(work).op = "tryFreed"
  /\ LET o == Head(work).obj IN
     /\ refc' = [refc EXCEPT ![o] = @ - 1]
     /\ IF refc[o] = 1 THEN Emptied(o) ELSE UNCHANGED <<kind, slot, lost>>
  /\ work' = Tail(work)
  /\ UNCHANGED <<marked, roots, held, profiler, prof, gcVars>>

-----------------------------------------------------------------------------
(* gc_run *)

\* mutant: what the profiler holds is not considered
AtTopAlways(t) == t
\* a collection counts as top-level only without the profiler
AtTop(t) == t /\ profiler # "on"

\* gc_forceGC.  A top-level one is made when no C code holds a reference, and not
\* by the code that stops the profiler, reads what it kept and frees it.
Start(t) ==
  /\ Idle
  /\ t => profiler \in {"off", "on"} /\ \A o \in Obj : held[o] = 0
  /\ top' = AtTop(t)
  /\ phase' = IF AtTop(t) THEN "unmark" ELSE "dec"
  /\ UNCHANGED <<heapVars, marked, refVars, work, cur>>

\* gc_run_nontoplevel_1: marks are cleared and every reference that a field
\* holds is subtracted
DecAll ==
  /\ phase = "dec"
  /\ marked' = {}
  /\ refc' = [o \in Obj |-> refc[o] - Incoming(o)]
  /\ phase' = "mark"
  /\ UNCHANGED <<kind, slot, refVars, work, cur, top>>

\* mutant: what the heap itself refers to is kept as well
HeldAll(o) == refc[o] # 0 \/ Incoming(o) # 0
\* gc_visitRefcNonzero
HeldNow(o) == refc[o] # 0

\* GC_MARK visits from the set S
Mark(S) == Reach(S)

\* gc_run_nontoplevel_2: what still has a count is kept, with all it refers to
MarkHeld ==
  /\ phase = "mark"
  /\ marked' = marked \cup Mark({o \in Blocks : HeldNow(o)})
  /\ phase' = "inc"
  /\ UNCHANGED <<heapVars, refVars, work, cur, top>>

\* mutant: as GC_MARK does, GC_INC_REFC counts a referrer once
Referrers(x) == Cardinality({o \in Obj : x \in Children(o)})
Subtracted(x) == Incoming(x)

\* gc_run_nontoplevel_3
IncAll ==
  /\ phase = "inc"
  /\ refc' = [o \in Obj |-> refc[o] + Subtracted(o)]
  /\ phase' = "roots"
  /\ UNCHANGED <<kind, slot, marked, refVars, work, cur, top>>

\* gc_run_toplevel_1
UnmarkAll ==
  /\ phase = "unmark"
  /\ marked' = {}
  /\ phase' = "roots"
  /\ UNCHANGED <<heapVars, refVars, work, cur, top>>

MarkRoots ==
  /\ phase = "roots"
  /\ marked' = marked \cup Mark(roots)
  /\ phase' = "try" /\ cur' = 1
  /\ UNCHANGED <<heapVars, refVars, work, top>>

\* mutant: the object is not protected while its fields are freed
NoGuard(o) == refc
\* ptr_inc(v) in gc_tryFree
Guard(o) == [refc EXCEPT ![o] = @ + 1]

\* empty and marked blocks, and t_shape, t_temp, t_talloc
Skipped(o) == kind[o] \in {"empty", "temp"} \/ o \in marked

\* gc_tryFree
TryFree ==
  /\ phase = "try" /\ work = << >> /\ cur =< N
  /\ cur' = cur + 1
  /\ \/ Skipped(cur) /\ UNCHANGED <<heapVars, lost, work>>
     \/ /\ ~Skipped(cur)
        /\ IF kind[cur] = "freed"
             THEN Emptied(cur) /\ UNCHANGED <<refc, work>>
             ELSE /\ kind' = [kind EXCEPT ![cur] = "freed"]
                  /\ refc' = Guard(cur)
                  /\ slot' = [slot EXCEPT ![cur] = NoSlots]
                  /\ work' = FreeFields(cur) \o <<Pending("tryFreed", cur)>>
                  /\ UNCHANGED lost
  /\ UNCHANGED <<marked, roots, held, profiler, prof, phase, top>>

TriedAll ==
  /\ phase = "try" /\ work = << >> /\ cur > N
  /\ phase' = "merge"
  /\ UNCHANGED <<heapVars, marked, refVars, work, cur, top>>

\* mm_freeFreedAndMerge: every t_freed block becomes empty, whatever its count
Merge ==
  /\ phase = "merge"
  /\ kind' = [o \in Obj |-> IF kind[o] = "freed" THEN "empty" ELSE kind[o]]
  /\ refc' = [o \in Obj |-> IF kind[o] = "freed" THEN 0 ELSE refc[o]]
  /\ lost' = [o \in Obj |-> IF kind[o] = "freed" THEN 0 ELSE lost[o]]
  /\ phase' = "run" /\ cur' = 1
  /\ UNCHANGED <<slot, marked, roots, held, profiler, prof, work, top>>

-----------------------------------------------------------------------------
Program ==
  \/ \E o \in Obj, k \in {"obj", "temp"} : New(o, k)
  \/ \E x \in Obj : Copy(x) \/ Load(x) \/ Drop(x) \/ Root(x) \/ Unroot(x)
  \/ \E o, x \in Obj, s \in Slots : Store(o, s, x)
  \/ \E S \in SUBSET Obj : Forget(S)
  \/ ProfilerStart \/ \E x \in Obj : Sample(x)
  \/ ProfilerStop \/ \E S \in SUBSET Obj : ProfilerResults(S)
  \/ ProfilerFree
  \/ \E t \in BOOLEAN : Start(t)

System ==
  \/ Dec \/ FreeBlock \/ TryFreed
  \/ DecAll \/ MarkHeld \/ IncAll \/ UnmarkAll \/ MarkRoots
  \/ TryFree \/ TriedAll \/ Merge

Next == Program \/ System

Spec == Init /\ [][Next]_vars

\* For TLC: between collections nothing reads the marks or toplevel, and the
\* first phase of the next collection overwrites them.
View == <<heapVars, refVars, work, phase, cur,
          IF phase = "run" THEN <<>> ELSE <<marked, top>>>>

-----------------------------------------------------------------------------
(* Properties *)

TypeOK ==
  /\ kind \in [Obj -> Kinds]
  /\ slot \in [Obj -> [Slots -> Obj \cup {Nil}]]
  /\ refc \in [Obj -> Int]
  /\ marked \subseteq Obj /\ roots \subseteq Obj /\ profiler \in {"off", "on", "stopped", "read"}
  /\ held \in [Obj -> Nat] /\ prof \in [Obj -> Nat] /\ lost \in [Obj -> Nat]
  /\ work \in Seq([op : {"dec", "free", "tryFreed"}, obj : Obj])
  /\ phase \in Phases /\ cur \in 1 .. N + 1 /\ top \in BOOLEAN

InUse == {o \in Obj : held[o] + prof[o] > 0} \cup roots

\* Nothing that the program can still reach is freed or about to be: neither
\* by a reference count nor by a collection of either kind.
LiveKept == \A o \in Reach(InUse) : kind[o] \in {"obj", "temp"}

\* Between the steps of the program a reference count is the number of
\* references, those forgotten by a throw included: the collector restores what
\* it subtracted, and no free is done twice or left out.
RefcExact ==
  Idle =>
    \A o \in Blocks :
      refc[o] = Incoming(o) + held[o] + prof[o] + lost[o] + One(o \in roots)

\* No decrement or free is ever pending for a block that is empty already.
NoDoubleFree == \A i \in DOMAIN work : kind[work[i].obj] # "empty"

\* A count never drops below zero, not even while the collector has subtracted
\* the references it sees (the debug build's "decrementing refc 0").
CountsNonNegative == \A o \in Blocks : refc[o] >= 0

\* When a collection inside a running program has tried all blocks, the counts
\* of the dead ones have reached zero by themselves, however they were
\* entangled: only a top-level one frees blocks with a count left.
CyclesUnravel == phase = "merge" /\ ~top => \A o \in Obj : kind[o] # "freed"

\* What is freed is freed by its last reference, and only once.
FreedOnce == TypeOK /\ NoDoubleFree /\ CountsNonNegative /\ CyclesUnravel

\* A collection leaves no dead object behind.  One inside a running program
\* takes a forgotten reference for one that C code holds; a top-level one frees
\* those too.
AfterGC(t) ==
  \A o \in Obj : kind[o] = "obj" =>
    o \in Reach(IF t THEN roots ELSE InUse \cup {x \in Obj : lost[x] > 0})
Complete == [][phase = "merge" => AfterGC(top)']_vars

=============================================================================
