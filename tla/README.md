# A formal model of CBQN

CBQN is an implementation of the BQN programming language in C: a loader and
compiler driver, a bytecode interpreter with an optional code generator, a large
set of array primitives, and under all of them a memory manager with reference
counts, a cycle collector and a buddy allocator. It runs one thread. What makes
it hard to get right is therefore not parallelism but two other things. The first is
*order*: errors are `longjmp`s that cut through C frames at any call, collections start
inside allocations, signals arrive between any two instructions, foreign code calls back
in, and all of this shares a few dozen global variables. The second is *choice*: a
primitive has up to a dozen methods, picked by element type, length, flags and
whether its argument is shared, and each must give what the others give.

This directory holds TLA+ modules that model those parts, TLC configurations that
check them on small instances, and proofs checked by TLAPS. Paths below are
relative to the repository's `src/`; the tests are in `test/` and the documents in
`docs/` beside it.

Run a check with `tlc -config X.cfg M`, the proofs with `tlapm M.tla` for
`M` each of `BuddyProofs`, `BuddyHeapProofs`, `GcProofs`, `HashMapProofs` (about seven minutes), `ShellProofs`,
`TimSortProofs`, `TimSortOrderProofs` (about three minutes) and `ToplevelProofs`.

## Modules

| module | models | from |
|---|---|---|
| `Heap` | what an allocator promises: disjoint live regions, each request granted or refused, nothing moved | abstract |
| `Buddy`, `BuddyMC`, `BuddyProofs`, `BuddyHeapProofs` | the buddy allocator, its free lists, arenas and heap limit, and the rebuilding of the lists by a collection | `opt/mm_buddyTemplate.{c,h}`, `opt/mm_buddy.c`, `opt/mm_2buddy.c`, `opt/gc.c` |
| `Gc`, `GcProofs` | reference counts, frees, and both kinds of collection pass by pass | `core/h.h`, `opt/gc.c`, `utils/talloc.h`, `vm/vm.c` |
| `Toplevel`, `ToplevelProofs` | runs, errors, the stacks they cut, the builtins that catch, compilation state, interrupts | `utils/toplevel.h`, `vm/vm.c`, `builtins/md2.c`, `vm/load.c`, `main.c`, `builtins/ffi/ffiExport.c` |
| `Blocks` | the interpreter: scopes, blocks, variables, namespaces, headers, and the reference each instruction owns | `vm/vm.c`, `vm/vm.h`, `core/ns.c` |
| `OrderedMap` | what a hash map promises: a map in order of insertion | abstract |
| `HashMap`, `HashMapProofs` | the table, the lists, growth, deletion and compaction of `•HashMap` | `builtins/search.c`, `builtins/sysfn.c` |
| `Imports` | the cache of imported files, on a `HashMap` | `builtins/sysfn.c`, `vm/load.c` |
| `Shell`, `ShellProofs` | a child process and the loop over its three pipes | `builtins/sysfn.c` |
| `SysFnsMC` | instances of the last three | |
| `TimSort`, `TimSortMC`, `TimSortProofs`, `TimSortOrderProofs` | the merging sort, one merge or run at a time | `builtins/sortTemplate.h` |
| `Arrays` | element types, fills, flags, squeezing, building and joining; the functions a program calls under a primitive, by name: they keep, widen or change what they get, or fail | `core/stuff.c`, `core/fillarr.c`, `core/arrFns.h`, `builtins/squeeze.c`, `utils/mut.{c,h}` |
| `Shapes`, `Joins` | every structural primitive, its inverse, its repetition, and functions under it | `builtins/sfns.c` |
| `Selects` | First Cell, Select by one index array or several, from rows, and under them | `builtins/select.c` |
| `Slash`, `Group` | Indices, Replicate, their inverses, Under; Group and Group Indices | `builtins/slash.c`, `builtins/group.c` |
| `Ordering`, `Sorts` | comparison of values; Sort, Grade and Bins by each method | `builtins/compare.c`, `builtins/grade.h`, `builtins/sort.c` |
| `Windows` | Range, Windows, Find, Shape; mapping over elements | `builtins/fns.c`, `utils/each.c` |
| `Arith` | arithmetic and comparison of integers and characters of every element type | `builtins/arithd.c`, `builtins/arithm.c`, `builtins/cmp.c` |
| `Searches`, `SelfSearch` | Index of, Member of, Progressive index of; Mark Firsts, Occurrence Count, Classify, Deduplicate | `builtins/search.c`, `builtins/selfsearch.c` |
| `Scans`, `Reductions` | Scan; Fold and Insert; over elements, cells and words of bits | `builtins/scan.c`, `builtins/fold.c` |
| `Transpose`, `Cells` | Transpose and Reorder Axes with inverses and powers; Cells and Rank with their shortcuts | `builtins/transpose.c`, `builtins/cells.c` |
| `Promises`, `Definitions` | what the primitives are defined to give, index by index | abstract |
| `Programs` | a program that calls primitives one after the other on the array it holds | |
| `Structural`, `Primitives`, `Operators` and their `MC` modules | the calls such a program makes, and the properties of the results | the above |

The parts meet at few points, and each module names the others' effect where it needs
it. `Buddy` sees a collection as something that frees or marks some blocks and then
rebuilds the lists. `Gc` sees the allocator as `empty` blocks, and a throw as `Forget`.
`Toplevel` sees collections as `run_pressure` on one side and as the end of a countdown
on the other. `Blocks` keeps each object's count and takes a throw as forgetting what
the C frames hold. `Imports` extends `HashMap` and works on a table of its own.
The primitives share `Arrays`; sharing (`refc`) is an argument `ru` of those operators
whose code asks for it.

### Buddy

State: `mmInfo` and `type` give for each block start its bucket and whether it is
in use, freed by a collection (`t_freed`) or empty; `buckets` are the free lists,
`ctrs` the counters of blocks in use, `al` and `heapAlloc` the arenas;
`allocMoreRec`, `lastGCUsed`, `gcDepth`, `interrupted` are the globals of the same
names; `pc`, `req`, `retry`, `scan`, `cause` are where the program is inside
`allocL`, `allocateMore` or `freeFreedAndMerge`.

Actions: `Request` and `Free` are the rest of the program. `AllocL`, `AllocS`,
`SplitAndTake`, `MaybeGC`, `ForceGC`, `ThrowOOM`, `ThrowInterrupted`, `Mmap`,
`MmapFails` are the paths of an allocation in their order; `GCFree`, `GCMark`,
`MergeBegin`, `StartArena`, `MergeEmpty`, `MergeUsed`, `RunEnds`, `Carve`,
`ArenaDone`, `GCDone` are a collection, one block at a time. Addresses are in units of
the smallest block, and `Size` is either `2^b` or `3*2^b`, which are the two instances
of the template. The bytes skipped at the start of an arena for alignment are part of
the choice of `Bases`.

### Gc

State: for each object its `kind`, its fields (`slot`), its count `refc` and its
mark; who else holds references: `roots` (everything the root functions and tables
visit), `held` (local variables of C code), `prof` (the profiler's buffer), `lost`
(references whose holder was abandoned by a throw). `work` is the stack of
decrements and frees that a recursive free has still to do, `phase` and `cur` where
a collection is.

Actions: `New`, `Copy`, `Load`, `Drop`, `Store`, `Root`, `Unroot` are the ways C code
moves references; `Forget` is a throw; `ProfilerStart`, `Sample`, `ProfilerStop`, `ProfilerResults`,
`ProfilerFree` are the profiler: its handler may run between any two steps of a free, the results take over
references that the buffer holds, and freeing the buffer decrements nothing. `Dec`, `FreeBlock`,
`TryFreed` execute frees one decrement at a time; `Start`, `DecAll`, `MarkHeld`,
`IncAll`, `UnmarkAll`, `MarkRoots`, `TryFree`, `TriedAll`, `Merge` are `gc_run`.
Marking from a set is one step (`Reach`), because nothing else runs meanwhile and
the order of marking does not matter. A collection inside a running program does not
know what C code holds, so it subtracts all references between heap objects and keeps
what still has a count; a top-level one is made when no C code holds anything and
trusts the roots alone.

### Toplevel

State: `stack` is the C stack, reduced to the frames that own an entry of a global
stack; `cf` the `CatchFrame`s, `gs` the value stack (only saved error messages are
told apart), `env` the height of the environment stack; `nesting`, `countdown` are
`run_nesting` and `run_countdown`; `comps` stands for `comps_curr`; `thrown` and
`lastErr` are the message being thrown and the one CurrentError gives; `flag` and
`armed` are the interrupt flag and the installed handler. Wherever user code runs it
may call something that catches (`EnterCatching`), a block (`EnterBlock`), the compiler
(`EnterComp`), come back in through an entry point (`EnterEntry`), raise (`Raise`), or
return. A builtin's value on `gStack` is checked against its end (`AddValue` throws); an instruction's is
not in a release build (`PushValue`: the process ends at the protected page, `status` is `"fault"`).
`Throw` is `throwImpl` with all it does; the `Land` actions are what each catcher does after `longjmp`. `Signal` is the SIGINT handler, enabled at every step
while it is installed.

### Blocks

State: `heap` the scopes, blocks and namespaces with their counts and variables, `stack`
the value stack, `frames` the environments that run with the instruction each will
continue at, `result` what an ended line leaves. A program is not fixed: the next
instruction of the running body is any one whose operands are on the stack, so the
model covers every program within the bounds. Instructions are actions: push a number, a block or a
variable, set, modify (`F↩` reads the variable *and takes it out*, then sets it),
destructure (which may fail half-way), call, enter the next body when a header does not
match, return, return a namespace, read a field, and throw.

### HashMap, Imports, Shell

`HashMap`: `tab` holds the entries `a`, their number `pop`, the level and both lists;
`shared` says which lists were handed out. A map starts empty or built from lists; actions are
the namespace's functions (`Get`, `HasKey`, `SetOld`, `SetNew`, `DeleteKey`, `Count`, `ListOf`) with the
growth and the compaction they cause, and `Release`, by which the program drops a list. `AnswersRight` shows that it implements `OrderedMap`.
`Imports`: files import each other in any nesting, fail, catch, and clear the cache in
between. `Shell`: `at` is where the parent is in `sh_core`, `fds` and `theirs` the ends of pipes that are
open in it; the child reads, writes, closes and exits in any order; a signal may interrupt any `poll`.
A call may also end early in a throw: before there is a process, with whatever pipes were made (`SpawnFails`), between
its start and the loop (`SetupThrows`), and in the loop when there is no memory to join what was read
(`ReadThrows`). Then `Close` and `WaitPid` are skipped, as in the code.

### TimSort

State: the array `dst`, the stack of `runs`, the end `curr` of the last run. `Count` and
`Follow` find a run one comparison at a time, `Extend` lengthens a short one by insertion,
`Push` puts it on the stack, `Check` is `CHECK_INVARIANT`, `Collapse` and `Finish` are a merge
each, as `TIM_SORT_COLLAPSE` and the end of the sort choose them. `Small` sorts short arrays.
An element is a key and a value. The code compares keys alone; in the inputs the value is the
element's position, as in a grade, so that one can tell in which order equal keys were left.

### The primitives

An array is a record of element type, shape, elements, fill and flags (`fl_squoze`,
`fl_asc`, `fl_dsc`). Elements are integers; from `Chr` up they are characters. Five element
types stand for nine: bits, `i8`, the wider integers and doubles together, characters, and
`el_B`, which holds anything. Writing an element into a type that does not fit leaves
`Clobbered`, so an unchecked store (`mut_setG` and its like) into the wrong type is seen.

Each primitive is an operator named after its C function, with the conditions of that
function in their order. Where the code chooses a method by a length that is out of TLC's
reach, the threshold is a constant (`Block`, `DenseRatio`, `SparseRatio`, `ChunkFrom`,
`FilterFrom`, ...), or, where the choice cannot change which calls are legal, the method is
an argument `how` that the program picks freely; this allows more than the code does.
Methods are followed as far as their results could differ. Replicate and Indices go by density, by words of
bits and by blocks of 16-bit offsets; a row of bits is summed from the words that are loaded for it; a search by table reads
only places that were initialised, which is all of a narrow type's range or just what is looked up;
quotients of the modulus and of floor division are products with a reciprocal rounded to `FltBits` bits; the narrow
loop of an arithmetic function stops at the first result that does not fit and another takes over.
An array that nothing else holds (`ru`) is modified in place, and a function under a selection may fail after
it wrote part: `held` is what another holder of the array sees.
A program starts from any of `Seeds`, makes one call, keeps its result with the type, fill
and flags the code gave it, and makes a second call on that: a wrong flag left by the first
call is read by the second. `Promises` and `Definitions` say what the result should be,
without following how the code moves elements. A call that C code hands to the runtime
written in BQN gives `Base`, which the properties pass over.

## Runs

| run | what it shows |
|---|---|
| `BuddyBlocks` | buckets 0..2, arenas of 2 units at two places, limit 5: blocks never overlap (`NoOverlap`), arenas are tiled (`Tiled`), free lists sound and complete, empty neighbours merged (`FreeListsSound`, `NothingWasted`), counters exact through collections (`CountersExact`), and `Heap` implemented |
| `BuddyLimit` | buckets 0..1 of sizes 3 and 6, limit 12, interrupts, automatic collection on and off: retry and refusal at the limit (`OOMOnlyAfterCollection`); every request is answered (`Answered`) |
| `GcCycles` | graphs of three objects and up to five counted references, two of them held by C code, with throws and a profiler: nothing in use is freed (`LiveKept`), counts survive collections (`RefcExact`), nothing is freed twice or with a count left (`FreedOnce`), nothing dead stays (`Complete`) |
| `ToplevelUnwind` | six frames, two blocks, two values, signals, compilations inside compilations: a `longjmp` never resumes a function that is gone (`CatchersLive`), the globals tell what is on the stack (`GlobalsExact`), after an error the next idle moment has collected or asked for it (`RunsExact`), what is thrown is handled (`ThrownHandled`) |
| `Interp` | four objects, two frames, stack of three: counts exact at every instruction (`CountsExact`), a modified variable unavailable only while its modification runs (`OutOnlyWhileModified`), when a body ends, all that becomes unreachable is freed, but for what hangs from loops of references other than those between the body's scope and its own functions (`OnlyLoopsStay`) |
| `SysFns` | maps of up to four keys with every choice of 4-bit hashes offered; three files importing each other; a child with pipes of two bytes: `TableSound`, `ListsKept`, `AnswersRight`; `MarksRight`; all output arrives, a call that returns has closed and waited for everything, and one that throws leaves open exactly what it had open then (`PipesRight`); each call ends (`Returns`) |
| `Structural` | every call of a structural primitive: `ResultsProper`, `AsPromised`; repetition is iteration (`RepeatIsIteration`); Under changes what it selects and nothing else (`UnderIsLocal`) |
| `Primitives` | selection, replication, grouping, sorting, searching sorted data, windows: `ResultsProper`, `AsDefined`; modifying a selection replaces what was selected and is not seen by other holders of the array, also when it fails (`UnderReplaces`) |
| `Operators` | arithmetic, searches, scans, folds, transposition, cells: `ResultsProper`, `OperatorsAsDefined`; folds over no cells have a fill the function has (`FillsFollow`); Cells and Rank are the function on every cell (`CellsAgree`) |
| `TimSort` | all arrays of three keys up to length 6 and of two keys up to 10, and sawtooth arrays: runs tile the array, the stack's lengths shrink, runs are sorted and stable, the sort ends |
| `HashMapOOM` | *violation*: `Set` that runs out of memory leaves a table that counts a key the lists lack |
| `StaleOrder` | *violation*: an overtake of a sorted list stays marked sorted |

Bounds, and why they suffice. *Buddy*: three buckets are the fewest in which a split
leaves two blocks of different sizes and a merge carves more than one; two arenas are
the fewest in which a run of empty blocks must stop at an arena's end; one bucket
above the arena size makes a request larger than an ordinary arena. *Gc*: three
objects with two fields hold a cycle with a tail, two cycles that share a node, and a
cycle that is entered from outside. `MaxRefs` (the counted references at a time), `MaxHeld`, `MaxLost`, `MaxSamples` limit
only what the program does, not the collector; `View` leaves out marks and `top` between
collections, where nothing reads them. *Toplevel*: six frames allow a line, a catch, its
handler's nested catch, blocks in between and a compilation; stacks of two entries make
every overflow check fire, and the one that is missing. `MaxCountdown` is 64 in the code; 2 is enough to tell a count
from a reset. *Blocks*: `NObj` 4 holds two scopes, a block of each and a namespace in place
of one; `MaxRefs` bounds what a program may pile up. *HashMap*: four keys with four bits of
hash give runs of entries that start, meet and wrap into the pad; the list bound of four lets a
compaction happen after deletions. *Shell*: an input longer than a pipe, a child that
writes more than one pipe holds, and a buffer (`BufSize`, 1) smaller than what a pipe holds, so that a read may leave something
behind. *Arrays*: `I8Max` 3 or 7 puts the boundary between two
element types, `UszMax` 20 that of lengths and `UrMax` 4 that of ranks, inside what two calls reach; words
have 4 bits, so lists of 6 or 7 cross words. `FltBits` is 14 where
the code has 53: every integer of the model is exact, and 13 is a divisor whose rounded reciprocal is too small, so that floors would be wrong
without the half step the code adds. The densities at which Replicate and Indices change their method, the length of their
blocks and the length up to which indices are 16 bits wide are scaled to the lists of the run. Two calls are what it takes for a wrong flag to do
harm. `MaxIa`, `MaxRank` and `MaxProduct` bound only which results are kept for a second call.

Deadlock is not checked where the system really may stop: in `ToplevelUnwind` the process
may exit; in `Interp`, `Structural`, `Primitives` and `Operators` the program ends after its
last call; in `SysFns` a child process is done, and in `TimSort` the sort is.

## Fairness

`Buddy`: `WF(Serve)` and `WF(Collect)`: a call of the allocator and a collection are
sequential code that is run to its end. Nothing is assumed of requests, signals or
`mmap`. `Toplevel`: `WF(Land)`: the code after a `longjmp` is straight-line C up to the next
call of user code. User code itself may run for ever. `Shell`: `WF` of the parent's step,
which is enabled when `poll` would return, and of the child's: the child is taken to
go on while it can and to end after a bounded output, since with a child that does
nothing for ever `•SH` rightly waits for ever. `TimSort`: `WF(Next)`, sequential
code. The others state safety only.

## What is proved

`BuddyProofs`, for every number of buckets, block sizes `2^b` and `3*2^b` (any `Size` that
doubles), heap limit, set of addresses and build option:

* `TypeCorrect`: `Spec => []TypeOK`
* `BlocksApart`: `Spec => []NoOverlap`
* `WalkSafe`: `Spec => []Tiled`
* `ListsCorrect`: `Spec => []FreeListsSound`

Assumptions: `BucketAssumption`, `SizeAssumption`, `HeapAssumption` of `Buddy`. None of the four is inductive alone. Splitting
a block keeps blocks apart only if the block came from a list that really holds an empty
block of that size, and walking an arena is safe only if blocks tile it. The invariant
`IInv` joins them with: every block lies in an arena and arenas are apart
(`BlocksInArenas`, `ArenasApart`), the cursor of the merge is at a header and what it has
counted is the run of empty blocks behind it (`ScanOK`), and while the lists are being rebuilt
they hold only what lies behind the cursor (`ListsBehind`), because the headers ahead are
about to change. In the middle of carving, the run is a gap in the tiling: `Tiled` says
so with `Gap`. There is one lemma for each action, and under it one step for each conjunct
that the action can disturb.

`BuddyHeapProofs`, from the same assumptions and on top of `IInv`:

* `NothingIsWasted`: `Spec => []NothingWasted`
* `CountersStayExact`: `Spec => []CountersExact`
* `RefusedAfterCollection`: `Spec => OOMOnlyAfterCollection`, an action property
* `BuddyImplementsHeap`: `Spec => ImplementsHeap`, the refinement of `Heap`

The first two need `AccountsInv`. That the merge joins all it can is a fact about two neighbours
carved in different steps: `CarveAscends` says that what is left of a run is divisible by twice the
block carved last, so the lowest set bit, which is taken next, is larger (`CarveLeaves`); `RunAlone` says
that a run never starts behind an empty block; `BehindClean` that nothing dead is left behind the cursor. The
counters are cardinalities, and each action's lemma says which block enters or leaves the set it
counts. The third goes through `RecInv`, which says when `allocMore_rec` may be set. For the refinement
`AbsStep` maps each action: handing out a block is `Grant` (apart from all that is live by `NoOverlap`
and `FreeListsSound`), freeing and marking are `Release`, the throws `Refuse`, and the steps of the merge change nothing that
`Heap` sees, which needs `BehindClean`: the headers dropped at the end of a run are of empty blocks.
Facts about all sizes that one would prove by induction (a larger block holds two of any smaller size, what twice a
size divides, twice a smaller size divides) are proved from `LeastElement`, that a set of naturals has a least member.

`TimSortProofs`, for arrays of every length and every threshold:

* `RunsInPlace`: `Spec => []RunsTile`: runs are not empty and lie end to end from the start,
  so every merge stays within the array.
* `StackStaysShort`: `Spec => []StackShrinks`: when a run is looked for, each run on the stack is
  longer than the next two together.

Assumption: `TimSortAssumption` (inputs are sequences of pairs of integers). The sort checks only the
upper four runs of its stack, the point where a well-known version of this algorithm was wrong. The
proof goes through `TileInv`, which adds types and the place of `curr`, and `StackInv`, which
says how far down the condition still holds while runs are merged: `CheckSettles` and `CollapseSettles` show
that when the code stops merging, the condition holds for the whole stack again.

`TimSortOrderProofs`, on top of `TileInv`, for arrays of every length:

* `SortsStably`: `Spec => []RunsSorted`
* `SortPermutes`: `Spec => [][Elements' = Elements]_vars`: no step loses or doubles an element

Assumptions: `TimSortAssumption` and `NumberedAssumption` (values ascend with the position). That
each run is in order is not inductive: two runs with an equal key can be merged stably only if the
elements of the lower one all came first. `OrderInv` says so with `Cut`: no element has crossed the start of a run, nor an end
of the part that is being looked at; within a run, a reversal is stable because the run fell strictly
(`Descends`). `CutKept` and `OrderKept` say what a change of one part of the array (`Shuffled`) leaves alone elsewhere, and `MergedKeeps`,
`ReversedKeeps`, `InsertedKeeps` what the three kinds of change do to their own part. Under these are the two merges and the
binary search. They are recursive functions: before anything can be said of what `CHOOSE` picks, such a function
must be shown to exist. `Recursion` proves it once, for a function whose value is given or made from
the value at a point of smaller rank, from `LeastElement`; what the functions return (`LeftMerges`, `RightMerges`,
`FindPlaces`) is proved by the absence of a first point where it would be wrong. `SortPermutes` follows from two facts:
a step only moves elements (`OnlyMoved`), and none is there twice before or after it.

`ToplevelProofs`, for every depth of the C stack, every `ENV_SIZE` and `GS_SIZE`, every set of errors
and every build option:

* `CatchersStayLive`: `Spec => []CatchersLive`
* `GlobalsStayExact`: `Spec => []GlobalsExact`, with foreign functions that call back and remap
  functions that compile, or without
* `RunsStayExact`: `Spec => []RunsExact` if no foreign function calls back. (With such calls a throw
  across the inner entry point leaves `run_nesting` too high: see the observations below.)

Assumptions: `ToplevelAssumption`, and `MessagesAssumption`: a value on `gStack` is not a saved message.
The properties count blocks and handlers; none is inductive, since a throw cuts the stack at any height
and a count of the whole says nothing of a part. `Inv` therefore says of each frame, by its place, what
was on the global stacks when it was put there: `Catchers` (the CatchFrames are those of the waiting frames, in their
order), `EnvCounts` (each holds the number of blocks below it), `GsTiled` and `GsSaved` (frames own
consecutive parts of `gStack`: a handler one saved message, a block values, the others nothing), and
`ErrsSaved` (the message a handler saved is the current error of the frames below it). These are
statements about any stack, so that a few lemmas carry the proof: `PutKeeps` (a frame is put on top),
`CutKeeps` (the stack is cut to any height), and from the two `ThrowKeeps` (it is cut and the
last frame lands) and `GoOnKeeps` (it goes on as another frame). `RestoredRight` shows that the order in which `throwImpl` frees
what it cuts off `gStack` ends with the right `lastErrMsg`. With them go `CompInv`, `SignalInv`, `PendingInv` and
`RunInv` for the other globals, and one lemma for each action.

`GcProofs`, for every number of objects, every finite set of fields and every bound on references:

* `LiveStaysKept`: `Spec => []LiveKept`
* `RefcStaysExact`: `Spec => []RefcExact`
* `FreedStaysOnce`: `Spec => []FreedOnce`
* `CollectionsAreComplete`: `Spec => Complete`, the action property of the end of a collection

Assumption: `GcAssumption` (bounds are natural numbers, fields a finite set of integers: `freeO` goes through
them in order). A count alone is not inductive, since while frees are being made it is the number of references *plus* the
decrements that are still pending, without the fields of objects that only wait for `mm_free`. `Account`
says so for each object: in the parts of a collection that have subtracted what fields hold, its count is what is held
`Outside` of fields, otherwise that and the fields (`In`) and the pending entries (`Decs`, `Trying`). `PhaseInv` says
what the marks mean in each part: they are the *least* set that has what the collection trusts and is closed under references (`Marks`).
Closed gives `LiveStaysKept`; least gives `CollectionsAreComplete`, and also that no marked object is waiting
to be freed. `RankFacts` and `DecrementsFacts` show that freeing an object makes exactly one decrement for each
full field, `FromCut` and `FromPut` what that does to the references counted. `MergeFacts` is the heart of the argument about cycles:
when all blocks have been tried, what refers to a `t_freed` block would be an unmarked object, and there
are none left.

`ShellProofs`, for inputs and outputs of every length, pipes of every size and a process that does what it likes:

* `PipesStayRight`: `ShSpec => []PipesRight`

Assumption: `PipeAssumption` (a pipe holds at least one byte). The loop of `sh_core` decides whether
to end by what an earlier `poll` said, while the process has gone on since: the heart of the invariant is `HupRight`, that a
pipe reported without a writer still has none, and that what was in it when it was reported is read before the test.
That nothing is lost (`BytesConserved`) is inductive given that the process writes only to ends it has (`WritesOpen`), and `EndsRight`
says which ends the parent has open at each place. A signal during `poll` ends the loop early; the theorem claims the whole
output only of calls without one. That all is closed and the process waited for is claimed of calls that return (`ClosedInTime`). Of those
that throw, `LeftByFailure` says what stays: the pipes made so far with both their ends if there is no process yet,
otherwise the ends of this side, standard input among them as long as input is left, and a process nobody waits for.
For these `TheirsRight` and `LeftRight` follow the child's ends and what a throw passes.

`HashMapProofs`, for every set of keys and values, every way keys are hashed, every number of hash bits, of levels,
of places past the last home and of tolerated deletions:

* `MapSound`: `MapSpec => []TableSound`
* `ListsStay`: `MapSpec => []ListsKept`
* `PopRight`: `MapSpec => []PopExact`, the assertion of `hashmap_compact`, which holds as long as `Set` does not run out
  of memory (`HashMapOOM` shows that it fails when it does)
* `MapAnswers`: `MapSpec => AnswersRight`, the refinement of `OrderedMap`
* `ImportsRight`: `ImportSpec => []MarksRight`

Assumptions: `SizesAssumption`, `BoundsAssumption`, `NoneAssumption`, `HashAssumption` and, for the last, `PathsAssumption`.
`TableSound` is nearly inductive; `MapInv` adds that a deleted key's value is gone too, that no key is there twice
and that `pop` counts them, without which a list that is given out uncompacted (`pop` is its length) could still
have holes. The argument goes in three layers. Of a table without its lists it is shown what a search finds (`Search`: the
entries with the hash lie between `Start` and `Stop`, smaller ones before and greater ones after), and that inserting at
`Stop`, taking an entry out and copying to a larger table keep the order, the homes and the absence of gaps (`Packed`), the empty last
place (`Closed`) and the correspondence of entries to list places (`Names`). `Copying` needs the places the copying loop chooses, a
recursive function, which `Recursion` shows to exist. Of the lists, `Ranks` and `Nth` show that counting numbers the live
places from 1, and `Keeping`, `KeptMore`, `KeptLess` and `KeptSet` what compacted lists look like after each change. `Adding`,
`Replacing`, `Removing`, `Compacting` and `Building` put the two together for each operation. The refinement then speaks only of
`KeysOf` and `ValsOf`, the lists as if they were compacted: `SetsNew` appends to them, `SetsOld` changes one value,
`Deletes` removes one place, `Compacts` leaves them alone, and `Finding` says that a lookup goes by them.
The same lemmas about any map give the theorem about the cache: `ImportInv` is `Sound` of the cache with `MarksRight`, and `Pushed` and `Popped`
say how the number of running imports of a file changes.

Only model-checked: everything else. Liveness (`Answered`, `Returns`, `ThrownHandled`, `Ends`) is out of
the prover's reach. `Blocks` and the modules of the primitives use RECURSIVE operators,
which exclude proofs; what is said of the primitives' results would besides need an induction over data for each of
their recursive definitions, as `TimSortOrderProofs` makes three of them.

## Findings

* `HashMapOOM`: `builtins/search.c:740` puts the key into the table and counts it before it grows the table
  or extends the lists; when either throws, `pop` is one more than there are keys, which
  `hashmap_compact` asserts it is not (`builtins/search.c:667`).
* `StaleOrder`: `builtins/sfns.c:735` restores the flags of `𝕩` after `take_impl` appended fills:
  `5↑∧2‿1` is `1‿2‿0‿0‿0` and marked ascending, against the check of `core/h.h:628`. `SysFns` and
  `Structural` leave these two cases out (no memory failure in `Set`; `OvertakeSorted = FALSE`).

Observations made while modelling, which have no run of their own:

* A rotation by a list that is repeated a negative number of times multiplies by the count's absolute value
  and rotates backwards, but in the branch for large counts it multiplies by the signed count
  (`builtins/sfns.c:1616`) and rotates backwards as well; `SlowBackwards = FALSE` leaves that branch out.
* A namespace's field is read without asking whether its variable is set (`vm/vm.c:911`, `core/ns.c:56`), where
  `test/cases/syntax.bqn:82` expects an error for variables.
* `builtins/cells.c`: `∾˝˘` on rows of at most one element, `⟨⟩⊸↓˘` and `⟨⟩⊸⌽˘` without a fill, and the shifts'
  fills differ from the function on each cell; the rank of a result is unchecked in `⥊⎉0` at rank `UR_MAX`, in `w⊸⊏˘` and in dyadic `≍`.
  `KnownDiffer = FALSE` leaves these out of `Operators`.
* Selecting from an array whose cells have no elements does not check two or more indices
  (`EmptyCells = FALSE`); selecting with one index does not check the result's rank; a unit on the
  left of `⊔` adds an axis without such a check (`builtins/group.c:401`).
* The product of a replication of cells is computed and not looked at (`builtins/slash.c:684`), and the
  length of a join of many parts is not checked.
* `opt/mm_buddyTemplate.c:77` promises an alignment of 32 bytes that merging does not keep for the array allocator.
* `vm/vm.c:1023` clears the interrupt flag before the handler is removed, so that a signal in
  between makes the next one abort the process (`vm/vm.c:1011`).
* `bqn_call1` and its like have no `CATCH` (`builtins/ffi/ffiExport.c:164-182`): an error that passes them leaves
  `run_nesting` too high for good, although `utils/toplevel.h:21` asserts otherwise.
  `ForeignCalls = FALSE` leaves it out.
* `vm/load.c:256` calls user code while `comps_curr` is set; `vm/load.c:212` asserts that it is not. `ToplevelUnwind` has
  this (`Remappers = TRUE`): a compilation inside another ends the process, and until then the globals are right.
* An instruction that pushes a value checks for the end of `gStack` only in a debug build (`core/gstack.h:24`); otherwise
  deep recursion with many operands is a fault and not the error "Stack overflow".
* `sh_core` leaves descriptors open when a process cannot be started, as its comment says (`builtins/sysfn.c:1035`), and
  descriptors and an unwaited process when `vec_join` throws in the loop (`builtins/sysfn.c:1095`).
* A longer reshape under a function is left to the runtime (`builtins/sfns.c:1550`), and is external here.
* `opt/gc.c:63` never frees temporary buffers, so repeated throws out of, for example, `REPEAT_GEN`
  (`builtins/md2.c:98-119`) leak them, against `vm/vm.c:1773`. `Complete` is stated of objects only.
* A signal during `poll` is taken for the end of the output (`builtins/sysfn.c:1092`); `PipesRight` speaks of calls
  without one.

## Components, and what is not modelled

`PROJECT.json` lists every component with its files and status, and the hazards with the
properties that would catch them. In short:

* **Modelled**: the allocator, reference counts and the collector, errors and unwinding,
  interrupts, scopes and namespaces, imports, squeezing, sorting, searching, selection, replication and
  grouping, structural functions, folds and scans.
* **Partly**: the allocator for arrays (an instance of `Buddy`; which of the two allocators serves a request
  is left out); the session (its commands and line editing are left out); compilation (the state
  over errors, not the translation of bytecode into bodies); the interpreter (modifier blocks and
  `vm/rtwrap.c` are left out); the profiler (its references, not its buffer); hash tables (the `HashMap`
  namespace, not `utils/hashmapTemplate.h`); child processes (POSIX only); arrays and their building (no
  nested arrays, one memory layout); derived functions (no repetition by a table of counts); arithmetic (integers and characters; of floating point only the
  rounded quotients behind the modulus: division, powers and roots have no counterpart in TLC's integers); comparison and names (atoms and arrays
  of atoms; formatting is a library's).
* **Not modelled**: native code generation (its result is the encoding of instructions, for the
  semantics of `Blocks`); vector code written in Singeli, for which the C code modelled here is the
  reference; text encoding, bit copies and the hashing of values (pure functions of bytes, below the arrays
  of the models); the foreign function interface but for its effect on runs; the C compiler of BQN
  source (a translation of text); the table of inverses (the inverses written in C are with their
  functions); files, time, terminal and random numbers (operating system calls without state of
  their own); Windows support, the build system and the tests.

The primitives are modelled as built without SIMD. Elements that are themselves arrays appear only
where a primitive takes or returns a list of arrays. What may still be added: the translation
of bytecode into bodies with its windows without collection, the profiler's buffer, and both buddy
allocators under one limit.
