------------------------------- MODULE Buddy -------------------------------
(***************************************************************************)
(* The buddy allocator of CBQN: opt/mm_buddyTemplate.{h,c}, instantiated   *)
(* by opt/mm_buddy.c (block sizes 2^b) and twice by opt/mm_2buddy.c        *)
(* (2^b and 3*2^b).  A block is a header (mmInfo: its bucket, type: in use, *)
(* t_freed, t_empty) followed by its bytes; free blocks of one bucket form *)
(* a LIFO list; memory comes from arenas obtained with mmap and is never   *)
(* returned.  The garbage collector (opt/gc.c) enters here only through    *)
(* what it does to blocks: it frees or marks some of those in use, and then *)
(* rebuilds every free list while merging runs of empty blocks.            *)
(*                                                                         *)
(* The program is sequential; what interleaves is the order of the calls,  *)
(* the signal that requests an interrupt, and the outcome of mmap.         *)
(***************************************************************************)
EXTENDS Integers, Sequences, FiniteSets, Functions

CONSTANTS
  MaxBucket,   \* the largest bucket a request names (63 in the code)
  Size,        \* BSZ: bytes of a block of each bucket
  ALSZ,        \* the bucket whose size a new arena has at least
  HeapMax,     \* mm_heapMax
  Bases,       \* addresses mmap may return (after the padding is skipped)
  ReplInterrupt, \* the build option REPL_INTERRUPT: SIGINT is caught
  GCDepths     \* values of gc_depth that the session's `)gc` commands reach

Buckets == 0 .. MaxBucket

ASSUME BucketAssumption == MaxBucket \in Nat /\ ALSZ \in Buckets

\* BSZ(X) is 1<<X or 3<<X
ASSUME SizeAssumption ==
  /\ Size \in [Buckets -> Nat \ {0}]
  /\ \A b \in Buckets : b + 1 \in Buckets => Size[b + 1] = 2 * Size[b]

ASSUME HeapAssumption ==
  /\ HeapMax \in Nat /\ Bases \subseteq Nat
  /\ ReplInterrupt \in BOOLEAN
  /\ GCDepths \subseteq {0, 1} /\ GCDepths # {}

VARIABLES
  mmInfo,         \* block start -> bucket; its domain is the set of blocks
  type,           \* block start -> "used" | "freed" | "empty"
  buckets,        \* bucket -> free list, first element first
  ctrs,           \* bucket -> number of blocks counted as in use
  al,             \* the arenas, in the order they were obtained
  heapAlloc,      \* mm_heapAlloc
  allocMoreRec,   \* allocMore_rec: inside the retry after a forced collection
  lastGCUsed,     \* gc_lastGCUsed[0]
  gcDepth,        \* gc_depth: automatic collection is off when positive
  interrupted,    \* cbqn_interrupted, set by the SIGINT handler
  pc,             \* what the program is doing, see PCs
  req,            \* bucket of the request being served
  retry,          \* this call of allocL is the one after alloc_rec
  scan,           \* cursor of freeFreedAndMerge
  cause,          \* who asked for the collection that is running
  collected,      \* history: a collection ran since the request was made
  cut             \* history: "interrupted" was thrown while rec was set, and
                  \*   nothing has cleared rec since

blockVars == <<mmInfo, type, buckets, ctrs>>
arenaVars == <<al, heapAlloc>>
gcVars    == <<lastGCUsed, gcDepth, interrupted>>
callVars  == <<pc, req, retry, scan, cause>>
histVars  == <<collected, cut>>
vars == <<blockVars, arenaVars, allocMoreRec, gcVars, callVars, histVars>>

PCs == {"idle", "alloc", "collect", "merge", "carve"}
Types == {"used", "freed", "empty"}
Causes == {"maybe", "force", "manual"}
NoScan == [arena |-> 0, at |-> 0, empty |-> 0]

heads == DOMAIN mmInfo
End(a) == a + Size[mmInfo[a]]
ArenaEnd(i) == al[i].p + al[i].sz
Push(s, a) == <<a>> \o s
Listed(b) == {buckets[b][i] : i \in DOMAIN buckets[b]}

\* BN(heapUsed), gc.c's tot_heapUsed
HeapUsed == FoldFunction(+, 0, [b \in Buckets |-> ctrs[b] * Size[b]])

Init ==
  /\ mmInfo = << >> /\ type = << >>
  /\ buckets = [b \in Buckets |-> << >>]
  /\ ctrs = [b \in Buckets |-> 0]
  /\ al = << >> /\ heapAlloc = 0
  /\ allocMoreRec = FALSE
  /\ lastGCUsed = 0 /\ gcDepth \in GCDepths /\ interrupted = FALSE
  /\ pc = "idle" /\ req = 0 /\ retry = FALSE
  /\ scan = NoScan /\ cause = "manual"
  /\ collected = FALSE /\ cut = FALSE

-----------------------------------------------------------------------------
(* Calls from the rest of the program *)

\* mm_alloc, after the byte size has been rounded to a bucket
Request(b) ==
  /\ pc = "idle"
  /\ pc' = "alloc" /\ req' = b /\ retry' = FALSE /\ collected' = FALSE
  /\ UNCHANGED <<blockVars, arenaVars, allocMoreRec, gcVars, scan, cause, cut>>

\* mutant: the counter is not touched
UncountNothing(a) == ctrs
Uncount(a) == [ctrs EXCEPT ![mmInfo[a]] = @ - 1]

\* the block a becomes t_empty and is put at the front of its free list
FreeLink(a) ==
  /\ type[a] # "empty"
  /\ type' = [type EXCEPT ![a] = "empty"]
  /\ buckets' = [buckets EXCEPT ![mmInfo[a]] = Push(@, a)]
  /\ ctrs' = Uncount(a)
  /\ UNCHANGED mmInfo

\* mm_free, from a reference count that reached zero
Free(a) ==
  /\ pc = "idle"
  /\ FreeLink(a)
  /\ UNCHANGED <<arenaVars, allocMoreRec, gcVars, callVars, histVars>>

\* `)gc`, and the collection between two lines of input
CollectNow ==
  /\ pc = "idle"
  /\ pc' = "collect" /\ cause' = "manual"
  /\ UNCHANGED <<blockVars, arenaVars, allocMoreRec, gcVars, req, retry, scan,
                 histVars>>

\* `)gc off` and `)gc on`
SwitchGC ==
  /\ pc = "idle"
  /\ gcDepth' = 1 - gcDepth /\ gcDepth' \in GCDepths
  /\ UNCHANGED <<blockVars, arenaVars, allocMoreRec, lastGCUsed, interrupted,
                 callVars, histVars>>

\* the signal arrives at any point of the program
Signal ==
  /\ ReplInterrupt /\ ~interrupted
  /\ interrupted' = TRUE
  /\ UNCHANGED <<blockVars, arenaVars, allocMoreRec, lastGCUsed, gcDepth,
                 callVars, histVars>>

-----------------------------------------------------------------------------
(* Serving a request *)

\* the request is over, by a return or by a throw
Over ==
  /\ pc' = "idle"
  /\ retry' = FALSE
  /\ UNCHANGED <<req, scan, cause, collected>>

\* mutant: rec is not cleared after alloc_rec
ReturnKeepsRec == Over /\ UNCHANGED <<allocMoreRec, cut>>

\* allocL returns; when it was the call after alloc_rec, rec is cleared
Return ==
  /\ Over
  /\ allocMoreRec' = (allocMoreRec /\ ~retry)
  /\ cut' = (cut /\ ~retry)

\* allocL with a block on the list
AllocL ==
  /\ pc = "alloc"
  /\ buckets[req] # << >>
  /\ buckets' = [buckets EXCEPT ![req] = Tail(@)]
  /\ ctrs' = [ctrs EXCEPT ![req] = @ + 1]
  /\ type' = [type EXCEPT ![Head(buckets[req])] = "used"]
  /\ Return
  /\ UNCHANGED <<mmInfo, arenaVars, gcVars>>

\* the right halves that splitTo(c, from, to) cuts off, by bucket
Halves(c, from, to) == {c + Size[k] : k \in to .. from - 1}
\* mutant: the header is written before the bucket is decremented
HalfBucketBefore(h, c, from, to) ==
  (CHOOSE k \in to .. from - 1 : h = c + Size[k]) + 1
HalfBucket(h, c, from, to) == CHOOSE k \in to .. from - 1 : h = c + Size[k]

(***************************************************************************)
(* splitTo and the call of allocL that follows it: the block c of bucket    *)
(* from is halved down to bucket to; every right half is pushed on its     *)
(* list, and c itself, pushed last, is what allocL pops.  old is the lists *)
(* after c was taken from its own, and hs and ts the blocks and their types *)
(* before the split.                                                       *)
(***************************************************************************)
SplitAndTake(c, from, to, old, hs, ts) ==
  /\ mmInfo' = [a \in DOMAIN hs \cup Halves(c, from, to) \cup {c} |->
                 IF a = c THEN to
                 ELSE IF a \in DOMAIN hs THEN hs[a]
                 ELSE HalfBucket(a, c, from, to)]
  /\ type' = [a \in DOMAIN hs \cup Halves(c, from, to) \cup {c} |->
                 IF a = c THEN "used"
                 ELSE IF a \in DOMAIN hs THEN ts[a]
                 ELSE "empty"]
  /\ buckets' = [k \in Buckets |-> IF k \in to .. from - 1
                                   THEN Push(old[k], c + Size[k])
                                   ELSE old[k]]
  /\ ctrs' = [ctrs EXCEPT ![to] = @ + 1]

\* the first non-empty list above the requested bucket
SplitSource(from) ==
  /\ from > req /\ buckets[from] # << >>
  /\ \A k \in Buckets : req =< k /\ k < from => buckets[k] = << >>

\* allocL with an empty list, allocS with a larger block to split
AllocS ==
  /\ pc = "alloc"
  /\ \E from \in Buckets :
       /\ SplitSource(from)
       /\ SplitAndTake(Head(buckets[from]), from, req,
                       [buckets EXCEPT ![from] = Tail(@)], mmInfo, type)
  /\ Return
  /\ UNCHANGED <<arenaVars, gcVars>>

\* no list at or above the requested bucket has a block: allocateMore
NeedMore ==
  /\ pc = "alloc"
  /\ \A k \in Buckets : req =< k => buckets[k] = << >>

ArenaBucket == IF req > ALSZ THEN req ELSE ALSZ
OverLimit == heapAlloc + Size[ArenaBucket] > HeapMax
WantsGC == gcDepth = 0 /\ HeapUsed > 2 * lastGCUsed

\* CHECK_INTERRUPT: the flag is set and "interrupted" is thrown
ThrowInterrupted ==
  /\ NeedMore
  /\ interrupted
  /\ interrupted' = FALSE
  /\ cut' = (cut \/ allocMoreRec)
  /\ Over
  /\ UNCHANGED <<blockVars, arenaVars, allocMoreRec, lastGCUsed, gcDepth>>

\* gc_maybeGC(false) decides to collect, then alloc_rec
MaybeGC ==
  /\ NeedMore /\ ~interrupted
  /\ WantsGC
  /\ pc' = "collect" /\ cause' = "maybe"
  /\ UNCHANGED <<blockVars, arenaVars, allocMoreRec, gcVars, req, retry, scan,
                 histVars>>

\* over the limit, not yet in a retry: gc_forceGC(false), then alloc_rec
ForceGC ==
  /\ NeedMore /\ ~interrupted /\ ~WantsGC
  /\ OverLimit
  /\ ~allocMoreRec
  /\ pc' = "collect" /\ cause' = "force"
  /\ UNCHANGED <<blockVars, arenaVars, allocMoreRec, gcVars, req, retry, scan,
                 histVars>>

\* over the limit in a retry: out of memory
ThrowOOM ==
  /\ NeedMore /\ ~interrupted /\ ~WantsGC
  /\ OverLimit
  /\ allocMoreRec
  /\ allocMoreRec' = FALSE
  /\ cut' = FALSE
  /\ Over
  /\ UNCHANGED <<blockVars, arenaVars, gcVars>>

\* mmap reports failure: out of memory
MmapFails ==
  /\ NeedMore /\ ~interrupted /\ ~WantsGC /\ ~OverLimit
  /\ Over
  /\ UNCHANGED <<blockVars, arenaVars, allocMoreRec, gcVars, cut>>

\* mmap never returns memory that overlaps or touches an arena (there is
\* padding on both sides of one)
Fresh(p, sz) ==
  \A i \in DOMAIN al : p + sz < al[i].p \/ ArenaEnd(i) < p

\* a new arena, one block as large as it, split down to the request
Mmap(p) ==
  /\ NeedMore /\ ~interrupted /\ ~WantsGC /\ ~OverLimit
  /\ LET from == ArenaBucket
         sz == Size[from]
     IN /\ Fresh(p, sz)
        /\ al' = Append(al, [p |-> p, sz |-> sz])
        /\ heapAlloc' = heapAlloc + sz
        /\ SplitAndTake(p, from, req, buckets, mmInfo, type)
  /\ Return
  /\ UNCHANGED gcVars

-----------------------------------------------------------------------------
(* A collection, as the allocator sees it *)

\* a reference count reaches zero in gc_tryFree: of the block itself, or of one
\* it refers to, which may be t_freed already
GCFree(a) ==
  /\ pc = "collect"
  /\ FreeLink(a)
  /\ UNCHANGED <<arenaVars, allocMoreRec, gcVars, callVars, histVars>>

\* gc_tryFree on an unmarked block, before its reference count reaches zero
GCMark(a) ==
  /\ pc = "collect"
  /\ type[a] = "used"
  /\ type' = [type EXCEPT ![a] = "freed"]
  /\ UNCHANGED <<mmInfo, buckets, ctrs, arenaVars, allocMoreRec, gcVars,
                 callVars, histVars>>

\* mutant: the retry after a forced collection is not marked
RetryUnmarked == retry' = TRUE /\ UNCHANGED allocMoreRec
\* alloc_rec, marked when the limit was the reason
Retry == retry' = TRUE /\ allocMoreRec' = (allocMoreRec \/ cause = "force")

\* The end of gc_forceGC, and the branch to alloc_rec in allocateMore
GCDone ==
  /\ lastGCUsed' = HeapUsed
  /\ collected' = TRUE
  /\ scan' = NoScan
  /\ IF cause = "manual"
       THEN pc' = "idle" /\ UNCHANGED <<retry, allocMoreRec>>
       ELSE pc' = "alloc" /\ Retry

StartArena(i) == scan' = [arena |-> i, at |-> al[i].p, empty |-> 0]

\* mutant: the loop that drops the lists starts at 1
DropMostLists == [[b \in Buckets |-> << >>] EXCEPT ![0] = buckets[0]]
DropLists == [b \in Buckets |-> << >>]

\* freeFreedAndMerge: all lists are dropped and the walk starts
MergeBegin ==
  /\ pc = "collect"
  /\ buckets' = DropLists
  /\ IF al = << >>
       THEN GCDone
       ELSE /\ pc' = "merge"
            /\ StartArena(1)
            /\ UNCHANGED <<retry, allocMoreRec, lastGCUsed, collected>>
  /\ UNCHANGED <<mmInfo, type, ctrs, arenaVars, gcDepth, interrupted, req,
                 cause, cut>>

AtEnd == scan.at = ArenaEnd(scan.arena)

\* an empty block joins the run, a t_freed one after becoming empty
MergeEmpty ==
  /\ pc = "merge" /\ ~AtEnd
  /\ type[scan.at] # "used"
  /\ type' = [type EXCEPT ![scan.at] = "empty"]
  /\ ctrs' = IF type[scan.at] = "freed" THEN Uncount(scan.at) ELSE ctrs
  /\ scan' = [scan EXCEPT !.at = End(@), !.empty = @ + Size[mmInfo[scan.at]]]
  /\ UNCHANGED <<mmInfo, buckets, arenaVars, allocMoreRec, gcVars, pc, req,
                 retry, cause, histVars>>

\* a block in use with no run before it is stepped over
MergeUsed ==
  /\ pc = "merge" /\ ~AtEnd
  /\ type[scan.at] = "used"
  /\ scan.empty = 0
  /\ scan' = [scan EXCEPT !.at = End(@)]
  /\ UNCHANGED <<blockVars, arenaVars, allocMoreRec, gcVars, pc, req, retry,
                 cause, histVars>>

\* mutant: the block after the run is taken for a part of it
OutsideShort(a) == a < scan.at - scan.empty \/ scan.at < a
Outside(a) == a < scan.at - scan.empty \/ scan.at =< a

\* the run [at - empty, at) is over: its old headers are about to be
\* overwritten, and no longer mean anything
RunEnds ==
  /\ pc = "merge"
  /\ scan.empty > 0
  /\ \/ AtEnd
     \/ ~AtEnd /\ type[scan.at] = "used"
  /\ mmInfo' = Restrict(mmInfo, {a \in heads : Outside(a)})
  /\ type' = Restrict(type, {a \in heads : Outside(a)})
  /\ pc' = "carve"
  /\ UNCHANGED <<buckets, ctrs, arenaVars, allocMoreRec, gcVars, req, retry,
                 scan, cause, histVars>>

\* mutant: the highest set bit is used
HighestBit(b, n) == Size[b] =< n /\ n < 2 * Size[b]
\* b is the lowest set bit of the length n of what is left of the run
LowestBit(b, n) == Size[b] =< n /\ n % (2 * Size[b]) = Size[b]

\* one iteration of the loop that carves the run into blocks
Carve ==
  /\ pc = "carve"
  /\ \E b \in Buckets :
       LET c == scan.at - scan.empty
       IN /\ LowestBit(b, scan.empty)
          /\ mmInfo' = [a \in heads \cup {c} |-> IF a = c THEN b ELSE mmInfo[a]]
          /\ type' = [a \in heads \cup {c} |-> IF a = c THEN "empty" ELSE type[a]]
          /\ buckets' = [buckets EXCEPT ![b] = Push(@, c)]
          /\ scan' = [scan EXCEPT !.empty = @ - Size[b]]
          /\ pc' = IF scan.empty = Size[b] THEN "merge" ELSE "carve"
  /\ UNCHANGED <<ctrs, arenaVars, allocMoreRec, gcVars, req, retry, cause,
                 histVars>>

\* the walk leaves an arena; after the last one the collection is over
ArenaDone ==
  /\ pc = "merge" /\ AtEnd
  /\ scan.empty = 0
  /\ IF scan.arena < Len(al)
       THEN /\ StartArena(scan.arena + 1)
            /\ UNCHANGED <<pc, retry, allocMoreRec, lastGCUsed, collected>>
       ELSE GCDone
  /\ UNCHANGED <<blockVars, arenaVars, gcDepth, interrupted, req, cause, cut>>

-----------------------------------------------------------------------------
Serve ==
  \/ AllocL
  \/ AllocS
  \/ ThrowInterrupted
  \/ MaybeGC
  \/ ForceGC
  \/ ThrowOOM
  \/ MmapFails
  \/ \E p \in Bases : Mmap(p)

Collect ==
  \/ MergeBegin
  \/ MergeEmpty
  \/ MergeUsed
  \/ RunEnds
  \/ Carve
  \/ ArenaDone

Next ==
  \/ \E b \in Buckets : Request(b)
  \/ \E a \in heads : Free(a)
  \/ \E a \in heads : GCFree(a)
  \/ \E a \in heads : GCMark(a)
  \/ CollectNow
  \/ SwitchGC
  \/ Signal
  \/ Serve
  \/ Collect

Spec == Init /\ [][Next]_vars

\* The allocator runs on the caller's thread: once entered it keeps going.
FairSpec == Spec /\ WF_vars(Serve) /\ WF_vars(Collect)

-----------------------------------------------------------------------------
(* Properties *)

Arenas == DOMAIN al
InArena(a, i) == al[i].p =< a /\ a < ArenaEnd(i)

HeapTypes ==
  /\ mmInfo \in [heads -> Buckets] /\ heads \subseteq Nat
  /\ type \in [heads -> Types]
  /\ buckets \in [Buckets -> Seq(Nat)]
  /\ ctrs \in [Buckets -> Int]
  /\ al \in Seq([p : Nat, sz : Nat]) /\ heapAlloc \in Nat
  /\ scan \in [arena : Nat, at : Nat, empty : Nat]

\* lastGCUsed is a sum over the counters, which no other variable depends on
CallTypes ==
  /\ allocMoreRec \in BOOLEAN /\ gcDepth \in {0, 1} /\ interrupted \in BOOLEAN
  /\ pc \in PCs /\ req \in Buckets /\ retry \in BOOLEAN /\ cause \in Causes
  /\ collected \in BOOLEAN /\ cut \in BOOLEAN

TypeOK == HeapTypes /\ CallTypes

\* No two blocks overlap, whatever splits, merges and collections have run:
\* an object never shares a byte with another one or with a free block.
NoOverlap == \A a, b \in heads : a < b => End(a) =< b

\* While a run is carved, [at - empty, at) is the part without headers.
Gap == pc = "carve"
GapStart == scan.at - scan.empty

\* The arenas are tiled by blocks: following sizes from header to header, as
\* forHeap and the merge do, meets every block and ends at the arena's end,
\* never at a place without a header.
Tiled ==
  /\ \A a \in heads :
       \/ End(a) \in heads
       \/ \E i \in Arenas : End(a) = ArenaEnd(i)
       \/ Gap /\ End(a) = GapStart
  /\ \A i \in Arenas : al[i].p \in heads \/ (Gap /\ al[i].p = GapStart)
  /\ Gap => scan.at \in heads \/ AtEnd

\* A free list holds distinct blocks, each of them empty and of the list's
\* bucket: allocL never hands out a block that is in use, or twice.
FreeListsSound ==
  \A b \in Buckets :
    /\ \A a \in Listed(b) : a \in heads /\ type[a] = "empty" /\ mmInfo[a] = b
    /\ \A i, j \in DOMAIN buckets[b] : buckets[b][i] = buckets[b][j] => i = j

\* the walk has already rebuilt the part of the heap that a lies in
Merged(a) ==
  \E i \in Arenas : /\ InArena(a, i)
                    /\ \/ i < scan.arena
                       \/ i = scan.arena /\ a < GapStart

\* No empty block is lost: each is on its free list, except those the merge
\* has yet to visit after it dropped the lists.
FreeListsComplete ==
  \A a \in heads :
    /\ type[a] = "freed" => pc \notin {"idle", "alloc"}
    /\ type[a] = "empty" /\ (pc \in {"merge", "carve"} => Merged(a))
         => a \in Listed(mmInfo[a])

Merging == pc \in {"merge", "carve"}

\* The merge joins all it can: behind its cursor the sizes of neighbouring empty
\* blocks ascend, so none of them is a pair that one block could replace.
Coalesced ==
  Merging =>
    \A a \in heads :
      /\ Merged(a) /\ type[a] = "empty"
      /\ End(a) \in heads /\ type[End(a)] = "empty" /\ Merged(End(a))
      => mmInfo[a] < mmInfo[End(a)]

\* No memory is lost or left in pieces.
NothingWasted == FreeListsComplete /\ Coalesced

\* The counters behind HeapUsed, which decides when to collect, are exact: they
\* count the blocks in use, and the dead ones the merge has not yet reached.
CtrsExact ==
  \A b \in Buckets :
    ctrs[b] = Cardinality({a \in heads : mmInfo[a] = b /\ type[a] # "empty"})

\* mm_heapAlloc is the number of bytes in arenas and never exceeds mm_heapMax.
ArenaBytes == UNION {al[i].p .. ArenaEnd(i) - 1 : i \in Arenas}
WithinLimit ==
  /\ heapAlloc = Cardinality(ArenaBytes)
  /\ heapAlloc =< HeapMax

\* Both decide about collections, so both have to survive one.
CountersExact == CtrsExact /\ WithinLimit

\* Out of memory for want of arena space is reported only after a collection
\* made for this request, unless an earlier interrupt left allocMore_rec set.
OOMOnlyAfterCollection == [][ThrowOOM => collected \/ cut]_vars

\* Every request is answered or refused, and every collection ends.
Answered == pc # "idle" ~> pc = "idle"

-----------------------------------------------------------------------------
(* The inductive invariant *)

\* every block lies within one arena
BlocksInArenas ==
  \A a \in heads : \E i \in Arenas : al[i].p =< a /\ End(a) =< ArenaEnd(i)

\* the arenas neither overlap nor touch
ArenasApart ==
  \A i, j \in Arenas : i # j => ArenaEnd(i) < al[j].p \/ ArenaEnd(j) < al[i].p

\* the cursor of the merge: it stands on a block or at the end of its arena,
\* and the run before it is cut along block boundaries
ScanOK ==
  pc \in {"merge", "carve"} =>
    /\ scan.arena \in Arenas
    /\ scan.empty =< scan.at
    /\ al[scan.arena].p =< GapStart
    /\ scan.at =< ArenaEnd(scan.arena)
    /\ scan.at \in heads \/ AtEnd
    /\ \A a \in heads : End(a) =< GapStart \/ GapStart =< a
    /\ pc = "carve" => /\ scan.empty > 0
                       /\ \A a \in heads : End(a) =< GapStart \/ scan.at =< a

\* the part of the heap that the merge has yet to rebuild
Ahead(a) ==
  \/ GapStart =< a /\ a < ArenaEnd(scan.arena)
  \/ \E j \in Arenas : j > scan.arena /\ InArena(a, j)

\* during the merge no list holds a block of that part
ListsBehind ==
  pc \in {"merge", "carve"} =>
    \A b \in Buckets : \A i \in DOMAIN buckets[b] : ~Ahead(buckets[b][i])

IInv ==
  /\ TypeOK
  /\ NoOverlap
  /\ BlocksInArenas
  /\ ArenasApart
  /\ Tiled
  /\ ScanOK
  /\ FreeListsSound
  /\ ListsBehind

\* behind the merge no block is dead, and the run before its cursor is empty
BehindClean ==
  Merging =>
    \A a \in heads : /\ Merged(a) => type[a] # "freed"
                     /\ GapStart =< a /\ a < scan.at => type[a] = "empty"

\* a run never starts behind an empty block, with which it would be merged
RunAlone ==
  pc = "merge" =>
    \A a \in heads : Merged(a) /\ type[a] = "empty" /\ End(a) = GapStart
                     => scan.empty = 0 /\ (AtEnd \/ type[scan.at] = "used")

\* what is left of a run is divisible by twice the block last carved off it
CarveAscends ==
  pc = "carve" =>
    /\ AtEnd \/ type[scan.at] = "used"
    /\ \A a \in heads : Merged(a) /\ type[a] = "empty" /\ End(a) = GapStart
                        => scan.empty % (2 * Size[mmInfo[a]]) = 0

\* what the heap accounts for, given that it is well-formed
AccountsInv ==
  /\ FreeListsComplete
  /\ Coalesced
  /\ BehindClean
  /\ RunAlone
  /\ CarveAscends
  /\ IsFiniteSet(heads) /\ IsFiniteSet(ArenaBytes)
  /\ CtrsExact
  /\ WithinLimit

\* allocMore_rec is set only in the retry after a forced collection, and stays
\* set beyond it only when an interrupt cut the retry short
RecInv ==
  /\ pc = "idle" => ~retry
  /\ Merging \/ pc = "collect" => /\ cause = "manual" => ~retry
                                  /\ cause = "force" => OverLimit
  /\ allocMoreRec => cut \/ (pc # "idle" /\ retry /\ collected /\ OverLimit)

-----------------------------------------------------------------------------
(***************************************************************************)
(* The promise of Heap: the live regions are the blocks in use.            *)
(***************************************************************************)
AbsLive == {[start |-> a, len |-> Size[mmInfo[a]]] :
              a \in {h \in heads : type[h] = "used"}}
Collecting == pc \in {"collect", "merge", "carve"}
AbsWant == IF pc = "idle" \/ (Collecting /\ cause = "manual") THEN 0 ELSE Size[req]

Abs == INSTANCE Heap WITH
  Sizes <- {Size[b] : b \in Buckets},
  live <- AbsLive,
  want <- AbsWant,
  gc <- Collecting

\* Buddy implements Heap: no region is granted over a live one, one that was
\* granted changes hands only when it is released, and none is moved.
ImplementsHeap == Abs!Spec

=============================================================================
