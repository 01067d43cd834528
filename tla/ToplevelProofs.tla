--------------------------- MODULE ToplevelProofs ---------------------------
(***************************************************************************)
(* For every depth of the C stack, every size of the two global stacks and *)
(* every set of errors: longjmp resumes only functions that still wait for *)
(* it, and whichever way frames leave the stack, the globals tell what is  *)
(* left on it.                                                             *)
(*                                                                         *)
(* The properties count frames; the invariant speaks of each frame by its  *)
(* place, so that a throw, which cuts the stack anywhere, keeps what it    *)
(* says of the frames below the cut.                                       *)
(***************************************************************************)
EXTENDS Toplevel, FiniteSetTheorems, SequenceTheorems, WellFoundedInduction, TLAPS

Texts == Messages \cup {None}
FrameSet == [kind : Kinds, stage : Stages, run : Nat, gs : 0 .. GsSize, err : Texts]
CatchSet == [frame : Nat \ {0}, gs : 0 .. GsSize, env : 0 .. EnvSize]
ValueSet == {Value} \cup Texts

TypeInv ==
  /\ stack \in Seq(FrameSet) /\ cf \in Seq(CatchSet)
  /\ gs \in Seq(ValueSet) /\ Len(gs) =< GsSize
  /\ env \in 0 .. EnvSize
  /\ nesting \in Nat /\ countdown \in 1 .. MaxCountdown
  /\ comps \in 0 .. MaxFrames /\ Depth =< MaxFrames
  /\ thrown \in Texts /\ lastErr \in Texts
  /\ flag \in BOOLEAN /\ armed \in BOOLEAN /\ owed \in BOOLEAN
  /\ status \in {"running", "exited", "abort", "assert", "fault"}

-----------------------------------------------------------------------------
(* What holds of a C stack s, the CatchFrames c, a gStack g, the height e of *)
(* the environment stack and the current error m.                           *)

\* A line or an entry point is at the bottom, lines are nowhere else, and only the
\* innermost frame is not running its body.
Shape(s) ==
  /\ \A i \in 1 .. Len(s) : i < Len(s) => s[i].stage = "body"
  /\ Len(s) > 0 => s[1].kind \in {"line", "entry"} /\ s[1].gs = 0
  /\ \A i \in 1 .. Len(s) : s[i].kind = "line" => i = 1

Waits(f) == f.kind \in CatchKinds /\ f.stage \in {"body", "ended", "cleared"}

\* The CatchFrames are those of the waiting frames, in the order of the stack.
Catchers(s, c) ==
  /\ \A j \in 1 .. Len(c) : c[j].frame \in 1 .. Len(s) /\ Waits(s[c[j].frame])
  /\ \A j, k \in 1 .. Len(c) : j < k => c[j].frame < c[k].frame
  /\ \A i \in 1 .. Len(s) : Waits(s[i]) => \E j \in 1 .. Len(c) : c[j].frame = i

BlocksIn(s, n) == Cardinality({i \in 1 .. n : s[i].kind = "block"})

\* The environment stack counts blocks, now and at every catcher.
EnvCounts(s, c, e) ==
  /\ e = BlocksIn(s, Len(s))
  /\ \A j \in 1 .. Len(c) : c[j].env = BlocksIn(s, c[j].frame - 1)

Handles(f) == f.kind = "handling"
\* the height of gStack when the callees of frame f began to put values there
Own(f) == f.gs + (IF Handles(f) THEN 1 ELSE 0)

\* Frames own consecutive parts of gStack: one saved message each that handles an
\* error, values each block, nothing the others.
GsTiled(s, c, g) ==
  /\ Len(s) = 0 => Len(g) = 0
  /\ \A j \in 1 .. Len(c) : c[j].gs = s[c[j].frame].gs
  /\ \A i \in 1 .. Len(s) : Own(s[i]) =< Len(g)
  /\ \A i, k \in 1 .. Len(s) : i < k => Own(s[i]) =< s[k].gs
  /\ \A i \in 1 .. Len(s) :
       s[i].kind # "block" => Own(s[i]) = (IF i = Len(s) THEN Len(g) ELSE s[i + 1].gs)
GsSaved(s, g) ==
  \A n \in 1 .. Len(g) : g[n] # Value <=> \E i \in 1 .. Len(s) : Handles(s[i]) /\ s[i].gs + 1 = n

\* m is the error of the innermost handler among the first n frames
ErrOf(s, n, m) ==
  \/ m = None /\ \A i \in 1 .. n : ~Handles(s[i])
  \/ \E i \in 1 .. n : /\ Handles(s[i]) /\ m = s[i].err
                       /\ \A k \in 1 .. n : k > i => ~Handles(s[k])
ErrsSaved(s, g, m) ==
  /\ ErrOf(s, Len(s), m)
  /\ \A i \in 1 .. Len(s) : Handles(s[i]) => ErrOf(s, i - 1, g[s[i].gs + 1])

Consistent(s, c, g, e, m) ==
  Shape(s) /\ Catchers(s, c) /\ EnvCounts(s, c, e) /\ GsTiled(s, c, g) /\ GsSaved(s, g) /\ ErrsSaved(s, g, m)

-----------------------------------------------------------------------------
CompInv ==
  /\ comps =< Depth
  /\ \A i \in 1 .. Depth : stack[i].kind = "comp" <=> comps = i

SignalInv == armed => Depth > 0 /\ stack[1].kind = "line"

PendingInv == (Depth = 0 \/ Top.stage \notin {"landed", "unarmed"}) => thrown = None

\* frame f has a run of its own that is not over
HasRun(f) == f.kind \in {"line", "entry"} /\ f.stage \notin {"ended", "cleared"}

\* Without calls from foreign functions only the bottom frame has one.
RunInv ==
  /\ \A i \in 1 .. Depth : HasRun(stack[i]) => 1 =< stack[i].run /\ stack[i].run =< nesting
  /\ \A i, k \in 1 .. Depth :
       i < k /\ HasRun(stack[i]) /\ HasRun(stack[k]) => stack[i].run < stack[k].run
  /\ owed => countdown = 1
  /\ ~ForeignCalls =>
       /\ \A i \in 1 .. Depth : stack[i].kind = "entry" => i = 1
       /\ nesting = IF Depth > 0 /\ HasRun(stack[1]) THEN 1 ELSE 0
       /\ nesting = 0 => ~owed

StackInv == Consistent(stack, cf, gs, env, lastErr)

Inv == TypeInv /\ (Running => StackInv /\ CompInv /\ SignalInv /\ PendingInv /\ RunInv)

-----------------------------------------------------------------------------
(* Counting blocks *)

LEMMA BlocksFinite ==
  ASSUME NEW s, NEW n \in Nat
  PROVE  IsFiniteSet({i \in 1 .. n : s[i].kind = "block"}) /\ BlocksIn(s, n) \in Nat
<1>1. IsFiniteSet(1 .. n)
  BY FS_Interval
<1>2. IsFiniteSet({i \in 1 .. n : s[i].kind = "block"})
  BY <1>1, FS_Subset
<1> QED
  BY <1>2, FS_CardinalityType DEF BlocksIn

LEMMA BlocksNone == \A s : BlocksIn(s, 0) = 0
<1> SUFFICES ASSUME NEW s PROVE BlocksIn(s, 0) = 0
  OBVIOUS
<1>1. {i \in 1 .. 0 : s[i].kind = "block"} = {}
  OBVIOUS
<1> QED
  BY <1>1, FS_EmptySet DEF BlocksIn

LEMMA BlocksNext ==
  ASSUME NEW s, NEW n \in Nat
  PROVE  BlocksIn(s, n + 1) = BlocksIn(s, n) + (IF s[n + 1].kind = "block" THEN 1 ELSE 0)
<1> DEFINE B == {i \in 1 .. n : s[i].kind = "block"}
<1>1. IsFiniteSet(B) /\ Cardinality(B) \in Nat
  BY BlocksFinite DEF BlocksIn
<1>2. n + 1 \notin B
  OBVIOUS
<1> DEFINE C == {i \in 1 .. n + 1 : s[i].kind = "block"}
<1>3. C = IF s[n + 1].kind = "block" THEN B \cup {n + 1} ELSE B
  <2>1. \A i : i \in 1 .. n + 1 <=> i \in 1 .. n \/ i = n + 1
    OBVIOUS
  <2>2. \A i : i \in C <=> i \in B \/ (i = n + 1 /\ s[n + 1].kind = "block")
    BY <2>1
  <2>3. CASE s[n + 1].kind = "block"
    <3>1. C = B \cup {n + 1}
      BY <2>2, <2>3, Zenon
    <3> QED
      BY <3>1, <2>3
  <2>4. CASE s[n + 1].kind # "block"
    <3>1. C = B
      BY <2>2, <2>4, Zenon
    <3> QED
      BY <3>1, <2>4
  <2> QED
    BY <2>3, <2>4
<1>4. Cardinality(B \cup {n + 1}) = Cardinality(B) + 1
  BY <1>1, <1>2, FS_AddElement
<1>5. BlocksIn(s, n + 1) = Cardinality(C) /\ BlocksIn(s, n) = Cardinality(B)
  BY DEF BlocksIn
<1> HIDE DEF B, C
<1> QED
  BY <1>1, <1>3, <1>4, <1>5

LEMMA BlocksSame ==
  ASSUME NEW s, NEW t, NEW n \in Nat, \A i \in 1 .. n : t[i].kind = s[i].kind
  PROVE  BlocksIn(t, n) = BlocksIn(s, n)
<1>1. {i \in 1 .. n : t[i].kind = "block"} = {i \in 1 .. n : s[i].kind = "block"}
  OBVIOUS
<1> QED
  BY <1>1 DEF BlocksIn

LEMMA FrameHeights ==
  ASSUME NEW s \in Seq(FrameSet), NEW i \in 1 .. Len(s)
  PROVE  s[i] \in FrameSet /\ s[i].gs \in Nat
<1>1. s[i] \in FrameSet
  OBVIOUS
<1> QED
  BY <1>1, ToplevelAssumption DEF FrameSet

LEMMA OwnHeight ==
  ASSUME NEW f, f.gs \in Nat
  PROVE  Own(f) \in Nat /\ f.gs =< Own(f)
BY DEF Own

LEMMA FrontFacts ==
  ASSUME NEW S, NEW s \in Seq(S), s # << >>
  PROVE  /\ Front(s) \in Seq(S) /\ Len(Front(s)) = Len(s) - 1
         /\ \A i \in 1 .. Len(s) - 1 : Front(s)[i] = s[i]
<1>1. Len(s) \in Nat /\ Len(s) > 0
  OBVIOUS
<1>2. \A i \in 1 .. Len(s) - 1 : s[i] \in S
  BY <1>1
<1>3. SubSeq(s, 1, Len(s) - 1) \in Seq(S) /\ Len(SubSeq(s, 1, Len(s) - 1)) = Len(s) - 1
  <2>1. SubSeq(s, 1, Len(s) - 1) \in Seq(S)
    BY <1>1, <1>2
  <2>2. Len(SubSeq(s, 1, Len(s) - 1)) = Len(s) - 1
    <3> DEFINE n == Len(s) - 1
    <3>1. n \in Int /\ 1 \in Int /\ n \in Nat
      BY <1>1
    <3>2. \A i \in 1 .. n : s[i] \in S
      BY <1>2
    <3> HIDE DEF n
    <3>3. Len(SubSeq(s, 1, n)) = IF 1 =< n THEN n - 1 + 1 ELSE 0
      BY <3>1, <3>2, SubSeqProperties
    <3>4. Len(SubSeq(s, 1, n)) = n
      BY <3>1, <3>3
    <3> QED
      BY <3>4 DEF n
  <2> QED
    BY <2>1, <2>2
<1>4. \A i \in 1 .. Len(s) - 1 : SubSeq(s, 1, Len(s) - 1)[i] = s[i]
  BY <1>1
<1> QED
  BY <1>3, <1>4 DEF Front

LEMMA TextIsNoValue == \A m \in Texts : m # Value
BY MessagesAssumption DEF Texts, Messages, Value, None, Overflow, Interrupted

\* What is said of the errors of the first n frames depends on nothing else.
LEMMA ErrOfSame ==
  ASSUME NEW s, NEW t, NEW n \in Nat, \A i \in 1 .. n : t[i] = s[i], NEW v, ErrOf(s, n, v)
  PROVE  ErrOf(t, n, v)
BY DEF ErrOf

\* A frame that handles no error changes nothing about them.
LEMMA ErrOfBelow ==
  ASSUME NEW s, NEW n \in Nat \ {0}, ~Handles(s[n]), NEW v, ErrOf(s, n, v)
  PROVE  ErrOf(s, n - 1, v)
<1>1. \A i : i \in 1 .. n <=> i \in 1 .. n - 1 \/ i = n
  OBVIOUS
<1> QED
  BY <1>1 DEF ErrOf

-----------------------------------------------------------------------------
(* Every step of the C stack cuts it to some height and puts a frame there:  *)
(* a return only cuts, a call only puts.                                     *)

\* t is s with frame f on top.  A frame that waits has a CatchFrame, one that handles
\* an error has saved the error before it, and a block has values of its own.
Put(s, t, f) == Len(t) = Len(s) + 1 /\ t[Len(s) + 1] = f /\ \A i \in 1 .. Len(s) : t[i] = s[i]
PutAllowed(s, g, f) ==
  /\ f.gs = Len(g)
  /\ IF Len(s) = 0 THEN f.kind \in {"line", "entry"} ELSE f.kind # "line" /\ s[Len(s)].stage = "body"
PutCatcher(s, c, d, e, f) ==
  IF Waits(f)
    THEN /\ Len(d) = Len(c) + 1 /\ \A j \in 1 .. Len(c) : d[j] = c[j]
         /\ d[Len(d)].frame = Len(s) + 1 /\ d[Len(d)].gs = f.gs /\ d[Len(d)].env = e
    ELSE d = c
PutValues(g, h, m, f) ==
  /\ Len(g) =< Len(h) /\ \A n \in 1 .. Len(g) : h[n] = g[n]
  /\ IF f.kind = "block" THEN \A n \in 1 .. Len(h) : n > Len(g) => h[n] = Value
     ELSE IF Handles(f) THEN Len(h) = Len(g) + 1 /\ h[Len(h)] = m
     ELSE Len(h) = Len(g)
\* the environment stack and the current error then
PutCounts(e, m, b, w, f) ==
  b = e + (IF f.kind = "block" THEN 1 ELSE 0) /\ w = IF Handles(f) THEN f.err ELSE m

LEMMA PutKeeps ==
  ASSUME NEW s \in Seq(FrameSet), NEW c \in Seq(CatchSet), NEW g \in Seq(ValueSet),
         NEW t \in Seq(FrameSet), NEW d \in Seq(CatchSet), NEW h \in Seq(ValueSet),
         NEW e \in Nat, NEW m \in Texts, Consistent(s, c, g, e, m),
         NEW f \in FrameSet, PutAllowed(s, g, f),
         Put(s, t, f), PutCatcher(s, c, d, e, f), PutValues(g, h, m, f),
         NEW b, NEW w, PutCounts(e, m, b, w, f)
  PROVE  Consistent(t, d, h, b, w)
<1> DEFINE n == Len(s)
<1>0. /\ f.gs = Len(g)
      /\ IF Len(s) = 0 THEN f.kind \in {"line", "entry"} ELSE f.kind # "line" /\ s[Len(s)].stage = "body"
  BY DEF PutAllowed
<1>1. /\ n \in Nat /\ Len(g) \in Nat /\ Len(h) \in Nat /\ Len(c) \in Nat /\ Len(d) \in Nat
      /\ Len(t) = n + 1 /\ t[n + 1] = f
      /\ \A i \in 1 .. n : t[i] = s[i]
  BY DEF Put
<1>n. \A i \in 1 .. n : s[i].gs \in Nat /\ (Handles(s[i]) => Own(s[i]) = s[i].gs + 1) /\ Own(s[i]) \in Nat
  <2> SUFFICES ASSUME NEW i \in 1 .. n
               PROVE s[i].gs \in Nat /\ (Handles(s[i]) => Own(s[i]) = s[i].gs + 1) /\ Own(s[i]) \in Nat
    OBVIOUS
  <2>2. s[i].gs \in Nat
    BY FrameHeights
  <2> QED
    BY <2>2 DEF Own
<1>4. /\ \A j \in 1 .. Len(c) : d[j] = c[j] /\ j \in 1 .. Len(d) /\ c[j] \in CatchSet
      /\ Waits(f) => /\ Len(d) = Len(c) + 1
                     /\ d[Len(d)].frame = n + 1 /\ d[Len(d)].gs = f.gs /\ d[Len(d)].env = e
      /\ ~Waits(f) => Len(d) = Len(c)
  BY <1>1 DEF PutCatcher
<1>5. \A i \in 1 .. Len(t) : i \in 1 .. n \/ i = n + 1
  BY <1>1
<1>6. \A j \in 1 .. Len(d) : j \in 1 .. Len(c) \/ (Waits(f) /\ j = Len(d) /\ j = Len(c) + 1)
  BY <1>1, <1>4
<1>7. /\ Len(g) =< Len(h) /\ \A k \in 1 .. Len(g) : h[k] = g[k]
      /\ f.kind = "block" => \A k \in 1 .. Len(h) : k > Len(g) => h[k] = Value
      /\ Handles(f) => Len(h) = Len(g) + 1 /\ h[Len(g) + 1] = m
      /\ f.kind # "block" /\ ~Handles(f) => Len(h) = Len(g)
  BY <1>1 DEF PutValues, Handles
<1>z. n = 0 => Len(g) = 0
  BY DEF Consistent, GsTiled
<1>o. \A j \in 1 .. Len(c) : c[j].frame \in 1 .. n
  BY DEF Consistent, Catchers
<1>s. Shape(t)
  <2>1. Shape(s)
    BY DEF Consistent
  <2>2. ASSUME NEW i \in 1 .. n PROVE i < n + 1 => t[i].stage = "body"
    <3>1. t[i] = s[i]
      BY <1>1
    <3>2. i < n => s[i].stage = "body"
      BY <2>1 DEF Shape
    <3>3. i = n => s[i].stage = "body"
      BY <1>0, <1>1
    <3>4. i < n \/ i = n
      BY <1>1
    <3> QED
      BY <3>1, <3>2, <3>3, <3>4
  <2>3. t[1].kind \in {"line", "entry"} /\ t[1].gs = 0
    <3>1. CASE n = 0
      <4>1. t[1] = f
        BY <3>1, <1>1
      <4> QED
        BY <1>0, <4>1, <3>1, <1>z
    <3>2. CASE n > 0
      <4>1. t[1] = s[1]
        BY <3>2, <1>1
      <4> QED
        BY <4>1, <3>2, <2>1 DEF Shape
    <3> QED
      BY <3>1, <3>2, <1>1
  <2>4. \A i \in 1 .. n + 1 : t[i].kind = "line" => i = 1
    <3>1. n > 0 => t[n + 1].kind # "line"
      BY <1>0, <1>1
    <3> QED
      <4>1. \A i \in 1 .. n : t[i].kind = "line" => i = 1
        BY <2>1, <1>1 DEF Shape
      <4> QED
        BY <3>1, <4>1, <1>1, <1>5
  <2> QED
    BY <2>2, <2>3, <2>4, <1>1 DEF Shape
<1>c. Catchers(t, d)
  <2>1. Catchers(s, c)
    BY DEF Consistent
  <2>3. ASSUME NEW j \in 1 .. Len(d) PROVE d[j].frame \in 1 .. Len(t) /\ Waits(t[d[j].frame])
    <3>1. CASE j \in 1 .. Len(c)
      <4>1. d[j].frame \in 1 .. n /\ Waits(s[d[j].frame])
        BY <3>1, <2>1, <1>4 DEF Catchers
      <4> QED
        BY <4>1, <1>1
    <3>2. CASE Waits(f) /\ j = Len(d) /\ j = Len(c) + 1
      BY <3>2, <1>1, <1>4
    <3> QED
      BY <3>1, <3>2, <1>6
  <2>4. ASSUME NEW j \in 1 .. Len(d), NEW k \in 1 .. Len(d), j < k PROVE d[j].frame < d[k].frame
    <3>0. j \in 1 .. Len(c)
      BY <2>4, <1>1, <1>6
    <3>1. CASE k \in 1 .. Len(c)
      BY <3>0, <3>1, <2>4, <2>1, <1>4 DEF Catchers
    <3>2. CASE Waits(f) /\ k = Len(d)
      <4>1. d[j].frame \in 1 .. n /\ d[k].frame = n + 1
        BY <3>0, <3>2, <1>4, <1>o
      <4> QED
        BY <4>1, <1>1
    <3> QED
      BY <3>1, <3>2, <1>6
  <2>5. ASSUME NEW i \in 1 .. Len(t), Waits(t[i]) PROVE \E j \in 1 .. Len(d) : d[j].frame = i
    <3>1. CASE i \in 1 .. n
      <4>1. PICK j \in 1 .. Len(c) : c[j].frame = i
        BY <3>1, <2>1, <2>5, <1>1 DEF Catchers
      <4>2. j \in 1 .. Len(d) /\ d[j].frame = i
        BY <4>1, <1>1, <1>4
      <4> QED
        BY <4>2
    <3>2. CASE i = n + 1
      <4>1. Len(d) \in 1 .. Len(d) /\ d[Len(d)].frame = i
        BY <3>2, <2>5, <1>1, <1>4
      <4> QED
        BY <4>1
    <3> QED
      BY <3>1, <3>2, <1>5
  <2> QED
    BY <2>3, <2>4, <2>5 DEF Catchers
<1>e. EnvCounts(t, d, e + (IF f.kind = "block" THEN 1 ELSE 0))
  <2>1. e = BlocksIn(s, n) /\ \A j \in 1 .. Len(c) : c[j].env = BlocksIn(s, c[j].frame - 1)
    BY DEF Consistent, EnvCounts
  <2>2. \A k \in 0 .. n : BlocksIn(t, k) = BlocksIn(s, k)
    <3> SUFFICES ASSUME NEW k \in 0 .. n PROVE BlocksIn(t, k) = BlocksIn(s, k)
      OBVIOUS
    <3>1. k \in Nat /\ \A i \in 1 .. k : i \in 1 .. n
      BY <1>1
    <3>2. \A i \in 1 .. k : t[i].kind = s[i].kind
      BY <3>1, <1>1
    <3> QED
      BY <3>1, <3>2, BlocksSame
  <2>3. BlocksIn(t, n + 1) = e + (IF f.kind = "block" THEN 1 ELSE 0)
    <3>1. BlocksIn(t, n) = e /\ t[n + 1].kind = f.kind
      BY <2>1, <2>2, <1>1
    <3>2. BlocksIn(t, n + 1) = BlocksIn(t, n) + (IF t[n + 1].kind = "block" THEN 1 ELSE 0)
      BY <1>1, BlocksNext
    <3> QED
      BY <3>1, <3>2
  <2>4. ASSUME NEW j \in 1 .. Len(d) PROVE d[j].env = BlocksIn(t, d[j].frame - 1)
    <3>1. CASE j \in 1 .. Len(c)
      <4>1. c[j].frame - 1 \in 0 .. n
        BY <3>1, <1>o, <1>1
      <4> QED
        BY <3>1, <4>1, <2>1, <2>2, <1>4
    <3>2. CASE Waits(f) /\ j = Len(d)
      <4>1. d[j].env = e /\ d[j].frame - 1 = n
        BY <3>2, <1>4, <1>1
      <4> QED
        BY <4>1, <2>1, <2>2, <1>1
    <3> QED
      BY <3>1, <3>2, <1>6
  <2> QED
    BY <2>3, <2>4, <1>1 DEF EnvCounts
<1>g. GsTiled(t, d, h)
  <2>1. GsTiled(s, c, g)
    BY DEF Consistent
  <2>2. /\ f.gs = Len(g) /\ Len(g) =< Own(f) /\ Own(f) =< Len(h)
        /\ f.kind # "block" => Own(f) = Len(h)
    BY <1>0, <1>1, <1>7 DEF Own, Handles
  <2>3. ASSUME NEW j \in 1 .. Len(d) PROVE d[j].gs = t[d[j].frame].gs
    <3>1. CASE j \in 1 .. Len(c)
      <4>1. d[j] = c[j] /\ c[j].frame \in 1 .. n
        BY <3>1, <1>4, <1>o
      <4>2. t[c[j].frame] = s[c[j].frame]
        BY <4>1, <1>1
      <4>3. c[j].gs = s[c[j].frame].gs
        BY <3>1, <2>1 DEF GsTiled
      <4> QED
        BY <4>1, <4>2, <4>3
    <3>2. CASE Waits(f) /\ j = Len(d)
      BY <3>2, <1>1, <1>4
    <3> QED
      BY <3>1, <3>2, <1>6
  <2>o. \A i \in 1 .. n : Own(s[i]) \in Nat /\ Own(s[i]) =< Len(g)
    BY <2>1, <1>n DEF GsTiled
  <2>4. \A i \in 1 .. Len(t) : Own(t[i]) =< Len(h)
    <3>1. \A i \in 1 .. n : Own(t[i]) =< Len(h)
      BY <2>o, <1>1, <1>7
    <3> QED
      BY <3>1, <2>2, <1>1, <1>5
  <2>5. \A i, k \in 1 .. Len(t) : i < k => Own(t[i]) =< t[k].gs
    <3> SUFFICES ASSUME NEW i \in 1 .. Len(t), NEW k \in 1 .. Len(t), i < k PROVE Own(t[i]) =< t[k].gs
      OBVIOUS
    <3>1. i \in 1 .. n /\ t[i] = s[i]
      BY <1>1
    <3>2. CASE k \in 1 .. n
      BY <3>1, <3>2, <2>1, <1>1 DEF GsTiled
    <3>3. CASE k = n + 1
      BY <3>1, <3>3, <2>2, <2>o, <1>1
    <3> QED
      BY <3>2, <3>3, <1>5
  <2>6. ASSUME NEW i \in 1 .. Len(t), t[i].kind # "block"
        PROVE  Own(t[i]) = (IF i = Len(t) THEN Len(h) ELSE t[i + 1].gs)
    <3>1. CASE i = n + 1
      BY <3>1, <2>2, <2>6, <1>1
    <3>2. CASE i \in 1 .. n
      <4>1. Own(s[i]) = (IF i = n THEN Len(g) ELSE s[i + 1].gs) /\ t[i] = s[i] /\ i # Len(t)
        BY <3>2, <2>1, <2>6, <1>1 DEF GsTiled
      <4>2. i # n => i + 1 \in 1 .. n
        BY <3>2, <1>1
      <4>3. t[i + 1] = IF i = n THEN f ELSE s[i + 1]
        BY <4>2, <1>1
      <4> QED
        BY <4>1, <4>3, <2>2
    <3> QED
      BY <3>1, <3>2, <1>5
  <2>7. Len(t) # 0
    BY <1>1
  <2> QED
    BY <2>3, <2>4, <2>5, <2>6, <2>7 DEF GsTiled
<1>v. GsSaved(t, h)
  <2>1. \A k \in 1 .. Len(g) : g[k] # Value <=> \E i \in 1 .. n : Handles(s[i]) /\ s[i].gs + 1 = k
    BY DEF Consistent, GsSaved
  <2>2. \A i \in 1 .. n : Handles(s[i]) => s[i].gs + 1 =< Len(g)
    BY <1>1 DEF Consistent, GsTiled, Own
  <2> SUFFICES ASSUME NEW k \in 1 .. Len(h)
               PROVE  h[k] # Value <=> \E i \in 1 .. Len(t) : Handles(t[i]) /\ t[i].gs + 1 = k
    BY DEF GsSaved
  <2>3. CASE k \in 1 .. Len(g)
    <3>1. f.gs + 1 # k
      BY <1>0, <2>3, <1>1
    <3>2. (\E i \in 1 .. n : Handles(s[i]) /\ s[i].gs + 1 = k)
            <=> \E i \in 1 .. Len(t) : Handles(t[i]) /\ t[i].gs + 1 = k
      <4>1. \A i \in 1 .. n : i \in 1 .. Len(t) /\ t[i] = s[i]
        BY <1>1
      <4>2. \A i \in 1 .. Len(t) : i \in 1 .. n \/ t[i] = f
        BY <1>1
      <4> QED
        BY <3>1, <4>1, <4>2
    <3> QED
      BY <3>2, <2>1, <2>3, <1>7
  <2>4. CASE k > Len(g)
    <3>1. ASSUME NEW i \in 1 .. n PROVE ~(Handles(t[i]) /\ t[i].gs + 1 = k)
      <4>1. t[i] = s[i]
        BY <1>1
      <4>2. Handles(s[i]) => s[i].gs + 1 =< Len(g) /\ s[i].gs \in Nat
        BY <2>2, <1>n
      <4> QED
        BY <4>1, <4>2, <2>4, <1>1
    <3>2. (\E i \in 1 .. Len(t) : Handles(t[i]) /\ t[i].gs + 1 = k) <=> Handles(f) /\ f.gs + 1 = k
      <4>1. n + 1 \in 1 .. Len(t) /\ t[n + 1] = f
        BY <1>1
      <4> QED
        BY <3>1, <4>1, <1>5
    <3>3. CASE f.kind = "block"
      BY <3>2, <3>3, <2>4, <1>7 DEF Handles
    <3>4. CASE Handles(f)
      <4>1. k = Len(g) + 1
        BY <3>4, <2>4, <1>1, <1>7
      <4>2. h[k] = m
        BY <3>4, <4>1, <1>7
      <4>3. m # Value
        BY TextIsNoValue
      <4> QED
        BY <1>0, <4>1, <4>2, <4>3, <3>2, <3>4
    <3>5. CASE f.kind # "block" /\ ~Handles(f)
      BY <3>5, <2>4, <1>1, <1>7
    <3> QED
      BY <3>3, <3>4, <3>5
  <2> QED
    BY <2>3, <2>4, <1>1
<1>r. ErrsSaved(t, h, IF Handles(f) THEN f.err ELSE m)
  <2>1. ErrsSaved(s, g, m)
    BY DEF Consistent
  <2>3. \A k \in 0 .. n : \A v : ErrOf(s, k, v) => ErrOf(t, k, v)
    <3> SUFFICES ASSUME NEW k \in 0 .. n, NEW v, ErrOf(s, k, v) PROVE ErrOf(t, k, v)
      OBVIOUS
    <3>1. k \in Nat /\ \A i \in 1 .. k : t[i] = s[i]
      BY <1>1
    <3> QED
      BY <3>1, ErrOfSame
  <2>4. ErrOf(t, n, m)
    BY <2>1, <2>3, <1>1 DEF ErrsSaved
  <2>5. ErrOf(t, Len(t), IF Handles(f) THEN f.err ELSE m)
    <3>1. CASE Handles(f)
      <4>1. n + 1 \in 1 .. Len(t) /\ Handles(t[n + 1]) /\ f.err = t[n + 1].err
        BY <3>1, <1>1
      <4>2. \A k \in 1 .. Len(t) : ~(k > n + 1)
        BY <1>1
      <4> QED
        BY <4>1, <4>2, <3>1 DEF ErrOf
    <3>2. CASE ~Handles(f)
      <4>1. \A i \in 1 .. Len(t) : i \in 1 .. n \/ ~Handles(t[i])
        BY <3>2, <1>1, <1>5
      <4>2. \A i \in 1 .. n : i \in 1 .. Len(t)
        BY <1>1
      <4>3. ErrOf(t, Len(t), m)
        BY <2>4, <4>1, <4>2 DEF ErrOf
      <4> QED
        BY <4>3, <3>2
    <3> QED
      BY <3>1, <3>2
  <2>6. ASSUME NEW i \in 1 .. Len(t), Handles(t[i]) PROVE ErrOf(t, i - 1, h[t[i].gs + 1])
    <3>1. CASE i \in 1 .. n
      <4>1. t[i] = s[i] /\ i - 1 \in 0 .. n /\ ErrOf(s, i - 1, g[s[i].gs + 1])
        BY <3>1, <2>1, <2>6, <1>1 DEF ErrsSaved
      <4>2. s[i].gs + 1 \in 1 .. Len(g)
        <5>1. s[i].gs \in Nat /\ Own(s[i]) = s[i].gs + 1
          BY <4>1, <3>1, <2>6, <1>n
        <5>2. Own(s[i]) =< Len(g)
          BY <3>1 DEF Consistent, GsTiled
        <5>3. Len(g) \in Nat
          OBVIOUS
        <5>4. s[i].gs + 1 =< Len(g)
          BY <5>1, <5>2
        <5> QED
          BY <5>1, <5>3, <5>4
      <4> QED
        BY <4>1, <4>2, <2>3, <1>7
    <3>2. CASE i = n + 1
      <4>2. t[i] = f /\ i - 1 = n
        BY <3>2, <1>1
      <4>3. Handles(f) /\ f.gs = Len(g)
        BY <4>2, <2>6, <1>0
      <4>1. i - 1 = n /\ h[t[i].gs + 1] = m
        BY <4>2, <4>3, <1>7
      <4> QED
        BY <4>1, <2>4
    <3> QED
      BY <3>1, <3>2, <1>5
  <2> QED
    BY <2>5, <2>6 DEF ErrsSaved
<1>t. Consistent(t, d, h, e + (IF f.kind = "block" THEN 1 ELSE 0), IF Handles(f) THEN f.err ELSE m)
  BY <1>s, <1>c, <1>e, <1>g, <1>v, <1>r DEF Consistent
<1> QED
  BY <1>t DEF PutCounts

\* t is the first k frames of s, with the CatchFrames of those frames, what gStack and
\* the environment stack held when frame k + 1 was put there, and the error then.
CutCatchers(c, d, k) ==
  /\ Len(d) =< Len(c)
  /\ \A j \in 1 .. Len(c) : IF j =< Len(d) THEN d[j] = c[j] /\ c[j].frame =< k ELSE c[j].frame > k
CutValues(s, g, h, k) ==
  Len(h) = s[k + 1].gs /\ \A n \in 1 .. Len(h) : n \in 1 .. Len(g) /\ h[n] = g[n]

LEMMA CutKeeps ==
  ASSUME NEW s \in Seq(FrameSet), NEW c \in Seq(CatchSet), NEW g \in Seq(ValueSet),
         NEW t \in Seq(FrameSet), NEW d \in Seq(CatchSet), NEW h \in Seq(ValueSet),
         NEW e \in Nat, NEW m \in Texts, Consistent(s, c, g, e, m),
         NEW k \in 0 .. Len(s) - 1, Len(t) = k, \A i \in 1 .. k : t[i] = s[i],
         CutCatchers(c, d, k), CutValues(s, g, h, k), NEW v, ErrOf(s, k, v)
  PROVE  Consistent(t, d, h, BlocksIn(s, k), v)
<1> DEFINE n == Len(s)
<1>1. /\ n \in Nat /\ Len(g) \in Nat /\ Len(h) \in Nat /\ Len(c) \in Nat /\ Len(d) \in Nat
      /\ k \in Nat /\ k + 1 \in 1 .. n /\ Len(t) = k
      /\ \A i \in 1 .. k : t[i] = s[i] /\ i \in 1 .. n /\ i < n /\ i < k + 1
  OBVIOUS
<1>2. /\ Len(d) =< Len(c)
      /\ \A j \in 1 .. Len(d) : j \in 1 .. Len(c) /\ d[j] = c[j] /\ c[j].frame =< k
      /\ \A j \in 1 .. Len(c) : c[j].frame =< k => j \in 1 .. Len(d)
  <2>1. \A j \in 1 .. Len(d) : j \in 1 .. Len(c) /\ d[j] = c[j] /\ c[j].frame =< k
    BY <1>1 DEF CutCatchers
  <2>2. ASSUME NEW j \in 1 .. Len(c), c[j].frame =< k PROVE j \in 1 .. Len(d)
    <3>1. c[j] \in CatchSet
      OBVIOUS
    <3>2. c[j].frame \in Nat
      BY <3>1 DEF CatchSet
    <3>3. ~(j =< Len(d)) => c[j].frame > k
      BY DEF CutCatchers
    <3>4. j =< Len(d)
      BY <3>2, <3>3, <2>2
    <3> QED
      BY <3>4, <1>1
  <2> QED
    BY <2>1, <2>2 DEF CutCatchers
<1>3. \A j \in 1 .. Len(d) : d[j].frame \in 1 .. k
  <2>1. \A j \in 1 .. Len(c) : c[j].frame \in 1 .. n
    BY DEF Consistent, Catchers
  <2> QED
    BY <2>1, <1>1, <1>2
<1>4. \A i \in 1 .. k : Own(t[i]) = Own(s[i])
  BY <1>1
<1>5. Len(h) = s[k + 1].gs /\ \A x \in 1 .. Len(h) : x \in 1 .. Len(g) /\ h[x] = g[x]
  BY DEF CutValues
<1>6. \A i \in 1 .. k : Own(s[i]) =< Len(h)
  BY <1>1, <1>5 DEF Consistent, GsTiled
<1>s. Shape(t)
  <2>1. Shape(s)
    BY DEF Consistent
  <2>2. k > 0 => 1 \in 1 .. k /\ n > 0
    BY <1>1
  <2>3. \A i \in 1 .. k : t[i].stage = "body"
    BY <2>1, <1>1 DEF Shape
  <2>4. k > 0 => t[1].kind \in {"line", "entry"} /\ t[1].gs = 0
    BY <2>1, <2>2, <1>1 DEF Shape
  <2>5. \A i \in 1 .. k : t[i].kind = "line" => i = 1
    BY <2>1, <1>1 DEF Shape
  <2> QED
    BY <2>3, <2>4, <2>5, <1>1 DEF Shape
<1>c. Catchers(t, d)
  <2>1. Catchers(s, c)
    BY DEF Consistent
  <2>2. \A j \in 1 .. Len(d) : d[j].frame \in 1 .. Len(t) /\ Waits(t[d[j].frame])
    BY <2>1, <1>1, <1>2, <1>3 DEF Catchers
  <2>3. \A j, l \in 1 .. Len(d) : j < l => d[j].frame < d[l].frame
    BY <2>1, <1>2 DEF Catchers
  <2>4. ASSUME NEW i \in 1 .. Len(t), Waits(t[i]) PROVE \E j \in 1 .. Len(d) : d[j].frame = i
    <3>1. PICK j \in 1 .. Len(c) : c[j].frame = i
      BY <2>1, <2>4, <1>1 DEF Catchers
    <3>2. c[j].frame =< k
      BY <3>1, <1>1
    <3>3. j \in 1 .. Len(d) /\ d[j] = c[j]
      BY <3>2, <1>2
    <3> QED
      BY <3>1, <3>3
  <2> QED
    BY <2>2, <2>3, <2>4 DEF Catchers
<1>e. EnvCounts(t, d, BlocksIn(s, k))
  <2>1. ASSUME NEW l \in 0 .. k PROVE BlocksIn(t, l) = BlocksIn(s, l)
    <3>1. l \in Nat /\ \A i \in 1 .. l : t[i].kind = s[i].kind
      BY <1>1
    <3> QED
      BY <3>1, BlocksSame
  <2>2. ASSUME NEW j \in 1 .. Len(d) PROVE d[j].env = BlocksIn(t, d[j].frame - 1)
    <3>1. d[j] = c[j] /\ c[j].env = BlocksIn(s, c[j].frame - 1)
      BY <1>2 DEF Consistent, EnvCounts
    <3>2. d[j].frame - 1 \in 0 .. k
      BY <1>3, <1>1
    <3> QED
      BY <3>1, <3>2, <2>1
  <2>3. BlocksIn(s, k) = BlocksIn(t, Len(t))
    BY <2>1, <1>1
  <2> QED
    BY <2>2, <2>3 DEF EnvCounts
<1>g. GsTiled(t, d, h)
  <2>1. GsTiled(s, c, g)
    BY DEF Consistent
  <2>2. Len(t) = 0 => Len(h) = 0
    <3>1. k = 0 => s[k + 1].gs = 0
      BY <1>1 DEF Consistent, Shape
    <3> QED
      BY <3>1, <1>1, <1>5
  <2>3. ASSUME NEW j \in 1 .. Len(d) PROVE d[j].gs = t[d[j].frame].gs
    <3>1. d[j] = c[j] /\ j \in 1 .. Len(c) /\ d[j].frame \in 1 .. k
      BY <1>2, <1>3
    <3>2. t[d[j].frame] = s[d[j].frame]
      BY <3>1, <1>1
    <3>3. c[j].gs = s[c[j].frame].gs
      BY <3>1, <2>1 DEF GsTiled
    <3> QED
      BY <3>1, <3>2, <3>3
  <2>4. \A i \in 1 .. Len(t) : Own(t[i]) =< Len(h)
    BY <1>1, <1>4, <1>6
  <2>5. \A i, l \in 1 .. Len(t) : i < l => Own(t[i]) =< t[l].gs
    BY <2>1, <1>1, <1>4 DEF GsTiled
  <2>6. ASSUME NEW i \in 1 .. Len(t), t[i].kind # "block"
        PROVE  Own(t[i]) = (IF i = Len(t) THEN Len(h) ELSE t[i + 1].gs)
    <3>1. Own(t[i]) = s[i + 1].gs
      <4>1. i \in 1 .. k /\ i \in 1 .. n /\ i # n /\ s[i].kind # "block"
        BY <2>6, <1>1
      <4> QED
        BY <4>1, <2>1, <1>4 DEF GsTiled
    <3>2. CASE i = k
      BY <3>1, <3>2, <1>1, <1>5
    <3>3. CASE i # k
      <4>1. i + 1 \in 1 .. k
        BY <3>3, <1>1
      <4> QED
        BY <3>1, <3>3, <4>1, <1>1
    <3> QED
      BY <3>2, <3>3
  <2> QED
    BY <2>2, <2>3, <2>4, <2>5, <2>6 DEF GsTiled
<1>v. GsSaved(t, h)
  <2> SUFFICES ASSUME NEW x \in 1 .. Len(h)
               PROVE  h[x] # Value <=> \E i \in 1 .. Len(t) : Handles(t[i]) /\ t[i].gs + 1 = x
    BY DEF GsSaved
  <2>1. h[x] # Value <=> \E i \in 1 .. n : Handles(s[i]) /\ s[i].gs + 1 = x
    BY <1>5 DEF Consistent, GsSaved
  <2>2. ASSUME NEW i \in 1 .. n, Handles(s[i]), s[i].gs + 1 = x PROVE i \in 1 .. k
    <3>1. CASE i = k + 1
      <4>1. s[i].gs = Len(h)
        BY <3>1, <1>5
      <4> QED
        BY <4>1, <2>2, <1>1
    <3>2. CASE i > k + 1
      <4>1. Own(s[k + 1]) =< s[i].gs
        BY <3>2, <1>1 DEF Consistent, GsTiled
      <4>3. s[k + 1].gs \in Nat /\ s[i].gs \in Nat
        BY <1>1, FrameHeights
      <4>2. s[k + 1].gs =< Own(s[k + 1]) /\ Own(s[k + 1]) \in Nat
        BY <4>3, OwnHeight
      <4>4. Len(h) =< s[i].gs
        <5>1. Len(h) = s[k + 1].gs
          BY <1>5
        <5> QED
          BY ONLY <4>1, <4>2, <4>3, <5>1
      <4> QED
        BY <4>3, <4>4, <2>2, <1>1
    <3> QED
      BY <3>1, <3>2, <1>1
  <2> QED
    BY <2>1, <2>2, <1>1
<1>r. ErrsSaved(t, h, v)
  <2>1. ASSUME NEW l \in 0 .. k, NEW w, ErrOf(s, l, w) PROVE ErrOf(t, l, w)
    <3>1. l \in Nat /\ \A i \in 1 .. l : t[i] = s[i]
      BY <1>1
    <3> QED
      BY <3>1, <2>1, ErrOfSame
  <2>2. ErrOf(t, Len(t), v)
    BY <2>1, <1>1
  <2>3. ASSUME NEW i \in 1 .. Len(t), Handles(t[i]) PROVE ErrOf(t, i - 1, h[t[i].gs + 1])
    <3>1. i - 1 \in 0 .. k /\ t[i] = s[i] /\ i \in 1 .. n
      BY <1>1
    <3>2. ErrOf(s, i - 1, g[s[i].gs + 1])
      BY <3>1, <2>3 DEF Consistent, ErrsSaved
    <3>3. s[i].gs + 1 \in 1 .. Len(h)
      <4>2. s[i].gs \in Nat
        BY <3>1, FrameHeights
      <4>3. s[i].gs + 1 =< Len(h)
        BY <1>6, <1>1, <3>1, <2>3 DEF Own
      <4>4. Len(h) \in Nat
        OBVIOUS
      <4> QED
        BY <4>2, <4>3, <4>4
    <3>4. h[t[i].gs + 1] = g[s[i].gs + 1]
      <4>1. \A x \in 1 .. Len(h) : h[x] = g[x]
        BY <1>5
      <4> QED
        BY ONLY <4>1, <3>1, <3>3
    <3> QED
      BY <2>1, <3>1, <3>2, <3>4
  <2> QED
    BY <2>2, <2>3 DEF ErrsSaved
<1> QED
  BY <1>s, <1>c, <1>e, <1>g, <1>v, <1>r DEF Consistent

-----------------------------------------------------------------------------
(* Returns, throws and frames that go on *)

\* The last CatchFrame is that of the innermost waiting frame.
LEMMA LastCatcher ==
  ASSUME NEW s \in Seq(FrameSet), NEW c \in Seq(CatchSet), Catchers(s, c), c # << >>
  PROVE  /\ c[Len(c)].frame \in 1 .. Len(s) /\ Waits(s[c[Len(c)].frame])
         /\ Front(c) \in Seq(CatchSet) /\ CutCatchers(c, Front(c), c[Len(c)].frame - 1)
         /\ \A i \in 1 .. Len(s) : Waits(s[i]) => i =< c[Len(c)].frame
<1> DEFINE l == Len(c)
           k == c[l].frame
<1>1. l \in Nat /\ l > 0 /\ l \in 1 .. l
  OBVIOUS
<1>2. k \in 1 .. Len(s) /\ Waits(s[k])
  BY <1>1 DEF Catchers
<1>3. \A j \in 1 .. l : c[j].frame \in Nat
  <2> SUFFICES ASSUME NEW j \in 1 .. l PROVE c[j].frame \in Nat
    OBVIOUS
  <2>1. c[j] \in CatchSet
    OBVIOUS
  <2> QED
    BY <2>1 DEF CatchSet
<1>4. Front(c) \in Seq(CatchSet) /\ Len(Front(c)) = l - 1 /\ \A j \in 1 .. l - 1 : Front(c)[j] = c[j]
  BY FrontFacts
<1>5. \A j \in 1 .. l : j < l => c[j].frame < k
  BY <1>1 DEF Catchers
<1>6. CutCatchers(c, Front(c), k - 1)
  <2>1. ASSUME NEW j \in 1 .. l, j =< l - 1 PROVE Front(c)[j] = c[j] /\ c[j].frame =< k - 1
    <3>1. j \in 1 .. l - 1 /\ j < l
      BY <2>1, <1>1
    <3>2. c[j].frame < k /\ c[j].frame \in Nat /\ k \in Nat
      BY <3>1, <1>5, <1>3, <1>1
    <3> QED
      BY <3>1, <3>2, <1>4
  <2>2. ASSUME NEW j \in 1 .. l, ~(j =< l - 1) PROVE c[j].frame > k - 1
    <3>1. j = l
      BY <2>2, <1>1
    <3>2. k \in Nat
      BY <1>3, <1>1
    <3> QED
      BY <3>1, <3>2
  <2> QED
    BY <2>1, <2>2, <1>1, <1>4 DEF CutCatchers
<1>7. ASSUME NEW i \in 1 .. Len(s), Waits(s[i]) PROVE i =< k
  <2>1. PICK j \in 1 .. l : c[j].frame = i
    BY <1>7 DEF Catchers
  <2>2. j = l \/ j < l
    BY <1>1
  <2>3. k \in Nat /\ i \in Nat
    BY <1>1, <1>3
  <2>4. j < l => i < k
    BY <2>1, <1>5
  <2> QED
    BY <2>1, <2>2, <2>3, <2>4
<1> QED
  BY <1>2, <1>4, <1>6, <1>7

LEMMA TopCatcher ==
  ASSUME NEW s \in Seq(FrameSet), NEW c \in Seq(CatchSet), Catchers(s, c), Len(s) > 0
  PROVE  LET d == IF Waits(s[Len(s)]) THEN Front(c) ELSE c
         IN  /\ d \in Seq(CatchSet) /\ CutCatchers(c, d, Len(s) - 1)
             /\ Waits(s[Len(s)]) => c # << >> /\ c[Len(c)].frame = Len(s)
<1> DEFINE n == Len(s)
<1>1. n \in Nat /\ n \in 1 .. n
  OBVIOUS
<1>2. CASE Waits(s[n])
  <2>1. c # << >>
    <3>1. PICK j \in 1 .. Len(c) : c[j].frame = n
      BY <1>1, <1>2 DEF Catchers
    <3> QED
      BY <3>1
  <2>2. c[Len(c)].frame = n
    <3>1. n =< c[Len(c)].frame /\ c[Len(c)].frame \in 1 .. n
      BY <2>1, <1>1, <1>2, LastCatcher
    <3> QED
      BY <3>1, <1>1
  <2> QED
    BY <2>1, <2>2, <1>2, LastCatcher
<1>3. CASE ~Waits(s[n])
  <2>1. ASSUME NEW j \in 1 .. Len(c) PROVE c[j].frame =< n - 1
    <3>1. c[j].frame \in 1 .. n /\ c[j].frame # n
      BY <1>3 DEF Catchers
    <3> QED
      BY <3>1, <1>1
  <2>2. CutCatchers(c, c, n - 1)
    BY <2>1 DEF CutCatchers
  <2> QED
    BY <2>2, <1>3
<1> QED
  BY <1>2, <1>3

LEMMA ReturnKeeps ==
  ASSUME NEW s \in Seq(FrameSet), NEW c \in Seq(CatchSet), NEW g \in Seq(ValueSet),
         NEW e \in Nat, NEW m \in Texts, Consistent(s, c, g, e, m), Len(s) > 0,
         NEW h \in Seq(ValueSet), CutValues(s, g, h, Len(s) - 1),
         NEW v, ErrOf(s, Len(s) - 1, v)
  PROVE  LET d == IF Waits(s[Len(s)]) THEN Front(c) ELSE c
             f == e - (IF s[Len(s)].kind = "block" THEN 1 ELSE 0)
         IN  /\ Front(s) \in Seq(FrameSet) /\ d \in Seq(CatchSet) /\ f \in Nat
             /\ Consistent(Front(s), d, h, f, v)
<1> DEFINE n == Len(s)
           d == IF Waits(s[n]) THEN Front(c) ELSE c
           f == e - (IF s[n].kind = "block" THEN 1 ELSE 0)
<1>1. n \in Nat /\ n - 1 \in 0 .. n - 1 /\ n - 1 \in Nat /\ (n - 1) + 1 = n
  OBVIOUS
<1>2. Front(s) \in Seq(FrameSet) /\ Len(Front(s)) = n - 1 /\ \A i \in 1 .. n - 1 : Front(s)[i] = s[i]
  BY FrontFacts
<1>3. d \in Seq(CatchSet) /\ CutCatchers(c, d, n - 1)
  BY TopCatcher DEF Consistent
<1>4. BlocksIn(s, n - 1) = f /\ f \in Nat
  <2>1. e = BlocksIn(s, n)
    BY DEF Consistent, EnvCounts
  <2>2. BlocksIn(s, (n - 1) + 1) = BlocksIn(s, n - 1) + (IF s[(n - 1) + 1].kind = "block" THEN 1 ELSE 0)
    BY <1>1, BlocksNext
  <2>3. BlocksIn(s, n - 1) \in Nat
    BY <1>1, BlocksFinite
  <2> QED
    BY <2>1, <2>2, <2>3, <1>1
<1> HIDE DEF d, f
<1>5. Consistent(Front(s), d, h, BlocksIn(s, n - 1), v)
  BY <1>1, <1>2, <1>3, CutKeeps
<1> QED
  BY <1>2, <1>3, <1>4, <1>5 DEF d, f

\* The innermost frame goes on as frame f, and as long as it is the innermost one may
\* change what it has on gStack.
LEMMA GoOnKeeps ==
  ASSUME NEW s \in Seq(FrameSet), NEW c \in Seq(CatchSet), NEW g \in Seq(ValueSet),
         NEW e \in Nat, NEW m \in Texts, Consistent(s, c, g, e, m), Len(s) > 0,
         NEW t \in Seq(FrameSet), NEW h \in Seq(ValueSet), NEW f \in FrameSet,
         Len(t) = Len(s), \A i \in 1 .. Len(s) - 1 : t[i] = s[i], t[Len(s)] = f,
         f.gs = s[Len(s)].gs, Waits(f) <=> Waits(s[Len(s)]),
         f.kind = "block" <=> s[Len(s)].kind = "block",
         f.kind = s[Len(s)].kind \/ (Len(s) > 1 /\ f.kind # "line"), ~Handles(s[Len(s)]),
         PutValues(SubSeq(g, 1, f.gs), h, m, f)
  PROVE  Consistent(t, c, h, e, IF Handles(f) THEN f.err ELSE m)
<1> DEFINE n == Len(s)
           r == Front(s)
           d == IF Waits(s[n]) THEN Front(c) ELSE c
           b == e - (IF s[n].kind = "block" THEN 1 ELSE 0)
           z == SubSeq(g, 1, f.gs)
<1>1. n \in Nat /\ n \in 1 .. n /\ n - 1 \in Nat /\ (n - 1) + 1 = n /\ Len(g) \in Nat /\ Len(c) \in Nat
  OBVIOUS
<1>2. f.gs \in Nat /\ f.gs =< Len(g)
  <2>1. s[n].gs \in Nat /\ Own(s[n]) =< Len(g)
    BY <1>1, FrameHeights DEF Consistent, GsTiled
  <2> QED
    BY <2>1 DEF Own
<1>3. z \in Seq(ValueSet) /\ Len(z) = f.gs /\ \A x \in 1 .. f.gs : z[x] = g[x]
  BY <1>1, <1>2
<1>4. CutValues(s, g, z, n - 1)
  BY <1>1, <1>2, <1>3 DEF CutValues
<1>5. ErrOf(s, n - 1, m)
  <2>1. ErrOf(s, n, m)
    BY DEF Consistent, ErrsSaved
  <2>2. n \in Nat \ {0}
    BY <1>1
  <2> QED
    BY <2>1, <2>2, ErrOfBelow
<1>6. r \in Seq(FrameSet) /\ d \in Seq(CatchSet) /\ b \in Nat /\ Consistent(r, d, z, b, m)
  BY <1>3, <1>4, <1>5, ReturnKeeps
<1>7. Len(r) = n - 1 /\ \A i \in 1 .. n - 1 : r[i] = s[i]
  BY FrontFacts
<1>8. Put(r, t, f)
  BY <1>7, <1>1 DEF Put
<1>9. PutCatcher(r, d, c, b, f)
  <2>1. CASE Waits(f)
    <3>1. c # << >> /\ c[Len(c)].frame = n
      BY <2>1, TopCatcher DEF Consistent
    <3>2. Len(d) = Len(c) - 1 /\ \A j \in 1 .. Len(c) - 1 : d[j] = c[j]
      <4>1. d = Front(c)
        BY <2>1
      <4> QED
        BY <4>1, <3>1, FrontFacts
    <3>3. Len(c) \in 1 .. Len(c)
      BY <3>1, <1>1
    <3>4. c[Len(c)].gs = s[n].gs
      BY <3>1, <3>3 DEF Consistent, GsTiled
    <3>5. c[Len(c)].env = BlocksIn(s, n - 1)
      BY <3>1, <3>3 DEF Consistent, EnvCounts
    <3>6. b = BlocksIn(r, Len(r))
      BY <1>6 DEF Consistent, EnvCounts
    <3>7. BlocksIn(r, Len(r)) = BlocksIn(s, n - 1)
      <4>1. \A i \in 1 .. n - 1 : r[i].kind = s[i].kind
        BY <1>7
      <4>2. BlocksIn(r, n - 1) = BlocksIn(s, n - 1)
        BY <4>1, <1>1, BlocksSame
      <4> QED
        BY <4>2, <1>7
    <3> QED
      BY <3>1, <3>2, <3>4, <3>5, <3>6, <3>7, <2>1, <1>1, <1>7 DEF PutCatcher
  <2>2. CASE ~Waits(f)
    BY <2>2 DEF PutCatcher
  <2> QED
    BY <2>1, <2>2
<1>10. IF Len(r) = 0 THEN f.kind \in {"line", "entry"} ELSE f.kind # "line" /\ r[Len(r)].stage = "body"
  <2>1. Shape(s)
    BY DEF Consistent
  <2>2. CASE n = 1
    BY <2>1, <2>2, <1>7 DEF Shape
  <2>3. CASE n # 1
    <3>1. n - 1 \in 1 .. n - 1 /\ n - 1 \in 1 .. n /\ n - 1 < n /\ Len(r) # 0
      BY <2>3, <1>1, <1>7
    <3>2. r[Len(r)].stage = "body"
      BY <3>1, <2>1, <1>7 DEF Shape
    <3>3. f.kind # "line"
      BY <2>1, <2>3, <1>1 DEF Shape
    <3> QED
      BY <3>1, <3>2, <3>3
  <2> QED
    BY <2>2, <2>3
<1> HIDE DEF r, d, b, z
<1>11. f.gs = Len(z) /\ PutValues(z, h, m, f)
  BY <1>3 DEF z
<1> DEFINE w == IF Handles(f) THEN f.err ELSE m
<1>12. PutCounts(b, m, e, w, f)
  BY <1>6 DEF b, PutCounts
<1> HIDE DEF w
<1>13. PutAllowed(r, z, f)
  BY <1>10, <1>11 DEF PutAllowed
<1>14. Consistent(t, c, h, e, w)
  BY <1>3, <1>6, <1>8, <1>9, <1>11, <1>12, <1>13, PutKeeps
<1> QED
  BY <1>14 DEF w

\* longjmp: the frame of the last CatchFrame is on top and has landed.
LandedAt(c, d, z, k) == c # << >> /\ k = c[Len(c)].frame /\ d = Front(c) /\ z = c[Len(c)].env
LandedFrame(s, t, k) ==
  /\ Len(t) = k /\ \A i \in 1 .. k - 1 : t[i] = s[i]
  /\ t[k].gs = s[k].gs /\ t[k].kind = s[k].kind /\ t[k].stage = "landed"

LEMMA ThrowKeeps ==
  ASSUME NEW s \in Seq(FrameSet), NEW c \in Seq(CatchSet), NEW g \in Seq(ValueSet),
         NEW e \in Nat, NEW m \in Texts, Consistent(s, c, g, e, m),
         NEW d, NEW z, NEW k, LandedAt(c, d, z, k), NEW v \in Texts, ErrOf(s, k, v),
         NEW t \in Seq(FrameSet), LandedFrame(s, t, k),
         NEW h \in Seq(ValueSet), CutValues(s, g, h, k - 1)
  PROVE  Consistent(t, d, h, z, v)
<1> DEFINE n == Len(s)
           l == Len(c)
           f == t[k]
           r == SubSeq(s, 1, k - 1)
<1>0. c # << >> /\ k = c[Len(c)].frame /\ d = Front(c) /\ z = c[l].env
  BY DEF LandedAt
<1>1. n \in Nat /\ l \in Nat /\ l > 0 /\ l \in 1 .. l /\ Len(g) \in Nat
  BY <1>0
<1>7. /\ Len(t) = k /\ \A i \in 1 .. k - 1 : t[i] = s[i]
      /\ f.gs = s[k].gs /\ f.kind = s[k].kind /\ f.stage = "landed"
  BY DEF LandedFrame
<1>2. k \in 1 .. n /\ Waits(s[k]) /\ Front(c) \in Seq(CatchSet) /\ CutCatchers(c, Front(c), k - 1)
  BY <1>0, LastCatcher DEF Consistent
<1>3. k \in Nat /\ k - 1 \in 0 .. n - 1 /\ k - 1 \in Nat /\ (k - 1) + 1 = k /\ k \in 1 .. k
  BY ONLY <1>1, <1>2
<1>6. f \in FrameSet /\ f.gs = s[k].gs /\ f.kind = s[k].kind /\ f.stage = "landed"
  BY <1>3, <1>7
<1>4. s[k] \in FrameSet /\ s[k].gs \in Nat
  BY <1>2, FrameHeights
<1>5. s[(k - 1) + 1] = s[k]
  BY <1>3
<1>10. Len(h) = s[k].gs
  BY <1>5 DEF CutValues
<1>11. ~Handles(f) /\ f.kind # "block" /\ ~Waits(f) /\ ~Handles(s[k])
  BY <1>2, <1>6 DEF Waits, Handles, CatchKinds
<1>12. ErrOf(s, k - 1, v)
  <2>1. k \in Nat \ {0}
    BY <1>3
  <2> QED
    BY <2>1, <1>11, ErrOfBelow
<1> HIDE DEF f
<1>13. r \in Seq(FrameSet) /\ Len(r) = k - 1 /\ \A i \in 1 .. k - 1 : r[i] = s[i]
  <2>1. s \in Seq(FrameSet)
    OBVIOUS
  <2> QED
    BY ONLY <2>1, <1>1, <1>2
<1> HIDE DEF r
<1>14. Consistent(r, Front(c), h, BlocksIn(s, k - 1), v)
  BY <1>2, <1>3, <1>12, <1>13, CutKeeps
<1>15. c[l].env = BlocksIn(s, k - 1)
  BY <1>0, <1>1 DEF Consistent, EnvCounts
<1>16. IF Len(r) = 0 THEN f.kind \in {"line", "entry"} ELSE f.kind # "line" /\ r[Len(r)].stage = "body"
  <2>1. Shape(s)
    BY DEF Consistent
  <2>2. CASE k = 1
    BY <2>1, <2>2, <1>1, <1>2, <1>6, <1>13 DEF Shape
  <2>3. CASE k # 1
    <3>1. k - 1 \in 1 .. k - 1 /\ k - 1 \in 1 .. n /\ k - 1 < n /\ Len(r) # 0
      BY ONLY <2>3, <1>1, <1>2, <1>3, <1>13
    <3>2. r[Len(r)].stage = "body"
      BY <3>1, <2>1, <1>13 DEF Shape
    <3>3. f.kind # "line"
      BY <2>1, <2>3, <1>2, <1>6 DEF Shape
    <3> QED
      BY <3>1, <3>2, <3>3
  <2> QED
    BY <2>2, <2>3
<1>17. Put(r, t, f)
  BY <1>3, <1>7, <1>13 DEF Put, f
<1>18. PutCatcher(r, Front(c), Front(c), BlocksIn(s, k - 1), f)
  BY <1>11 DEF PutCatcher
<1>19. PutValues(h, h, v, f)
  BY <1>11, <1>4 DEF PutValues
<1>20. BlocksIn(s, k - 1) \in Nat
  BY <1>3, BlocksFinite
<1>21. PutAllowed(r, h, f)
  BY <1>6, <1>10, <1>16 DEF PutAllowed
<1> DEFINE b == BlocksIn(s, k - 1)
<1>22. PutCounts(b, v, b, v, f)
  BY <1>11, <1>20 DEF PutCounts
<1> HIDE DEF b
<1>23. Consistent(t, Front(c), h, b, v)
  BY <1>2, <1>6, <1>13, <1>14, <1>17, <1>18, <1>19, <1>20, <1>21, <1>22, PutKeeps DEF b
<1> QED
  BY <1>0, <1>15, <1>23 DEF b

-----------------------------------------------------------------------------
(* The error that a throw restores *)

LEMMA LeastNatural ==
  ASSUME NEW S, S \subseteq Nat, S # {}
  PROVE  Min(S) \in S /\ \A y \in S : Min(S) =< y
<1>1. \E x \in S : \A y \in S : ~(<<y, x>> \in OpToRel(<, Nat))
  BY NatLessThanWellFounded, WFMin
<1>2. PICK x \in S : \A y \in S : ~(<<y, x>> \in OpToRel(<, Nat))
  BY <1>1
<1>3. \A y \in S : ~(y < x)
  BY <1>2 DEF OpToRel
<1>4. x \in S /\ \A y \in S : x =< y
  BY <1>3
<1> QED
  BY <1>4 DEF Min

LEMMA RestoredRight ==
  ASSUME stack \in Seq(FrameSet), cf \in Seq(CatchSet), gs \in Seq(ValueSet), lastErr \in Texts,
         NEW e, Consistent(stack, cf, gs, e, lastErr),
         NEW k \in 1 .. Depth, ~Handles(stack[k]), stack[k].kind # "block"
  PROVE  ErrOf(stack, k, Restored(stack[k].gs)) /\ Restored(stack[k].gs) \in Texts
<1> DEFINE b == stack[k].gs
           F == Freed(b)
<1>1. Depth \in Nat /\ Len(gs) \in Nat /\ b \in Nat
  BY FrameHeights DEF Depth
<1>2. \A i \in 1 .. Depth : stack[i].gs \in Nat
  BY FrameHeights DEF Depth
<1>3. \A n \in 1 .. Len(gs) : gs[n] # Value <=> \E i \in 1 .. Depth : Handles(stack[i]) /\ stack[i].gs + 1 = n
  BY DEF Consistent, GsSaved, Depth
<1>4. F \subseteq Nat /\ \A n \in F : n \in 1 .. Len(gs) /\ n > b /\ gs[n] # Value
  BY <1>1 DEF Freed
<1>5. \A i \in 1 .. Depth : Handles(stack[i]) => Own(stack[i]) = stack[i].gs + 1 /\ stack[i].gs + 1 \in 1 .. Len(gs)
  BY <1>1, <1>2 DEF Consistent, GsTiled, Own, Depth
<1>6. \A i, j \in 1 .. Depth : i < j => Own(stack[i]) =< stack[j].gs
  BY DEF Consistent, GsTiled, Depth
<1>7. Own(stack[k]) = b
  BY <1>1 DEF Own
<1>8. ASSUME NEW i \in 1 .. Depth, Handles(stack[i])
      PROVE  i > k <=> stack[i].gs + 1 \in F
  <2>1. i # k
    BY <1>8
  <2>2. i > k => stack[i].gs >= b
    BY <1>6, <1>7
  <2>3. i < k => stack[i].gs + 1 =< b
    BY <1>5, <1>6, <1>8
  <2>4. stack[i].gs + 1 \in 1 .. Len(gs) /\ gs[stack[i].gs + 1] # Value
    BY <1>3, <1>5, <1>8
  <2>5. stack[i].gs + 1 \in F <=> stack[i].gs + 1 > b
    <3>1. stack[i].gs + 1 \in F <=> stack[i].gs + 1 \in b + 1 .. Len(gs)
      BY <2>4 DEF Freed
    <3>2. stack[i].gs + 1 \in b + 1 .. Len(gs) <=> stack[i].gs + 1 > b
      <4>1. stack[i].gs + 1 \in 1 .. Len(gs) /\ b \in Nat /\ Len(gs) \in Nat
        BY <2>4, <1>1
      <4> QED
        BY ONLY <4>1
    <3> QED
      BY <3>1, <3>2
  <2> HIDE DEF F, b
  <2>6. stack[i].gs \in Nat /\ b \in Nat
    BY <1>1, <1>2
  <2>7. i > k \/ i < k
    BY <2>1, <1>1
  <2>8. CASE i > k
    <3>1. stack[i].gs + 1 > b
      BY <2>2, <2>6, <2>8
    <3> QED
      BY <3>1, <2>5, <2>8
  <2>9. CASE i < k
    <3>1. ~(stack[i].gs + 1 > b) /\ ~(i > k)
      BY <2>3, <2>6, <2>9, <1>1
    <3> QED
      BY <3>1, <2>5
  <2> QED
    BY <2>7, <2>8, <2>9
<1>9. CASE F = {}
  <2>1. \A i \in 1 .. Depth : Handles(stack[i]) => ~(i > k)
    BY <1>8, <1>9
  <2>2. ErrOf(stack, Depth, lastErr)
    BY DEF Consistent, ErrsSaved, Depth
  <2>3. ErrOf(stack, k, lastErr)
    BY <2>1, <2>2, <1>1 DEF ErrOf
  <2> QED
    BY <2>3, <1>9 DEF Restored
<1>10. CASE F # {}
  <2> DEFINE x == Min(F)
  <2>1. x \in F /\ \A y \in F : x =< y
    BY <1>4, <1>10, LeastNatural
  <2>2. x \in 1 .. Len(gs) /\ gs[x] # Value
    BY <2>1, <1>4
  <2>3. PICK i \in 1 .. Depth : Handles(stack[i]) /\ stack[i].gs + 1 = x
    BY <2>2, <1>3
  <2>4. i > k
    BY <2>1, <2>3, <1>8
  <2>5. ErrOf(stack, i - 1, gs[x])
    BY <2>3 DEF Consistent, ErrsSaved, Depth
  <2>6. ASSUME NEW j \in 1 .. i - 1, Handles(stack[j]) PROVE ~(j > k)
    <3>1. j \in 1 .. Depth /\ j < i
      BY <1>1
    <3>2. stack[j].gs + 1 =< stack[i].gs
      BY <3>1, <2>6, <1>5, <1>6
    <3>3. stack[j].gs + 1 \notin F
      <4>3. stack[j].gs \in Nat /\ stack[i].gs \in Nat /\ stack[i].gs + 1 = x
        BY <3>1, <2>3, <1>2
      <4>1. stack[j].gs + 1 < x /\ stack[j].gs \in Nat
        BY ONLY <4>3, <3>2
      <4>2. x \in Nat /\ \A y \in F : x =< y
        BY <2>1, <1>4
      <4> QED
        BY ONLY <4>1, <4>2
    <3> QED
      BY <3>1, <3>3, <2>6, <1>8
  <2>7. ErrOf(stack, k, gs[x])
    <3>1. k \in 1 .. i - 1
      BY <2>4, <1>1
    <3>2. \A j \in 1 .. k : j \in 1 .. i - 1
      BY <3>1, <1>1
    <3>3. \A j \in 1 .. i - 1 : Handles(stack[j]) => j \in 1 .. k
      BY <2>6, <1>1
    <3> QED
      BY <2>5, <3>2, <3>3 DEF ErrOf
  <2>8. gs[x] \in Texts
    BY <2>2 DEF ValueSet
  <2> QED
    BY <2>7, <2>8, <1>10 DEF Restored
<1> QED
  BY <1>9, <1>10

-----------------------------------------------------------------------------
(* What the steps do to the stack of frames, and what that keeps *)

Grown(f) == Len(stack') = Depth + 1 /\ stack'[Depth + 1] = f /\ \A i \in 1 .. Depth : stack'[i] = stack[i]
Shrunk == Len(stack') = Depth - 1 /\ \A i \in 1 .. Depth - 1 : stack'[i] = stack[i]
\* the stack is cut to k frames, the last of which goes on as f
GoesOn(k, f) == Len(stack') = k /\ stack'[k] = f /\ \A i \in 1 .. k - 1 : stack'[i] = stack[i]

\* Frames that are called.
LEMMA Called ==
  ASSUME TypeInv, StackInv, Room, NEW f \in FrameSet, f.stage = "body", f.kind # "handling", f.gs = Len(gs),
         IF Depth = 0 THEN f.kind \in {"line", "entry"} ELSE f.kind # "line" /\ Top.stage = "body",
         stack' = Append(stack, f), cf' = IF f.kind \in CatchKinds THEN Append(cf, CatchHere) ELSE cf,
         gs' = gs, env' = IF f.kind = "block" THEN env + 1 ELSE env, lastErr' = lastErr
  PROVE  /\ stack' \in Seq(FrameSet) /\ cf' \in Seq(CatchSet) /\ StackInv'
         /\ Grown(f) /\ Depth' = Depth + 1 /\ Depth' =< MaxFrames
<1>1. Depth \in Nat /\ Len(cf) \in Nat /\ MaxFrames \in Nat
  BY ToplevelAssumption DEF TypeInv, Depth
<1>2. stack' \in Seq(FrameSet) /\ Grown(f) /\ Len(stack') = Depth + 1
  BY DEF TypeInv, Depth, Grown
<1>3. CatchHere \in CatchSet /\ CatchHere.frame = Depth + 1 /\ CatchHere.gs = Len(gs) /\ CatchHere.env = env
  BY <1>1 DEF TypeInv, CatchSet, CatchHere
<1>4. Waits(f) <=> f.kind \in CatchKinds
  BY DEF Waits
<1>5. cf' \in Seq(CatchSet)
  BY <1>3 DEF TypeInv
<1>6. PutCatcher(stack, cf, cf', env, f)
  <2>1. CASE Waits(f)
    BY <2>1, <1>1, <1>3, <1>4 DEF TypeInv, PutCatcher, Depth
  <2>2. CASE ~Waits(f)
    BY <2>2, <1>4 DEF PutCatcher
  <2> QED
    BY <2>1, <2>2
<1>7. Put(stack, stack', f)
  BY <1>2 DEF Put, Grown, Depth
<1>8. ~Handles(f)
  BY DEF Handles
<1>9. PutValues(gs, gs', lastErr, f)
  BY <1>8 DEF PutValues, TypeInv
<1>10. gs' \in Seq(ValueSet) /\ gs \in Seq(ValueSet) /\ env \in Nat /\ lastErr \in Texts
  BY ToplevelAssumption DEF TypeInv
<1>11. PutCounts(env, lastErr, env', lastErr', f)
  BY <1>8, <1>10 DEF PutCounts
<1>14. PutAllowed(stack, gs, f)
  BY DEF PutAllowed, Depth, Top
<1>12. Consistent(stack', cf', gs', env', lastErr')
  BY <1>2, <1>5, <1>6, <1>7, <1>9, <1>10, <1>11, <1>14, PutKeeps DEF TypeInv, StackInv
<1>13. StackInv'
  BY <1>12 DEF StackInv
<1> QED
  BY <1>1, <1>2, <1>5, <1>13 DEF Depth, Room

\* Frames that return.
LEMMA Returned ==
  ASSUME TypeInv, StackInv, Depth > 0, stack' = Below, cf' = IF Waits(Top) THEN Front(cf) ELSE cf,
         gs' \in Seq(ValueSet), CutValues(stack, gs, gs', Depth - 1),
         env' = env - (IF Top.kind = "block" THEN 1 ELSE 0), ErrOf(stack, Depth - 1, lastErr')
  PROVE  /\ stack' \in Seq(FrameSet) /\ cf' \in Seq(CatchSet) /\ env' \in 0 .. EnvSize /\ StackInv'
         /\ Shrunk /\ Depth' = Depth - 1 /\ Depth' =< MaxFrames
<1>1. Depth \in Nat /\ env \in Nat /\ EnvSize \in Nat /\ MaxFrames \in Nat /\ stack # << >>
  BY ToplevelAssumption DEF TypeInv, Depth
<1>2. Shrunk /\ Depth' = Depth - 1 /\ Depth' =< MaxFrames
  <2>1. Len(Front(stack)) = Depth - 1 /\ \A i \in 1 .. Depth - 1 : Front(stack)[i] = stack[i]
    BY <1>1, FrontFacts DEF TypeInv, Depth
  <2> QED
    BY <2>1, <1>1 DEF Shrunk, Below, Depth, TypeInv
<1>3. /\ Front(stack) \in Seq(FrameSet) /\ cf' \in Seq(CatchSet) /\ env' \in Nat
      /\ Consistent(Front(stack), cf', gs', env', lastErr')
  BY <1>1, ReturnKeeps DEF TypeInv, StackInv, Depth, Top
<1>4. env' \in 0 .. EnvSize
  BY <1>1, <1>3 DEF TypeInv
<1> QED
  BY <1>2, <1>3, <1>4 DEF StackInv, Below

\* Frames that go on, with the same CatchFrame or none.
LEMMA WentOn ==
  ASSUME TypeInv, StackInv, Depth > 0, NEW f \in FrameSet, stack' = [stack EXCEPT ![Depth] = f],
         cf' = cf, env' = env, gs' \in Seq(ValueSet), PutValues(SubSeq(gs, 1, f.gs), gs', lastErr, f),
         lastErr' = IF Handles(f) THEN f.err ELSE lastErr,
         f.gs = Top.gs, Waits(f) <=> Waits(Top), f.kind = "block" <=> Top.kind = "block",
         f.kind = Top.kind \/ (Depth > 1 /\ f.kind # "line"), ~Handles(Top)
  PROVE  stack' \in Seq(FrameSet) /\ StackInv' /\ GoesOn(Depth, f) /\ Depth' = Depth
<1>1. Depth \in Nat /\ env \in Nat /\ Depth \in 1 .. Len(stack) /\ stack \in Seq(FrameSet)
  BY ToplevelAssumption DEF TypeInv, Depth
<1>2. /\ stack' \in Seq(FrameSet) /\ Len(stack') = Len(stack)
      /\ \A i \in 1 .. Len(stack) : stack'[i] = IF i = Depth THEN f ELSE stack[i]
  BY <1>1, ExceptSeq
<1>3. GoesOn(Depth, f) /\ Depth' = Depth
  <2>1. \A i \in 1 .. Depth - 1 : i \in 1 .. Len(stack) /\ i # Depth
    BY <1>1 DEF Depth
  <2> QED
    BY <2>1, <1>1, <1>2 DEF GoesOn, Depth
<1>4. Consistent(stack', cf, gs', env, IF Handles(f) THEN f.err ELSE lastErr)
  <2>1. stack'[Len(stack)] = f /\ \A i \in 1 .. Len(stack) - 1 : stack'[i] = stack[i]
    BY <1>3 DEF GoesOn, Depth
  <2> QED
    BY <1>1, <1>2, <2>1, GoOnKeeps DEF TypeInv, StackInv, Depth, Top
<1> QED
  BY <1>2, <1>3, <1>4 DEF StackInv

\* A frame that changes nothing but its stage keeps what it has on gStack.
LEMMA StageOnly ==
  ASSUME TypeInv, StackInv, Depth > 0, NEW x \in Stages, stack' = Stage(x),
         Top.kind # "block", ~Handles(Top), cf' = cf, env' = env, gs' = gs, lastErr' = lastErr,
         Waits([Top EXCEPT !.stage = x]) <=> Waits(Top)
  PROVE  /\ stack' \in Seq(FrameSet) /\ StackInv' /\ Depth' = Depth
         /\ GoesOn(Depth, [Top EXCEPT !.stage = x])
<1> DEFINE f == [Top EXCEPT !.stage = x]
<1>1. Top \in FrameSet /\ Top.gs \in Nat /\ Len(gs) \in Nat /\ Depth \in 1 .. Len(stack)
  BY FrameHeights DEF TypeInv, Depth, Top
<1>2. f \in FrameSet /\ f.gs = Top.gs /\ f.kind = Top.kind
  BY <1>1 DEF FrameSet
<1>3. stack' = [stack EXCEPT ![Depth] = f]
  BY DEF Stage, Top
<1>4. Own(Top) = Len(gs)
  BY <1>1 DEF StackInv, Consistent, GsTiled, Top, Depth
<1>5. f.gs = Len(gs)
  BY <1>1, <1>2, <1>4 DEF Own
<1>6. SubSeq(gs, 1, f.gs) = gs
  BY <1>5, SubSeqFull DEF TypeInv
<1>7. PutValues(SubSeq(gs, 1, f.gs), gs', lastErr, f)
  BY <1>2, <1>6, <1>1 DEF PutValues, Handles
<1> HIDE DEF f
<1>8. ~Handles(f) /\ (Waits(f) <=> Waits(Top))
  BY <1>2 DEF Handles, f
<1> QED
  BY <1>2, <1>3, <1>7, <1>8, WentOn DEF TypeInv, f

-----------------------------------------------------------------------------
(* The compilation, the signal handler and the runs *)

LEMMA CompKept ==
  ASSUME CompInv, Depth \in Nat, comps \in Nat, comps' = comps,
         \/ \E f : Grown(f) /\ f.kind # "comp"
         \/ Shrunk /\ Depth > 0 /\ Top.kind # "comp"
         \/ \E k \in 1 .. Depth : \E f :
              GoesOn(k, f) /\ comps =< k /\ (f.kind = "comp" <=> stack[k].kind = "comp")
  PROVE  CompInv'
<1>1. ASSUME NEW f, Grown(f), f.kind # "comp" PROVE CompInv'
  <2>1. comps # Depth + 1
    BY DEF CompInv
  <2>2. \A i \in 1 .. Depth + 1 : i \in 1 .. Depth \/ i = Depth + 1
    OBVIOUS
  <2> QED
    BY <1>1, <2>1, <2>2 DEF CompInv, Grown, Depth
<1>2. ASSUME Shrunk, Depth > 0, Top.kind # "comp" PROVE CompInv'
  <2>1. comps # Depth /\ comps =< Depth - 1
    BY <1>2 DEF CompInv, Top
  <2>2. \A i \in 1 .. Depth - 1 : i \in 1 .. Depth
    OBVIOUS
  <2> QED
    BY <1>2, <2>1, <2>2 DEF CompInv, Shrunk, Depth
<1>3. ASSUME NEW k \in 1 .. Depth, NEW f, GoesOn(k, f), comps =< k, f.kind = "comp" <=> stack[k].kind = "comp"
      PROVE  CompInv'
  <2>1. \A i \in 1 .. k : i \in 1 .. Depth /\ (i \in 1 .. k - 1 \/ i = k)
    OBVIOUS
  <2> QED
    BY <1>3, <2>1 DEF CompInv, GoesOn, Depth
<1> QED
  BY <1>1, <1>2, <1>3

LEMMA SignalKept ==
  ASSUME SignalInv, Depth \in Nat, armed' => armed,
         \/ \E f : Grown(f)
         \/ Shrunk /\ Depth > 0 /\ Top.kind # "line"
         \/ \E k \in 1 .. Depth : \E f : GoesOn(k, f) /\ (f.kind = stack[k].kind \/ k > 1)
  PROVE  SignalInv'
<1>1. CASE ~armed'
  BY <1>1 DEF SignalInv
<1>2. CASE armed'
  <2>1. Depth > 0 /\ stack[1].kind = "line" /\ 1 \in 1 .. Depth
    BY <1>2 DEF SignalInv
  <2>2. ASSUME NEW f, Grown(f) PROVE SignalInv'
    BY <2>1, <2>2 DEF SignalInv, Grown, Depth
  <2>3. ASSUME Shrunk, Top.kind # "line" PROVE SignalInv'
    <3>1. Depth # 1
      BY <2>1, <2>3 DEF Top
    <3>2. 1 \in 1 .. Depth - 1
      BY <2>1, <3>1
    <3> QED
      BY <2>1, <2>3, <3>2 DEF SignalInv, Shrunk, Depth
  <2>4. ASSUME NEW k \in 1 .. Depth, NEW f, GoesOn(k, f), f.kind = stack[k].kind \/ k > 1 PROVE SignalInv'
    <3>1. CASE k = 1
      BY <2>1, <2>4, <3>1 DEF SignalInv, GoesOn, Depth
    <3>2. CASE k # 1
      <4>1. 1 \in 1 .. k - 1 /\ k > 0
        BY <3>2, <2>1
      <4> QED
        BY <2>1, <2>4, <4>1 DEF SignalInv, GoesOn, Depth
    <3> QED
      BY <3>1, <3>2
  <2> QED
    BY <2>2, <2>3, <2>4
<1> QED
  BY <1>1, <1>2

\* Steps that begin and end no run.
LEMMA RunKept ==
  ASSUME RunInv, Depth \in Nat, nesting' = nesting, owed' => countdown' = 1,
         nesting = 0 /\ ~owed /\ ~ForeignCalls => ~owed',
         \/ \E f : Grown(f) /\ f.kind \notin {"line", "entry"} /\ Depth > 0
         \/ Shrunk /\ Depth > 0 /\ ~HasRun(Top)
         \/ \E k \in 1 .. Depth : \E f :
              /\ GoesOn(k, f) /\ (HasRun(f) <=> HasRun(stack[k])) /\ f.run = stack[k].run
              /\ f.kind = "entry" => stack[k].kind = "entry"
  PROVE  RunInv'
<1>1. ASSUME NEW f, Grown(f), f.kind \notin {"line", "entry"}, Depth > 0 PROVE RunInv'
  <2>1. ~HasRun(f) /\ f.kind # "entry"
    BY <1>1 DEF HasRun
  <2>2. /\ Len(stack') = Depth + 1
        /\ \A i \in 1 .. Depth + 1 : HasRun(stack'[i]) \/ stack'[i].kind = "entry"
             => i \in 1 .. Depth /\ stack'[i] = stack[i]
    <3>1. \A i \in 1 .. Depth + 1 : i \in 1 .. Depth \/ i = Depth + 1
      OBVIOUS
    <3> QED
      BY <1>1, <2>1, <3>1 DEF Grown
  <2>3. stack'[1] = stack[1]
    BY <1>1 DEF Grown
  <2> QED
    BY <1>1, <2>2, <2>3 DEF RunInv, Depth
<1>2. ASSUME Shrunk, Depth > 0, ~HasRun(Top) PROVE RunInv'
  <2>1. Len(stack') = Depth - 1 /\ \A i \in 1 .. Depth - 1 : i \in 1 .. Depth /\ stack'[i] = stack[i]
    BY <1>2 DEF Shrunk
  <2>2. Depth = 1 => ~HasRun(stack[1])
    BY <1>2 DEF Top
  <2>3. Depth # 1 => stack'[1] = stack[1] /\ Depth - 1 > 0
    BY <1>2, <2>1
  <2>4. ~ForeignCalls => nesting = IF Depth - 1 > 0 /\ HasRun(stack'[1]) THEN 1 ELSE 0
    BY <1>2, <2>2, <2>3 DEF RunInv
  <2> QED
    BY <2>1, <2>4 DEF RunInv, Depth
<1>3. ASSUME NEW k \in 1 .. Depth, NEW f, GoesOn(k, f), HasRun(f) <=> HasRun(stack[k]), f.run = stack[k].run,
             f.kind = "entry" => stack[k].kind = "entry"
      PROVE  RunInv'
  <2>1. /\ Len(stack') = k /\ k > 0 /\ 1 \in 1 .. k /\ Depth > 0
        /\ \A i \in 1 .. k : /\ i \in 1 .. Depth
                             /\ HasRun(stack'[i]) <=> HasRun(stack[i])
                             /\ stack'[i].run = stack[i].run
                             /\ stack'[i].kind = "entry" => stack[i].kind = "entry"
    <3>1. \A i \in 1 .. k : i \in 1 .. Depth /\ (i \in 1 .. k - 1 \/ i = k)
      OBVIOUS
    <3> QED
      BY <1>3, <3>1 DEF GoesOn
  <2> QED
    BY <2>1 DEF RunInv, Depth
<1> QED
  BY <1>1, <1>2, <1>3

LEMMA RunEndKeeps ==
  ASSUME TypeInv, RunEnd, nesting >= 1, owed => countdown = 1
  PROVE  /\ nesting' = nesting - 1 /\ nesting' \in Nat /\ countdown' \in 1 .. MaxCountdown
         /\ owed' \in BOOLEAN /\ (owed' => countdown' = 1) /\ (nesting = 1 => ~owed')
<1>1. MaxCountdown \in Nat /\ MaxCountdown >= 1 /\ countdown \in 1 .. MaxCountdown /\ nesting \in Nat
  BY ToplevelAssumption DEF TypeInv
<1>2. nesting' = nesting - 1 /\ nesting' \in Nat
  BY <1>1 DEF RunEnd
<1>3. owed \in BOOLEAN
  BY DEF TypeInv
<1>4. CASE nesting # 1
  <2>1. countdown' = countdown /\ owed' = owed
    BY <1>4 DEF RunEnd
  <2> QED
    BY <2>1, <1>1, <1>2, <1>3, <1>4
<1>5. CASE nesting = 1 /\ countdown = 1
  <2>1. countdown' = MaxCountdown /\ ~owed' /\ owed' \in BOOLEAN
    BY <1>5 DEF RunEnd
  <2>2. countdown' \in 1 .. MaxCountdown
    BY <2>1, <1>1
  <2> QED
    BY <2>1, <2>2, <1>2
<1>6. CASE nesting = 1 /\ countdown # 1
  <2>1. countdown' = countdown - 1 /\ ~owed' /\ owed' \in BOOLEAN
    BY <1>3, <1>6 DEF RunEnd
  <2>2. countdown' \in 1 .. MaxCountdown
    BY <2>1, <1>1, <1>6
  <2> QED
    BY <2>1, <2>2, <1>2
<1> QED
  BY <1>4, <1>5, <1>6

-----------------------------------------------------------------------------
(* The steps *)

\* what the actions below begin with
Good == TypeInv /\ Running /\ StackInv /\ CompInv /\ SignalInv /\ PendingInv /\ RunInv

LEMMA GoodFacts ==
  ASSUME Good
  PROVE  /\ stack \in Seq(FrameSet) /\ Depth \in Nat /\ Len(gs) \in Nat /\ comps \in Nat /\ nesting \in Nat
         /\ Depth > 0 => Top \in FrameSet /\ Top.gs \in Nat /\ Own(Top) =< Len(gs)
         /\ Depth > 0 /\ Top.kind # "block" => Own(Top) = Len(gs)
         /\ \A i \in 1 .. Depth : i < Depth => stack[i].stage = "body"
         /\ Depth > 0 => stack[1].kind \in {"line", "entry"} /\ stack[1].gs = 0 /\ 1 \in 1 .. Depth
         /\ \A i \in 1 .. Depth : stack[i].kind = "line" => i = 1
<1>1. stack \in Seq(FrameSet) /\ Depth \in Nat /\ Len(gs) \in Nat /\ comps \in Nat /\ nesting \in Nat
  BY ToplevelAssumption DEF Good, TypeInv, Depth
<1>2. Shape(stack)
  BY DEF Good, StackInv, Consistent
<1>3. ASSUME Depth > 0 PROVE Top \in FrameSet /\ Top.gs \in Nat /\ Depth \in 1 .. Len(stack)
  BY <1>1, <1>3, FrameHeights DEF Top, Depth
<1>4. ASSUME Depth > 0 PROVE Own(Top) =< Len(gs) /\ (Top.kind # "block" => Own(Top) = Len(gs))
  <2>1. Depth \in 1 .. Len(stack)
    BY <1>1, <1>4 DEF Depth
  <2> QED
    BY <2>1 DEF Good, StackInv, Consistent, GsTiled, Top, Depth
<1> QED
  BY <1>1, <1>2, <1>3, <1>4 DEF Shape, Depth

\* No frame but a catcher that has landed is over an error, and it has a run below it.
LEMMA ThrownKeeps ==
  ASSUME Good, Depth > 0, Top.stage \in {"body", "landed"},
         NEW msg \in Texts, Throw(msg), flag' \in BOOLEAN, armed' = armed,
         comps' = IF Top.kind = "comp" /\ Top.stage = "landed" THEN 0 ELSE comps
  PROVE  Inv'
<1>1. TypeInv /\ StackInv /\ Running
  BY DEF Good
<1>2. /\ thrown' = msg /\ countdown' = 1 /\ owed' = TRUE /\ nesting' = nesting
  BY DEF Throw, RunPressure
<1>3. countdown' \in 1 .. MaxCountdown /\ comps' \in 0 .. MaxFrames /\ armed' \in BOOLEAN
  BY <1>1, <1>2, ToplevelAssumption DEF TypeInv
<1>4. CASE cf = << >>
  <2>1. status' = "exited" /\ UNCHANGED <<cf, gs, lastErr, env, stack>>
    BY <1>4 DEF Throw
  <2> QED
    BY <1>1, <1>2, <1>3, <2>1 DEF Inv, TypeInv, Running, Depth
<1>5. CASE cf # << >>
  <2> DEFINE c == cf[Len(cf)]
             k == c.frame
             f == [stack[k] EXCEPT !.stage = "landed"]
             v == Restored(c.gs)
  <2>1. /\ cf' = Front(cf) /\ gs' = SubSeq(gs, 1, c.gs) /\ lastErr' = v /\ env' = c.env
        /\ stack' = [SubSeq(stack, 1, k) EXCEPT ![k].stage = "landed"] /\ status' = status
    BY <1>5 DEF Throw, Last
  <2>2. k \in 1 .. Depth /\ Waits(stack[k]) /\ \A i \in 1 .. Depth : Waits(stack[i]) => i =< k
    BY <1>1, <1>5, LastCatcher DEF TypeInv, StackInv, Consistent, Depth
  <2>3. c.gs = stack[k].gs /\ c \in CatchSet
    <3>1. Len(cf) \in 1 .. Len(cf) /\ c \in CatchSet
      BY <1>1, <1>5 DEF TypeInv
    <3> QED
      BY <3>1 DEF Good, StackInv, Consistent, GsTiled
  <2>4. ~Handles(stack[k]) /\ stack[k].kind # "block"
    BY <2>2 DEF Waits, Handles, CatchKinds
  <2>5. ErrOf(stack, k, v) /\ v \in Texts
    BY <1>1, <2>2, <2>3, <2>4, RestoredRight DEF TypeInv, StackInv
  <2>6. env \in Nat
    BY <1>1, ToplevelAssumption DEF TypeInv
  <2>8. /\ stack[k] \in FrameSet /\ stack[k].gs \in Nat /\ Depth \in Nat /\ Len(gs) \in Nat /\ k \in Nat /\ k \in 1 .. k
        /\ stack[k].gs =< Len(gs)
    <3>1. stack[k] \in FrameSet /\ stack[k].gs \in Nat /\ Depth \in Nat /\ Len(gs) \in Nat
      BY <1>1, <2>2, FrameHeights DEF TypeInv, Depth
    <3>2. Own(stack[k]) =< Len(gs)
      BY <2>2 DEF Good, StackInv, Consistent, GsTiled, Depth
    <3>3. Own(stack[k]) = stack[k].gs
      BY <3>1, <2>4 DEF Own
    <3> QED
      BY <3>1, <3>2, <3>3, <2>2
  <2>7. /\ stack' \in Seq(FrameSet) /\ Len(stack') = k /\ stack'[k] = f
        /\ \A i \in 1 .. k - 1 : stack'[i] = stack[i]
        /\ cf' \in Seq(CatchSet) /\ gs' \in Seq(ValueSet) /\ Len(gs') = stack[k].gs
        /\ stack[k].gs =< Len(gs)
        /\ Consistent(stack', cf', gs', env', lastErr')
    <3>1. /\ stack \in Seq(FrameSet) /\ cf \in Seq(CatchSet) /\ gs \in Seq(ValueSet) /\ lastErr \in Texts
          /\ Consistent(stack, cf, gs, env, lastErr)
      BY <1>1 DEF TypeInv, StackInv
    <3>2. f \in FrameSet /\ f.gs = stack[k].gs /\ f.kind = stack[k].kind /\ f.stage = "landed"
      BY <2>8 DEF FrameSet, Stages
    <3> DEFINE p == SubSeq(stack, 1, k)
    <3>3. p \in Seq(FrameSet) /\ Len(p) = k /\ \A i \in 1 .. k : p[i] = stack[i]
      BY <3>1, <2>2, <2>8 DEF Depth
    <3>4. stack' \in Seq(FrameSet) /\ Len(stack') = k /\ stack'[k] = f /\ \A i \in 1 .. k - 1 : stack'[i] = stack[i]
      <4>1. stack' = [p EXCEPT ![k] = f]
        BY <2>1, <2>8, <3>3
      <4> HIDE DEF p, f, k
      <4>2. stack' \in Seq(FrameSet) /\ Len(stack') = Len(p) /\ \A i \in 1 .. Len(p) : stack'[i] = IF i = k THEN f ELSE p[i]
        BY <4>1, <2>8, <3>2, <3>3, ExceptSeq
      <4>3. \A i \in 1 .. k - 1 : i \in 1 .. k /\ i # k
        BY <2>8
      <4> QED
        BY <4>2, <4>3, <2>8, <3>3
    <3>5. /\ gs' \in Seq(ValueSet) /\ Len(gs') = stack[k].gs
          /\ \A x \in 1 .. Len(gs') : x \in 1 .. Len(gs) /\ gs'[x] = gs[x]
      <4> DEFINE q == stack[k].gs
      <4>1. gs' = SubSeq(gs, 1, q) /\ q \in Nat /\ q =< Len(gs)
        BY <2>1, <2>3, <2>8
      <4> HIDE DEF q
      <4>2. gs' \in Seq(ValueSet) /\ Len(gs') = q /\ \A x \in 1 .. q : x \in 1 .. Len(gs) /\ gs'[x] = gs[x]
        BY ONLY <4>1, <3>1, <2>8
      <4> QED
        BY <4>2 DEF q
    <3>6. Front(cf) \in Seq(CatchSet)
      BY <1>5, <3>1, FrontFacts
    <3>7. k = cf[Len(cf)].frame /\ cf' = Front(cf) /\ env' = cf[Len(cf)].env /\ lastErr' = v
      BY <2>1
    <3>8. stack'[k].gs = stack[k].gs /\ stack'[k].kind = stack[k].kind /\ stack'[k].stage = "landed"
      BY <3>2, <3>4
    <3>10. LandedAt(cf, cf', env', k)
      BY <1>5, <3>7 DEF LandedAt
    <3> HIDE DEF k, f, c, v
    <3>11. LandedFrame(stack, stack', k)
      BY <3>4, <3>8 DEF LandedFrame
    <3>12. CutValues(stack, gs, gs', k - 1)
      <4>1. k - 1 + 1 = k
        BY <2>8
      <4> QED
        BY <4>1, <3>5 DEF CutValues
    <3>9. Consistent(stack', cf', gs', env', lastErr')
      BY <2>5, <2>6, <3>1, <3>4, <3>5, <3>7, <3>10, <3>11, <3>12, ThrowKeeps
    <3> QED
      BY <2>8, <3>4, <3>5, <3>6, <3>7, <3>9
  <2>9. GoesOn(k, f) /\ Depth' = k /\ f.kind = stack[k].kind /\ f.stage = "landed" /\ f.run = stack[k].run
    BY <2>7, <2>8 DEF GoesOn, Depth, FrameSet
  <2>10. TypeInv'
    <3>1. env' \in 0 .. EnvSize
      BY <2>1, <2>3 DEF CatchSet
    <3>2. Len(gs') =< GsSize
      <4>1. Len(gs) =< GsSize /\ Len(gs) \in Nat /\ GsSize \in Nat
        BY <1>1, ToplevelAssumption DEF TypeInv
      <4> QED
        BY <4>1, <2>7, <2>8
    <3>3. k =< MaxFrames
      BY <1>1, <2>2, <2>8, ToplevelAssumption DEF TypeInv
    <3> QED
      BY <1>1, <1>2, <1>3, <2>1, <2>5, <2>7, <2>9, <3>1, <3>2, <3>3 DEF TypeInv, Running
  <2>11. StackInv'
    BY <2>7 DEF StackInv
  <2> HIDE DEF c, k, f, v
  <2>12. CompInv'
    <3>1. CASE comps' = comps
      <4>1. comps =< k
        <5>1. CASE comps = 0
          BY <5>1, <2>2, <2>8
        <5>2. CASE comps # 0
          <6>1. comps \in 1 .. Depth /\ stack[comps].kind = "comp"
            BY <5>2, GoodFacts DEF Good, CompInv
          <6>2. stack[comps].stage = "body"
            <7>1. comps < Depth \/ comps = Depth
              BY <6>1, <2>8
            <7>2. comps = Depth => Top.stage # "landed"
              BY <3>1, <5>2, <6>1 DEF Top
            <7> QED
              BY <6>1, <7>1, <7>2, GoodFacts DEF Top
          <6>3. Waits(stack[comps])
            BY <6>1, <6>2 DEF Waits, CatchKinds
          <6> QED
            BY <2>2, <6>1, <6>3
        <5> QED
          BY <5>1, <5>2
      <4> QED
        BY <3>1, <4>1, <2>2, <2>9, CompKept, GoodFacts DEF Good
    <3>2. CASE comps' # comps
      <4>1. Top.kind = "comp" /\ Top.stage = "landed" /\ comps' = 0 /\ comps = Depth
        BY <3>2, GoodFacts DEF Good, CompInv, Top
      <4>2. k # Depth
        <5>1. ~Waits(Top)
          BY <4>1 DEF Waits
        <5> QED
          BY <5>1, <2>2 DEF Top
      <4>3. \A i \in 1 .. k : i \in 1 .. Depth /\ i # Depth /\ (i \in 1 .. k - 1 \/ i = k)
        BY <4>2, <2>2, <2>8
      <4> QED
        BY <4>1, <4>3, <2>2, <2>9 DEF Good, CompInv, GoesOn, Depth
    <3> QED
      BY <3>1, <3>2
  <2>13. SignalInv'
    BY <2>2, <2>8, <2>9, SignalKept DEF Good
  <2>14. PendingInv'
    <3>1. Top' = f /\ Depth' # 0
      BY <2>9, <2>2 DEF GoesOn, Top, Depth
    <3> QED
      BY <3>1, <2>9 DEF PendingInv
  <2>15. RunInv'
    <3>1. ~ForeignCalls => nesting # 0
      <4>1. stack[1].stage \in {"body", "landed"} /\ stack[1].kind \in {"line", "entry"}
        <5>1. Depth = 1 => stack[1] = Top
          BY DEF Top
        <5> QED
          BY <5>1, GoodFacts
      <4>2. HasRun(stack[1])
        BY <4>1 DEF HasRun
      <4> QED
        BY <4>2 DEF Good, RunInv
    <3>2. HasRun(f) <=> HasRun(stack[k])
      <4>1. stack[k].kind = "line" => k = 1
        BY <2>2, GoodFacts
      <4>2. k = 1 => stack[k].stage \in {"body", "landed"}
        <5>1. Depth = 1 => stack[1] = Top
          BY DEF Top
        <5> QED
          BY <5>1, GoodFacts
      <4>3. stack[k].kind # "entry"
        BY <2>2 DEF Waits, CatchKinds
      <4> QED
        BY <4>1, <4>2, <4>3, <2>9 DEF HasRun
    <3> QED
      BY <3>1, <3>2, <1>2, <2>2, <2>8, <2>9, RunKept DEF Good
  <2> QED
    BY <2>10, <2>11, <2>12, <2>13, <2>14, <2>15 DEF Inv
<1> QED
  BY <1>4, <1>5

LEMMA CallSteps ==
  ASSUME Good, Room, NEW f \in FrameSet, f.stage = "body", f.gs = Len(gs), f.kind # "handling",
         IF Depth = 0 THEN f.kind \in {"line", "entry"} ELSE f.kind # "line" /\ Top.stage = "body",
         stack' = Append(stack, f), cf' = IF f.kind \in CatchKinds THEN Append(cf, CatchHere) ELSE cf,
         env' = IF f.kind = "block" THEN env + 1 ELSE env, env' \in 0 .. EnvSize,
         comps' = IF f.kind = "comp" THEN Depth + 1 ELSE comps, f.kind = "comp" => comps = 0,
         armed' \in BOOLEAN, armed' => armed \/ f.kind = "line",
         UNCHANGED <<gs, countdown, owed, errVars, flag, status>>,
         IF f.kind \in {"line", "entry"}
           THEN /\ nesting' = nesting + 1 /\ f.run = nesting + 1
                /\ f.kind = "entry" => Depth = 0 \/ ForeignCalls
           ELSE nesting' = nesting
  PROVE  Inv'
<1>1. TypeInv /\ StackInv /\ gs' = gs /\ lastErr' = lastErr /\ thrown' = thrown /\ countdown' = countdown
      /\ owed' = owed /\ flag' = flag /\ status' = status
  BY DEF Good, errVars
<1>2. /\ stack' \in Seq(FrameSet) /\ cf' \in Seq(CatchSet) /\ StackInv'
      /\ Grown(f) /\ Depth' = Depth + 1 /\ Depth' =< MaxFrames
  BY <1>1, Called
<1>3. Depth \in Nat /\ nesting \in Nat
  BY GoodFacts
<1>4. nesting' \in Nat
  BY <1>3
<1>5. comps' \in 0 .. MaxFrames
  BY <1>1, <1>2, <1>3, ToplevelAssumption DEF TypeInv
<1>6. TypeInv'
  BY <1>1, <1>2, <1>4, <1>5 DEF TypeInv
<1>7. CompInv'
  <2>1. CASE f.kind # "comp"
    BY <2>1, <1>2, <1>3, CompKept, GoodFacts DEF Good
  <2>2. CASE f.kind = "comp"
    <3>1. \A i \in 1 .. Depth + 1 : i \in 1 .. Depth \/ i = Depth + 1
      BY <1>3
    <3>2. comps = 0 /\ comps' = Depth + 1
      BY <2>2
    <3>3. \A i \in 1 .. Depth : stack[i].kind # "comp" /\ i # Depth + 1
      BY <3>2, <1>3 DEF Good, CompInv
    <3> QED
      BY <2>2, <3>1, <3>2, <3>3, <1>2, <1>3 DEF CompInv, Grown, Depth
  <2> QED
    BY <2>1, <2>2
<1>8. SignalInv'
  <2>1. CASE f.kind = "line"
    BY <2>1, <1>2, <1>3 DEF SignalInv, Grown, Depth
  <2>2. CASE f.kind # "line"
    BY <2>2, <1>2, <1>3, SignalKept DEF Good
  <2> QED
    BY <2>1, <2>2
<1>9. PendingInv'
  <2>1. thrown = None
    BY DEF Good, PendingInv
  <2> QED
    BY <2>1, <1>1 DEF PendingInv
<1>10. RunInv'
  <2>1. CASE f.kind \notin {"line", "entry"}
    <3>1. Depth > 0
      BY <2>1, <1>3
    <3>2. nesting' = nesting /\ (owed' => countdown' = 1) /\ (nesting = 0 /\ ~owed /\ ~ForeignCalls => ~owed')
      BY <2>1, <1>1 DEF Good, RunInv
    <3>3. \E ff : Grown(ff) /\ ff.kind \notin {"line", "entry"} /\ Depth > 0
      BY <2>1, <3>1, <1>2
    <3> QED
      BY <3>2, <3>3, <1>3, RunKept DEF Good
  <2>2. CASE f.kind \in {"line", "entry"}
    <3>1. HasRun(f)
      BY <2>2 DEF HasRun
    <3>2. Len(stack') = Depth + 1 /\ stack'[Depth + 1] = f
          /\ \A i \in 1 .. Depth + 1 : i = Depth + 1 \/ (i \in 1 .. Depth /\ stack'[i] = stack[i])
      BY <1>2, <1>3 DEF Grown
    <3>3. nesting' = nesting + 1 /\ f.run = nesting + 1
      BY <2>2
    <3>4. \A i \in 1 .. Depth : HasRun(stack[i]) => 1 =< stack[i].run /\ stack[i].run =< nesting /\ stack[i].run \in Nat
      <4>1. \A i \in 1 .. Depth : stack[i].run \in Nat
        <5> SUFFICES ASSUME NEW i \in 1 .. Depth PROVE stack[i].run \in Nat
          OBVIOUS
        <5>1. stack[i] \in FrameSet
          BY <1>1 DEF TypeInv, Depth
        <5> QED
          BY <5>1 DEF FrameSet
      <4> QED
        BY <4>1 DEF Good, RunInv
    <3>5. \A i \in 1 .. Len(stack') : HasRun(stack'[i]) => 1 =< stack'[i].run /\ stack'[i].run =< nesting'
      BY <3>2, <3>3, <3>4, <1>3
    <3>6. \A i, k \in 1 .. Len(stack') :
            i < k /\ HasRun(stack'[i]) /\ HasRun(stack'[k]) => stack'[i].run < stack'[k].run
      <4> SUFFICES ASSUME NEW i \in 1 .. Len(stack'), NEW k \in 1 .. Len(stack'),
                          i < k, HasRun(stack'[i]), HasRun(stack'[k])
                   PROVE  stack'[i].run < stack'[k].run
        OBVIOUS
      <4>1. i \in 1 .. Depth /\ stack'[i] = stack[i]
        BY <3>2, <1>3
      <4>2. CASE k = Depth + 1
        BY <4>1, <4>2, <3>2, <3>3, <3>4, <1>3
      <4>3. CASE k \in 1 .. Depth /\ stack'[k] = stack[k]
        BY <4>1, <4>3 DEF Good, RunInv
      <4> QED
        BY <4>2, <4>3, <3>2
    <3>7. ~ForeignCalls => Depth = 0
      BY <2>2, <1>3
    <3>8. ASSUME ~ForeignCalls
          PROVE  /\ \A i \in 1 .. Len(stack') : stack'[i].kind = "entry" => i = 1
                 /\ nesting' = 1 /\ Len(stack') > 0 /\ HasRun(stack'[1])
      <4>1. nesting = 0
        BY <3>7, <3>8 DEF Good, RunInv
      <4> QED
        BY <4>1, <3>1, <3>2, <3>3, <3>7, <3>8
    <3>9. owed' => countdown' = 1
      BY <1>1 DEF Good, RunInv
    <3>10. \A i, k \in 1 .. Depth' :
             i < k /\ HasRun(stack'[i]) /\ HasRun(stack'[k]) => stack'[i].run < stack'[k].run
      BY <3>6 DEF Depth
    <3>11. /\ \A i \in 1 .. Depth' : HasRun(stack'[i]) => 1 =< stack'[i].run /\ stack'[i].run =< nesting'
           /\ ~ForeignCalls => /\ \A i \in 1 .. Depth' : stack'[i].kind = "entry" => i = 1
                               /\ nesting' = 1 /\ Depth' > 0 /\ HasRun(stack'[1])
      BY <3>5, <3>8 DEF Depth
    <3>12. ASSUME ~ForeignCalls
           PROVE  /\ \A i \in 1 .. Depth' : stack'[i].kind = "entry" => i = 1
                  /\ nesting' = IF Depth' > 0 /\ HasRun(stack'[1]) THEN 1 ELSE 0
                  /\ nesting' = 0 => ~owed'
      <4>1. nesting' = 1 /\ Depth' > 0 /\ HasRun(stack'[1])
        BY <3>11, <3>12
      <4>2. nesting' = IF Depth' > 0 /\ HasRun(stack'[1]) THEN 1 ELSE 0
        BY <4>1, Zenon
      <4>3. nesting' # 0
        BY <4>1
      <4> QED
        BY <4>2, <4>3, <3>11, <3>12, Zenon
    <3>13. \A i \in 1 .. Depth' : HasRun(stack'[i]) => 1 =< stack'[i].run /\ stack'[i].run =< nesting'
      BY <3>11
    <3> QED
      BY <3>9, <3>10, <3>12, <3>13, Zenon DEF RunInv
  <2> QED
    BY <2>1, <2>2
<1> QED
  BY <1>2, <1>6, <1>7, <1>8, <1>9, <1>10 DEF Inv

LEMMA ReturnSteps ==
  ASSUME Good, Depth > 0, stack' = Below, cf' = IF Waits(Top) THEN Front(cf) ELSE cf,
         gs' \in Seq(ValueSet), CutValues(stack, gs, gs', Depth - 1),
         env' = env - (IF Top.kind = "block" THEN 1 ELSE 0),
         ErrOf(stack, Depth - 1, lastErr'), lastErr' \in Texts,
         comps' = IF Top.kind = "comp" THEN 0 ELSE comps,
         armed' \in BOOLEAN, armed' => armed /\ Top.kind # "line",
         thrown' = None, flag' \in BOOLEAN, status' = status,
         IF HasRun(Top) THEN RunEnd ELSE UNCHANGED runVars
  PROVE  Inv'
<1>1. TypeInv /\ StackInv
  BY DEF Good
<1>2. Depth \in Nat /\ nesting \in Nat /\ Depth \in 1 .. Depth /\ Top.gs \in Nat /\ Len(gs) \in Nat
      /\ stack \in Seq(FrameSet) /\ Top \in FrameSet
  BY GoodFacts
<1>3. /\ stack' \in Seq(FrameSet) /\ cf' \in Seq(CatchSet) /\ env' \in 0 .. EnvSize /\ StackInv'
      /\ Shrunk /\ Depth' = Depth - 1 /\ Depth' =< MaxFrames
  BY <1>1, Returned
<1>4. Len(gs') =< GsSize
  <2>1. Len(gs') = Top.gs
    BY <1>2 DEF CutValues, Top
  <2>2. Top.gs \in 0 .. GsSize
    BY <1>2 DEF FrameSet
  <2> QED
    BY <2>1, <2>2
<1>5. comps' \in 0 .. MaxFrames
  BY <1>1, ToplevelAssumption DEF TypeInv
<1>6. ASSUME HasRun(Top)
      PROVE  /\ RunEnd /\ nesting >= 1 /\ Top.run =< nesting /\ Top.run \in Nat
             /\ nesting' = nesting - 1 /\ nesting' \in Nat /\ countdown' \in 1 .. MaxCountdown
             /\ owed' \in BOOLEAN /\ (owed' => countdown' = 1) /\ (nesting = 1 => ~owed')
  <2>1. 1 =< Top.run /\ Top.run =< nesting
    BY <1>2, <1>6 DEF Good, RunInv, Top
  <2>2. Top.run \in Nat
    BY <1>2 DEF FrameSet
  <2>3. nesting >= 1
    BY <2>1, <2>2, <1>2
  <2>4. owed => countdown = 1
    BY DEF Good, RunInv
  <2>5. RunEnd
    BY <1>6
  <2> QED
    BY <2>1, <2>2, <2>3, <2>4, <2>5, <1>1, RunEndKeeps
<1>7. nesting' \in Nat /\ countdown' \in 1 .. MaxCountdown /\ owed' \in BOOLEAN
  <2>1. CASE HasRun(Top)
    BY <2>1, <1>6
  <2>2. CASE ~HasRun(Top)
    BY <2>2, <1>1 DEF runVars, TypeInv
  <2> QED
    BY <2>1, <2>2
<1>8. TypeInv'
  <2>1. thrown' \in Texts
    BY DEF Texts
  <2>2. status' \in {"running", "exited", "abort", "assert", "fault"}
    BY <1>1 DEF TypeInv
  <2> QED
    BY <1>3, <1>4, <1>5, <1>7, <2>1, <2>2 DEF TypeInv
<1>9. CompInv'
  <2>1. CASE Top.kind # "comp"
    BY <2>1, <1>2, <1>3, CompKept, GoodFacts DEF Good
  <2>2. CASE Top.kind = "comp"
    <3>1. comps = Depth /\ comps' = 0
      BY <2>2, <1>2 DEF Good, CompInv, Top
    <3>2. \A i \in 1 .. Depth - 1 : i \in 1 .. Depth /\ i # Depth /\ i # 0
      BY <1>2
    <3>3. \A i \in 1 .. Depth - 1 : stack'[i].kind # "comp"
      BY <3>1, <3>2, <1>3 DEF Good, CompInv, Shrunk
    <3>4. ASSUME NEW i \in 1 .. Depth' PROVE stack'[i].kind = "comp" <=> comps' = i
      <4>1. i \in 1 .. Depth - 1
        BY <1>3
      <4> QED
        BY <4>1, <3>1, <3>2, <3>3
    <3>5. comps' =< Depth'
      BY <3>1, <1>2, <1>3
    <3> QED
      BY <3>4, <3>5 DEF CompInv
  <2> QED
    BY <2>1, <2>2
<1>10. SignalInv'
  <2>1. CASE Top.kind # "line"
    BY <2>1, <1>2, <1>3, SignalKept DEF Good
  <2>2. CASE Top.kind = "line"
    BY <2>2 DEF SignalInv
  <2> QED
    BY <2>1, <2>2
<1>11. PendingInv'
  BY DEF PendingInv
<1>12. RunInv'
  <2>1. CASE ~HasRun(Top)
    BY <2>1, <1>2, <1>3, RunKept DEF Good, RunInv, runVars
  <2>2. CASE HasRun(Top)
    <3>1. Len(stack') = Depth - 1 /\ \A i \in 1 .. Depth - 1 : i \in 1 .. Depth /\ i < Depth /\ stack'[i] = stack[i]
      BY <1>2, <1>3 DEF Shrunk
    <3>2. ASSUME NEW i \in 1 .. Depth - 1, HasRun(stack'[i])
          PROVE  1 =< stack'[i].run /\ stack'[i].run =< nesting'
      <4>1. stack[i].run < Top.run /\ 1 =< stack[i].run
        BY <3>1, <3>2, <2>2, <1>2 DEF Good, RunInv, Top
      <4>2. stack[i] \in FrameSet
        BY <3>1, <1>2 DEF Depth
      <4>3. stack[i].run \in Nat
        BY <4>2 DEF FrameSet
      <4>4. Top.run =< nesting /\ Top.run \in Nat /\ nesting' = nesting - 1 /\ stack'[i] = stack[i]
        BY <3>1, <2>2, <1>6
      <4> QED
        BY ONLY <4>1, <4>3, <4>4, <1>2
    <3>3. ASSUME ~ForeignCalls PROVE Depth = 1 /\ nesting = 1
      <4>1. Top.kind \in {"line", "entry"}
        BY <2>2 DEF HasRun
      <4>2. Depth = 1
        BY <4>1, <3>3, <1>2, GoodFacts DEF Good, RunInv, Top
      <4> QED
        BY <4>2, <3>3, <2>2, <1>2 DEF Good, RunInv, Top
    <3>4. \A i, k \in 1 .. Depth - 1 :
            i < k /\ HasRun(stack'[i]) /\ HasRun(stack'[k]) => stack'[i].run < stack'[k].run
      BY <3>1 DEF Good, RunInv
    <3>5. ~ForeignCalls => nesting' = 0 /\ ~owed' /\ Depth - 1 = 0
      BY <3>3, <2>2, <1>6
    <3> QED
      BY <3>1, <3>2, <3>4, <3>5, <2>2, <1>6 DEF RunInv, Depth
  <2> QED
    BY <2>1, <2>2
<1> QED
  BY <1>3, <1>8, <1>9, <1>10, <1>11, <1>12 DEF Inv

LEMMA StaySteps ==
  ASSUME Good, Depth > 0, NEW f \in FrameSet, stack' \in Seq(FrameSet), StackInv', GoesOn(Depth, f), Depth' = Depth,
         cf' = cf, gs' \in Seq(ValueSet), Len(gs') =< GsSize, env' = env, comps' = comps, status' = status,
         f.kind = "comp" <=> Top.kind = "comp", f.kind = Top.kind \/ Depth > 1, f.kind = "entry" => Top.kind = "entry",
         armed' \in BOOLEAN, armed' => armed, flag' \in BOOLEAN, lastErr' \in Texts, thrown' \in Texts,
         f.stage \notin {"landed", "unarmed"} => thrown' = None,
         HasRun(f) <=> HasRun(Top), f.run = Top.run, nesting' = nesting, owed' = owed,
         countdown' \in 1 .. MaxCountdown, owed' => countdown' = 1
  PROVE  Inv'
<1>1. Depth \in Nat /\ Depth \in 1 .. Depth /\ comps \in Nat /\ Top = stack[Depth]
  BY GoodFacts DEF Top
<1>2. TypeInv'
  BY DEF Good, TypeInv
<1>3. CompInv'
  <2>1. comps =< Depth
    BY DEF Good, CompInv
  <2> QED
    BY <1>1, <2>1, CompKept DEF Good
<1>4. SignalInv'
  BY <1>1, SignalKept DEF Good
<1>5. PendingInv'
  <2>1. Top' = f
    BY DEF GoesOn, Top, Depth
  <2> QED
    BY <2>1 DEF PendingInv
<1>6. RunInv'
  BY <1>1, RunKept DEF Good
<1> QED
  BY <1>2, <1>3, <1>4, <1>5, <1>6 DEF Inv

LEMMA FrameFacts ==
  ASSUME Good, NEW k \in Kinds, NEW e \in Nat
  PROVE  /\ Frame(k, e) \in FrameSet /\ Frame(k, e).kind = k /\ Frame(k, e).stage = "body"
         /\ Frame(k, e).run = e /\ Frame(k, e).gs = Len(gs)
<1>1. Len(gs) \in 0 .. GsSize
  BY GoodFacts, ToplevelAssumption DEF Good, TypeInv
<1>2. "body" \in Stages /\ None \in Texts
  BY DEF Stages, Texts
<1> QED
  BY <1>1, <1>2 DEF Frame, FrameSet

LEMMA AtFacts ==
  ASSUME Good, NEW k, NEW x, At(k, x)
  PROVE  Depth > 0 /\ Top.kind = k /\ Top.stage = x /\ status = "running"
BY DEF At

LEMMA InvIsGood ==
  ASSUME Inv, status = "running"
  PROVE  Good
BY DEF Inv, Good, Running

-----------------------------------------------------------------------------
(* One lemma for each action *)

LEMMA RaiseStep == ASSUME Good, NEW m \in Errors, Raise(m) PROVE Inv'
<1>1. m \in Texts /\ Depth > 0 /\ Top.stage = "body"
  BY DEF Raise, InCode, Texts, Messages
<1>2. Throw(m) /\ comps' = comps /\ flag' = flag /\ armed' = armed
  BY DEF Raise, signalVars
<1>3. flag' \in BOOLEAN
  BY <1>2 DEF Good, TypeInv
<1> QED
  BY <1>1, <1>2, <1>3, ThrownKeeps

LEMMA CheckInterruptStep == ASSUME Good, CheckInterrupt PROVE Inv'
<1>1. Interrupted \in Texts /\ Depth > 0 /\ Top.stage = "body"
  BY DEF CheckInterrupt, InCode, Texts, Messages
<1>2. Throw(Interrupted) /\ comps' = comps /\ flag' = FALSE /\ armed' = armed
  BY DEF CheckInterrupt
<1>3. flag' \in BOOLEAN
  BY <1>2
<1> QED
  BY <1>1, <1>2, <1>3, ThrownKeeps

\* pushEnv and the tests of gStack's room throw this error
LEMMA OverflowStep ==
  ASSUME Good, Depth > 0, Top.stage \in {"body", "landed"}, Top.kind # "comp", Throw(Overflow),
         UNCHANGED <<comps, signalVars>>
  PROVE  Inv'
<1>1. Overflow \in Texts
  BY DEF Texts, Messages
<1>2. flag' \in BOOLEAN /\ armed' = armed /\ comps' = comps
  BY DEF Good, TypeInv, signalVars
<1> QED
  BY <1>1, <1>2, ThrownKeeps

LEMMA EnterLineStep == ASSUME Good, EnterLine PROVE Inv'
<1> DEFINE f == Frame("line", nesting + 1)
<1>1. nesting + 1 \in Nat /\ "line" \in Kinds
  BY GoodFacts DEF Kinds
<1>2. f \in FrameSet /\ f.kind = "line" /\ f.stage = "body" /\ f.run = nesting + 1 /\ f.gs = Len(gs)
  BY <1>1, FrameFacts
<1>3. /\ Depth = 0 /\ Room /\ stack' = Append(stack, f) /\ cf' = Append(cf, CatchHere)
      /\ armed' = ReplInterrupt /\ nesting' = nesting + 1
      /\ env' = env /\ comps' = comps /\ UNCHANGED <<gs, countdown, owed, errVars, flag, status>>
  BY DEF EnterLine, PushCatching, Depth
<1>4. armed' \in BOOLEAN /\ env' \in 0 .. EnvSize
  BY <1>3, ToplevelAssumption DEF Good, TypeInv
<1> HIDE DEF f
<1> QED
  BY <1>2, <1>3, <1>4, CallSteps DEF CatchKinds

LEMMA EnterEntryStep == ASSUME Good, EnterEntry PROVE Inv'
<1> DEFINE f == Frame("entry", nesting + 1)
<1>1. nesting + 1 \in Nat /\ "entry" \in Kinds
  BY GoodFacts DEF Kinds
<1>2. f \in FrameSet /\ f.kind = "entry" /\ f.stage = "body" /\ f.run = nesting + 1 /\ f.gs = Len(gs)
  BY <1>1, FrameFacts
<1>3. /\ Depth = 0 \/ (ForeignCalls /\ Top.stage = "body")
      /\ Room /\ stack' = Append(stack, f) /\ cf' = cf
      /\ armed' = armed /\ nesting' = nesting + 1
      /\ env' = env /\ comps' = comps /\ UNCHANGED <<gs, countdown, owed, errVars, flag, status>>
  BY DEF EnterEntry, InCode, Depth, signalVars
<1>4. armed' \in BOOLEAN /\ env' \in 0 .. EnvSize
  BY <1>3 DEF Good, TypeInv
<1> HIDE DEF f
<1> QED
  BY <1>2, <1>3, <1>4, CallSteps DEF CatchKinds

LEMMA EnterBlockStep == ASSUME Good, EnterBlock PROVE Inv'
<1>1. CASE ~EnvRoom
  <2>1. Throw(Overflow) /\ Depth > 0 /\ Top.stage = "body" /\ UNCHANGED <<comps, signalVars>>
    BY <1>1 DEF EnterBlock, InCode
  <2>2. CASE Top.kind # "comp"
    BY <2>1, <2>2, OverflowStep
  <2>3. CASE Top.kind = "comp"
    <3>1. Overflow \in Texts
      BY DEF Texts, Messages
    <3>2. flag' \in BOOLEAN /\ armed' = armed /\ comps' = comps
      BY <2>1 DEF Good, TypeInv, signalVars
    <3> QED
      BY <2>1, <3>1, <3>2, ThrownKeeps
  <2> QED
    BY <2>2, <2>3
<1>2. CASE EnvRoom
  <2> DEFINE f == Frame("block", 0)
  <2>1. "block" \in Kinds /\ 0 \in Nat
    BY DEF Kinds
  <2>2. f \in FrameSet /\ f.kind = "block" /\ f.stage = "body" /\ f.gs = Len(gs)
    BY <2>1, FrameFacts
  <2>3. /\ Depth > 0 /\ Top.stage = "body"
        /\ Room /\ stack' = Append(stack, f) /\ cf' = cf
        /\ armed' = armed /\ nesting' = nesting
        /\ env' = env + 1 /\ comps' = comps /\ UNCHANGED <<gs, countdown, owed, errVars, flag, status>>
    BY <1>2 DEF EnterBlock, InCode, signalVars, runVars
  <2>4. armed' \in BOOLEAN /\ env' \in 0 .. EnvSize
    BY <1>2, <2>3, ToplevelAssumption DEF Good, TypeInv, EnvRoom
  <2> HIDE DEF f
  <2> QED
    BY <2>2, <2>3, <2>4, CallSteps DEF CatchKinds
<1> QED
  BY <1>1, <1>2

LEMMA EnterCatchingStep == ASSUME Good, NEW k, EnterCatching(k) PROVE Inv'
<1> DEFINE f == Frame(k, 0)
<1>1. k \in Kinds /\ k \in CatchKinds /\ 0 \in Nat /\ k \notin {"line", "entry", "block", "comp", "handling"}
  BY DEF EnterCatching, Kinds, CatchKinds
<1>2. f \in FrameSet /\ f.kind = k /\ f.stage = "body" /\ f.gs = Len(gs)
  BY <1>1, FrameFacts
<1>3. /\ Depth > 0 /\ Top.stage = "body"
      /\ Room /\ stack' = Append(stack, f) /\ cf' = Append(cf, CatchHere)
      /\ armed' = armed /\ nesting' = nesting
      /\ env' = env /\ comps' = comps /\ UNCHANGED <<gs, countdown, owed, errVars, flag, status>>
  BY DEF EnterCatching, PushCatching, InCode, signalVars, runVars
<1>4. armed' \in BOOLEAN /\ env' \in 0 .. EnvSize
  BY <1>3 DEF Good, TypeInv
<1> HIDE DEF f
<1> QED
  BY <1>1, <1>2, <1>3, <1>4, CallSteps

LEMMA EnterCompStep == ASSUME Good, EnterComp PROVE Inv'
<1>1. CASE comps = 0
  <2> DEFINE f == Frame("comp", 0)
  <2>1. "comp" \in Kinds /\ "comp" \in CatchKinds /\ 0 \in Nat
    BY DEF Kinds, CatchKinds
  <2>2. f \in FrameSet /\ f.kind = "comp" /\ f.stage = "body" /\ f.gs = Len(gs)
    BY <2>1, FrameFacts
  <2>3. /\ Depth > 0 /\ Top.stage = "body"
        /\ Room /\ stack' = Append(stack, f) /\ cf' = Append(cf, CatchHere)
        /\ armed' = armed /\ nesting' = nesting
        /\ env' = env /\ comps' = Depth + 1 /\ UNCHANGED <<gs, countdown, owed, errVars, flag, status>>
    BY <1>1 DEF EnterComp, PushCatching, InCode, signalVars, runVars
  <2>4. armed' \in BOOLEAN /\ env' \in 0 .. EnvSize
    BY <2>3 DEF Good, TypeInv
  <2> HIDE DEF f
  <2> QED
    BY <1>1, <2>1, <2>2, <2>3, <2>4, CallSteps
<1>2. CASE comps # 0
  <2>1. status' = "assert" /\ UNCHANGED <<stack, cf, comps, gs, env, runVars, errVars, signalVars>>
    BY <1>2 DEF EnterComp
  <2> QED
    BY <2>1 DEF Inv, Good, TypeInv, Running, Depth, runVars, errVars, signalVars
<1> QED
  BY <1>1, <1>2

\* gStack is left as it is by every frame that owns nothing of it.
LEMMA NothingToCut ==
  ASSUME Good, Depth > 0, Top.gs = Len(gs)
  PROVE  CutValues(stack, gs, gs, Depth - 1)
<1>1. Depth - 1 + 1 = Depth
  BY GoodFacts
<1> QED
  BY <1>1 DEF CutValues, Top

LEMMA SameError ==
  ASSUME Good, Depth > 0, ~Handles(Top)
  PROVE  ErrOf(stack, Depth - 1, lastErr)
<1>1. Depth \in Nat \ {0}
  BY GoodFacts
<1>2. ErrOf(stack, Depth, lastErr)
  BY DEF Good, StackInv, Consistent, ErrsSaved, Depth
<1> QED
  BY <1>1, <1>2, ErrOfBelow DEF Top

\* The returns that give the last value of gStack back to nobody.
LEMMA PlainReturn ==
  ASSUME Good, Depth > 0, ~Handles(Top), Top.gs = Len(gs), stack' = Below, cf' = IF Waits(Top) THEN Front(cf) ELSE cf,
         gs' = gs, lastErr' = lastErr, env' = env - (IF Top.kind = "block" THEN 1 ELSE 0),
         comps' = IF Top.kind = "comp" THEN 0 ELSE comps,
         armed' \in BOOLEAN, armed' => armed /\ Top.kind # "line",
         thrown' = None, flag' \in BOOLEAN, status' = status,
         IF HasRun(Top) THEN RunEnd ELSE UNCHANGED runVars
  PROVE  Inv'
<1>1. gs' \in Seq(ValueSet) /\ lastErr' \in Texts
  BY DEF Good, TypeInv
<1>2. CutValues(stack, gs, gs', Depth - 1) /\ ErrOf(stack, Depth - 1, lastErr')
  BY NothingToCut, SameError
<1> QED
  BY <1>1, <1>2, ReturnSteps

\* Frames that are neither blocks nor handlers own nothing.
LEMMA OwnsNothing ==
  ASSUME Good, Depth > 0, Top.kind # "block", ~Handles(Top)
  PROVE  Top.gs = Len(gs)
BY GoodFacts DEF Own

LEMMA EntryReturnsStep == ASSUME Good, EntryReturns PROVE Inv'
<1>1. Depth > 0 /\ Top.kind = "entry" /\ Top.stage = "body"
  BY AtFacts DEF EntryReturns
<1>2. ~Handles(Top) /\ Top.gs = Len(gs) /\ ~Waits(Top) /\ HasRun(Top)
  BY <1>1, OwnsNothing DEF Handles, Waits, CatchKinds, HasRun
<1>3. /\ stack' = Below /\ cf' = cf /\ gs' = gs /\ lastErr' = lastErr /\ env' = env /\ comps' = comps
      /\ thrown' = thrown /\ armed' = armed /\ flag' = flag /\ status' = status /\ RunEnd
  BY DEF EntryReturns, errVars, signalVars
<1>4. thrown = None /\ armed \in BOOLEAN /\ flag \in BOOLEAN /\ env - 0 = env
  BY <1>1, ToplevelAssumption DEF Good, TypeInv, PendingInv
<1> QED
  BY <1>1, <1>2, <1>3, <1>4, PlainReturn

LEMMA LineReturnsStep == ASSUME Good, LineReturns PROVE Inv'
<1>1. Depth > 0 /\ Top.kind = "line" /\ Top.stage = "cleared"
  BY AtFacts DEF LineReturns
<1>2. ~Handles(Top) /\ Top.gs = Len(gs) /\ Waits(Top) /\ ~HasRun(Top)
  BY <1>1, OwnsNothing DEF Handles, Waits, CatchKinds, HasRun
<1>3. /\ stack' = Below /\ cf' = Front(cf) /\ gs' = gs /\ lastErr' = lastErr /\ env' = env /\ comps' = comps
      /\ thrown' = thrown /\ armed' = FALSE /\ flag' = flag /\ status' = status /\ UNCHANGED runVars
  BY DEF LineReturns, PopCatch, Disarm, errVars
<1>4. thrown = None /\ flag \in BOOLEAN /\ env - 0 = env
  BY <1>1, ToplevelAssumption DEF Good, TypeInv, PendingInv
<1>5. ~armed' /\ armed' \in BOOLEAN
  BY <1>3
<1> QED
  BY <1>1, <1>2, <1>3, <1>4, <1>5, PlainReturn

LEMMA LineReportsStep == ASSUME Good, LineReports PROVE Inv'
<1>1. Depth > 0 /\ Top.kind = "line" /\ Top.stage = "unarmed"
  BY AtFacts DEF LineReports
<1>2. ~Handles(Top) /\ Top.gs = Len(gs) /\ ~Waits(Top) /\ HasRun(Top)
  BY <1>1, OwnsNothing DEF Handles, Waits, CatchKinds, HasRun
<1>3. /\ stack' = Below /\ cf' = cf /\ gs' = gs /\ lastErr' = lastErr /\ env' = env /\ comps' = comps
      /\ thrown' = None /\ armed' = FALSE /\ flag' = flag /\ status' = status /\ RunEnd
  BY DEF LineReports, Disarm
<1>4. flag \in BOOLEAN /\ env - 0 = env
  BY <1>1, ToplevelAssumption DEF Good, TypeInv
<1>5. ~armed' /\ armed' \in BOOLEAN
  BY <1>3
<1> QED
  BY <1>1, <1>2, <1>3, <1>4, <1>5, PlainReturn

LEMMA BlockReturnsStep == ASSUME Good, BlockReturns PROVE Inv'
<1>1. Depth > 0 /\ Top.kind = "block" /\ Top.stage = "body"
  BY AtFacts DEF BlockReturns
<1>2. ~Handles(Top) /\ ~Waits(Top) /\ ~HasRun(Top)
  BY <1>1 DEF Handles, Waits, CatchKinds, HasRun
<1>3. /\ stack' = Below /\ cf' = cf /\ gs' = gs /\ lastErr' = lastErr /\ env' = env - 1 /\ comps' = comps
      /\ thrown' = thrown /\ armed' = armed /\ flag' = flag /\ status' = status /\ UNCHANGED runVars /\ Top.gs = Len(gs)
  BY DEF BlockReturns, errVars, signalVars
<1>4. thrown = None /\ armed \in BOOLEAN /\ flag \in BOOLEAN
  BY <1>1 DEF Good, TypeInv, PendingInv
<1> QED
  BY <1>1, <1>2, <1>3, <1>4, PlainReturn

LEMMA CatchingReturnsStep == ASSUME Good, CatchingReturns PROVE Inv'
<1>1. Depth > 0 /\ Top.kind \in {"catch", "fill", "cleanup"} /\ Top.stage = "body"
  BY DEF CatchingReturns, At
<1>2. ~Handles(Top) /\ Top.gs = Len(gs) /\ Waits(Top) /\ ~HasRun(Top)
  BY <1>1, OwnsNothing DEF Handles, Waits, CatchKinds, HasRun
<1>3. /\ stack' = Below /\ cf' = Front(cf) /\ gs' = gs /\ lastErr' = lastErr /\ env' = env /\ comps' = comps
      /\ thrown' = thrown /\ armed' = armed /\ flag' = flag /\ status' = status /\ UNCHANGED runVars
  BY DEF CatchingReturns, PopCatch, errVars, signalVars
<1>4. thrown = None /\ armed \in BOOLEAN /\ flag \in BOOLEAN /\ env - 0 = env
  BY <1>1, ToplevelAssumption DEF Good, TypeInv, PendingInv
<1> QED
  BY <1>1, <1>2, <1>3, <1>4, PlainReturn

LEMMA CompReturnsStep == ASSUME Good, CompReturns PROVE Inv'
<1>1. Depth > 0 /\ Top.kind = "comp" /\ Top.stage = "body"
  BY AtFacts DEF CompReturns
<1>2. ~Handles(Top) /\ Top.gs = Len(gs) /\ Waits(Top) /\ ~HasRun(Top)
  BY <1>1, OwnsNothing DEF Handles, Waits, CatchKinds, HasRun
<1>3. /\ stack' = Below /\ cf' = Front(cf) /\ gs' = gs /\ lastErr' = lastErr /\ env' = env /\ comps' = 0
      /\ thrown' = thrown /\ armed' = armed /\ flag' = flag /\ status' = status /\ UNCHANGED runVars
  BY DEF CompReturns, CompsPop, PopCatch, errVars, signalVars
<1>4. thrown = None /\ armed \in BOOLEAN /\ flag \in BOOLEAN /\ env - 0 = env
  BY <1>1, ToplevelAssumption DEF Good, TypeInv, PendingInv
<1> QED
  BY <1>1, <1>2, <1>3, <1>4, PlainReturn

LEMMA FillGivesUpStep == ASSUME Good, FillGivesUp PROVE Inv'
<1>1. Depth > 0 /\ Top.kind = "fill" /\ Top.stage = "landed"
  BY AtFacts DEF FillGivesUp
<1>2. ~Handles(Top) /\ Top.gs = Len(gs) /\ ~Waits(Top) /\ ~HasRun(Top)
  BY <1>1, OwnsNothing DEF Handles, Waits, CatchKinds, HasRun
<1>3. /\ stack' = Below /\ cf' = cf /\ gs' = gs /\ lastErr' = lastErr /\ env' = env /\ comps' = comps
      /\ thrown' = None /\ armed' = armed /\ flag' = flag /\ status' = status /\ UNCHANGED runVars
  BY DEF FillGivesUp, FreeThrown, signalVars
<1>4. armed \in BOOLEAN /\ flag \in BOOLEAN /\ env - 0 = env
  BY <1>1, ToplevelAssumption DEF Good, TypeInv
<1> QED
  BY <1>1, <1>2, <1>3, <1>4, PlainReturn

\* the message that is popped was the current error below the handler
LEMMA HandlingReturnsStep == ASSUME Good, HandlingReturns PROVE Inv'
<1>1. Depth > 0 /\ Top.kind = "handling" /\ Top.stage = "body"
  BY AtFacts DEF HandlingReturns
<1>2. Handles(Top) /\ ~Waits(Top) /\ ~HasRun(Top)
  BY <1>1 DEF Handles, Waits, CatchKinds, HasRun
<1>3. /\ stack' = Below /\ cf' = cf /\ gs' = Front(gs) /\ lastErr' = Last(gs) /\ env' = env /\ comps' = comps
      /\ thrown' = thrown /\ armed' = armed /\ flag' = flag /\ status' = status /\ UNCHANGED runVars
  BY DEF HandlingReturns, signalVars
<1>4. thrown = None /\ armed \in BOOLEAN /\ flag \in BOOLEAN /\ env - 0 = env /\ gs \in Seq(ValueSet)
  BY <1>1, ToplevelAssumption DEF Good, TypeInv, PendingInv
<1>5. /\ Depth \in 1 .. Depth /\ Depth - 1 + 1 = Depth /\ Top.gs \in Nat /\ Len(gs) \in Nat
      /\ Len(gs) = Top.gs + 1 /\ stack[Depth] = Top
  BY <1>1, <1>2, GoodFacts DEF Own, Top
<1>6. gs # << >> /\ Len(gs) \in 1 .. Len(gs)
  BY <1>5
<1>7. /\ gs' \in Seq(ValueSet) /\ Len(gs') = Top.gs
      /\ \A i \in 1 .. Top.gs : i \in 1 .. Len(gs) /\ gs'[i] = gs[i]
  <2>1. Front(gs) \in Seq(ValueSet) /\ Len(Front(gs)) = Len(gs) - 1 /\ \A i \in 1 .. Len(gs) - 1 : Front(gs)[i] = gs[i]
    BY <1>4, <1>6, FrontFacts
  <2> QED
    BY <2>1, <1>3, <1>5
<1>8. CutValues(stack, gs, gs', Depth - 1)
  BY <1>5, <1>7 DEF CutValues
<1>9. lastErr' = gs[Top.gs + 1]
  BY <1>3, <1>5 DEF Last
<1>10. ErrOf(stack, Depth - 1, lastErr')
  BY <1>2, <1>5, <1>9 DEF Good, StackInv, Consistent, ErrsSaved, Depth
<1>11. lastErr' \in Texts
  <2>1. gs[Top.gs + 1] # Value
    BY <1>2, <1>5, <1>6 DEF Good, StackInv, Consistent, GsSaved, Depth
  <2>2. gs[Top.gs + 1] \in ValueSet
    BY <1>4, <1>5, <1>6
  <2> QED
    BY <1>9, <2>1, <2>2 DEF ValueSet
<1> QED
  BY <1>1, <1>2, <1>3, <1>4, <1>7, <1>8, <1>10, <1>11, ReturnSteps

LEMMA CleanupRethrowsStep == ASSUME Good, CleanupRethrows PROVE Inv'
<1>1. Depth > 0 /\ Top.kind = "cleanup" /\ Top.stage = "landed"
  BY AtFacts DEF CleanupRethrows
<1>2. Throw(thrown) /\ comps' = comps /\ flag' = flag /\ armed' = armed
  BY DEF CleanupRethrows, signalVars
<1>3. flag' \in BOOLEAN /\ thrown \in Texts
  BY <1>2 DEF Good, TypeInv
<1> QED
  BY <1>1, <1>2, <1>3, ThrownKeeps

LEMMA CompRethrowsStep == ASSUME Good, CompRethrows PROVE Inv'
<1>1. Depth > 0 /\ Top.kind = "comp" /\ Top.stage = "landed"
  BY AtFacts DEF CompRethrows
<1>2. Throw(thrown) /\ comps' = 0 /\ flag' = flag /\ armed' = armed
  BY DEF CompRethrows, CompsPop, signalVars
<1>3. flag' \in BOOLEAN /\ thrown \in Texts
  BY <1>2 DEF Good, TypeInv
<1> QED
  BY <1>1, <1>2, <1>3, ThrownKeeps

LEMMA SameTop == ASSUME Good, Depth > 0 PROVE stack = [stack EXCEPT ![Depth] = Top]
<1>1. stack \in Seq(FrameSet) /\ Depth \in 1 .. Len(stack)
  BY GoodFacts DEF Depth
<1> QED
  BY <1>1 DEF Top

\* What a block adds to gStack or takes off again are values of its own.
LEMMA BlockValues ==
  ASSUME Good, Depth > 0, Top.kind = "block", gs' \in Seq(ValueSet), Top.gs =< Len(gs'), Len(gs') =< GsSize,
         \A n \in 1 .. Len(gs') : gs'[n] = IF n =< Len(gs) THEN gs[n] ELSE Value,
         UNCHANGED <<stack, cf, env, runVars, errVars, status, comps, signalVars>>
  PROVE  Inv'
<1>1. Depth \in Nat /\ Depth \in 1 .. Depth /\ Top \in FrameSet /\ Top.gs \in Nat /\ Len(gs) \in Nat /\ stack[Depth] = Top
      /\ Top.gs =< Len(gs) /\ Len(gs') \in Nat
  BY GoodFacts DEF Top, Own, Handles
<1>2. ~Handles(Top) /\ ~Waits(Top) /\ ~HasRun(Top)
  BY DEF Handles, Waits, CatchKinds, HasRun
<1>3. ASSUME NEW n \in 1 .. Len(gs), n > Top.gs PROVE gs[n] = Value
  <2> SUFFICES ASSUME gs[n] # Value PROVE FALSE
    OBVIOUS
  <2>1. PICK i \in 1 .. Depth : Handles(stack[i]) /\ stack[i].gs + 1 = n
    BY DEF Good, StackInv, Consistent, GsSaved, Depth
  <2>2. i < Depth
    BY <2>1, <1>1, <1>2
  <2>3. Own(stack[i]) = n
    BY <2>1 DEF Own
  <2>4. Own(stack[i]) =< stack[Depth].gs
    BY <2>2, <1>1 DEF Good, StackInv, Consistent, GsTiled, Depth
  <2> QED
    BY <2>3, <2>4, <1>1, <1>3
<1>4. PutValues(SubSeq(gs, 1, Top.gs), gs', lastErr, Top)
  <2> DEFINE m == Top.gs
             g == SubSeq(gs, 1, m)
  <2>1. m \in Nat /\ m =< Len(gs) /\ gs \in Seq(ValueSet)
    BY <1>1 DEF Good, TypeInv
  <2>2. Len(g) = m /\ \A n \in 1 .. m : g[n] = gs[n]
    <3> HIDE DEF m
    <3> QED
      BY <2>1
  <2>3. \A n \in 1 .. m : gs'[n] = gs[n]
    BY <1>1
  <2>4. \A n \in 1 .. Len(gs') : n > m => gs'[n] = Value
    BY <1>3, <1>1
  <2> HIDE DEF g, m
  <2>5. m =< Len(gs')
    BY DEF m
  <2> QED
    BY <2>2, <2>3, <2>4, <2>5 DEF PutValues, g, m
<1>5. stack' = [stack EXCEPT ![Depth] = Top] /\ cf' = cf /\ env' = env /\ lastErr' = lastErr
  BY SameTop DEF errVars
<1>6. stack' \in Seq(FrameSet) /\ StackInv' /\ GoesOn(Depth, Top) /\ Depth' = Depth
  BY <1>1, <1>2, <1>4, <1>5, WentOn DEF Good
<1>7. /\ comps' = comps /\ status' = status /\ armed' = armed /\ flag' = flag /\ thrown' = thrown
      /\ nesting' = nesting /\ owed' = owed /\ countdown' = countdown
  BY DEF runVars, errVars, signalVars
<1>8. /\ armed \in BOOLEAN /\ flag \in BOOLEAN /\ lastErr \in Texts /\ thrown \in Texts /\ countdown \in 1 .. MaxCountdown
      /\ owed => countdown = 1
      /\ Top.stage \notin {"landed", "unarmed"} => thrown = None
  BY DEF Good, TypeInv, RunInv, PendingInv
<1> QED
  BY <1>1, <1>5, <1>6, <1>7, <1>8, StaySteps

LEMMA GrowStep ==
  ASSUME Good, At("block", "body"), Len(gs) < GsSize, gs' = Append(gs, Value),
         UNCHANGED <<stack, cf, env, runVars, errVars, status, comps, signalVars>>
  PROVE  Inv'
<1>1. Depth > 0 /\ Top.kind = "block" /\ Top.stage = "body"
  BY AtFacts
<1>2. gs \in Seq(ValueSet) /\ Value \in ValueSet /\ Len(gs) \in Nat /\ GsSize \in Nat /\ Top.gs =< Len(gs) /\ Top.gs \in Nat
  BY <1>1, GoodFacts, ToplevelAssumption DEF Good, TypeInv, ValueSet, Own, Handles
<1>3. gs' \in Seq(ValueSet) /\ Len(gs') = Len(gs) + 1
      /\ \A n \in 1 .. Len(gs') : gs'[n] = IF n =< Len(gs) THEN gs[n] ELSE Value
  BY <1>2
<1> QED
  BY <1>1, <1>2, <1>3, BlockValues

LEMMA PushValueStep == ASSUME Good, PushValue PROVE Inv'
<1>1. CASE Len(gs) < GsSize
  BY <1>1, GrowStep DEF PushValue
<1>2. CASE ~(Len(gs) < GsSize)
  <2>1. status' = "fault" /\ UNCHANGED <<stack, cf, env, gs, runVars, comps, errVars, signalVars>>
    BY <1>2 DEF PushValue
  <2> QED
    BY <2>1 DEF Inv, Good, TypeInv, Running, Depth, runVars, errVars, signalVars
<1> QED
  BY <1>1, <1>2

LEMMA AddValueStep == ASSUME Good, AddValue PROVE Inv'
<1>1. CASE ~(Len(gs) < GsSize)
  <2>1. Depth > 0 /\ Top.kind = "block" /\ Top.stage = "body"
    BY AtFacts DEF AddValue
  <2> QED
    BY <1>1, <2>1, OverflowStep DEF AddValue
<1>2. CASE Len(gs) < GsSize
  BY <1>2, GrowStep DEF AddValue
<1> QED
  BY <1>1, <1>2

LEMMA PopValueStep == ASSUME Good, PopValue PROVE Inv'
<1>1. Depth > 0 /\ Top.kind = "block"
  BY AtFacts DEF PopValue
<1>2. /\ gs' = Front(gs) /\ Len(gs) > Top.gs
      /\ UNCHANGED <<stack, cf, env, runVars, errVars, status, comps, signalVars>>
  BY DEF PopValue
<1>3. gs \in Seq(ValueSet) /\ Len(gs) \in Nat /\ GsSize \in Nat /\ Len(gs) =< GsSize /\ Top.gs \in Nat
  BY <1>1, GoodFacts, ToplevelAssumption DEF Good, TypeInv
<1>4. gs # << >>
  BY <1>2, <1>3
<1>5. gs' \in Seq(ValueSet) /\ Len(gs') = Len(gs) - 1 /\ \A n \in 1 .. Len(gs) - 1 : gs'[n] = gs[n]
  BY <1>2, <1>3, <1>4, FrontFacts
<1>6. Top.gs =< Len(gs') /\ Len(gs') =< GsSize /\ \A n \in 1 .. Len(gs') : gs'[n] = IF n =< Len(gs) THEN gs[n] ELSE Value
  BY <1>2, <1>3, <1>5
<1> QED
  BY <1>1, <1>2, <1>5, <1>6, BlockValues

\* A catcher that landed is not at the bottom of the stack, so it can become a handler.
LEMMA CatchHandlesStep == ASSUME Good, CatchHandles PROVE Inv'
<1>1. Depth > 0 /\ Top.kind = "catch" /\ Top.stage = "landed"
  BY AtFacts DEF CatchHandles
<1>2. CASE ~(Len(gs) < GsSize)
  BY <1>1, <1>2, OverflowStep DEF CatchHandles
<1>3. CASE Len(gs) < GsSize
  <2> DEFINE f == [Top EXCEPT !.kind = "handling", !.stage = "body", !.err = thrown]
  <2>1. /\ gs' = Append(gs, lastErr) /\ lastErr' = thrown /\ thrown' = None
        /\ stack' = [stack EXCEPT ![Depth] = f]
        /\ UNCHANGED <<cf, env, runVars, status, comps, signalVars>>
    BY <1>3 DEF CatchHandles, Saved, Top
  <2>2. /\ gs \in Seq(ValueSet) /\ lastErr \in Texts /\ thrown \in Texts /\ Len(gs) \in Nat /\ GsSize \in Nat
        /\ Top \in FrameSet /\ Depth \in Nat
    BY <1>1, GoodFacts, ToplevelAssumption DEF Good, TypeInv
  <2>3. f \in FrameSet /\ f.kind = "handling" /\ f.stage = "body" /\ f.err = thrown /\ f.gs = Top.gs /\ f.run = Top.run
    BY <2>2 DEF FrameSet, Kinds, Stages
  <2> HIDE DEF f
  <2>4. Top.gs = Len(gs) /\ ~Handles(Top) /\ ~Waits(Top) /\ ~HasRun(Top)
    BY <1>1, OwnsNothing DEF Handles, Waits, HasRun
  <2>5. Handles(f) /\ ~Waits(f) /\ ~HasRun(f)
    BY <2>3 DEF Handles, Waits, HasRun, CatchKinds
  <2>6. Depth > 1
    <3>1. Depth # 1
      BY <1>1, GoodFacts DEF Top
    <3> QED
      BY <1>1, <2>2, <3>1
  <2>7. SubSeq(gs, 1, f.gs) = gs
    BY <2>2, <2>3, <2>4, SubSeqFull
  <2>8. gs' \in Seq(ValueSet) /\ Len(gs') = Len(gs) + 1 /\ gs'[Len(gs')] = lastErr /\ \A n \in 1 .. Len(gs) : gs'[n] = gs[n]
    BY <2>1, <2>2 DEF ValueSet
  <2>9. PutValues(SubSeq(gs, 1, f.gs), gs', lastErr, f)
    <3>1. PutValues(gs, gs', lastErr, f)
      BY <2>2, <2>3, <2>5, <2>8 DEF PutValues
    <3> QED
      BY <3>1, <2>7
  <2>10. stack' \in Seq(FrameSet) /\ StackInv' /\ GoesOn(Depth, f) /\ Depth' = Depth
    BY <1>1, <2>1, <2>3, <2>4, <2>5, <2>6, <2>8, <2>9, WentOn DEF Good
  <2>11. /\ comps' = comps /\ status' = status /\ armed' = armed /\ flag' = flag
         /\ nesting' = nesting /\ owed' = owed /\ countdown' = countdown
    BY <2>1 DEF runVars, signalVars
  <2>12. armed \in BOOLEAN /\ flag \in BOOLEAN /\ countdown \in 1 .. MaxCountdown /\ (owed => countdown = 1)
    BY DEF Good, TypeInv, RunInv
  <2>13. thrown' \in Texts /\ lastErr' \in Texts /\ thrown' = None
    BY <2>1, <2>2 DEF Texts
  <2>14. cf' = cf /\ env' = env /\ Len(gs') =< GsSize
    BY <1>3, <2>1, <2>2, <2>8
  <2>15. f.kind = "comp" <=> Top.kind = "comp"
    BY <1>1, <2>3
  <2>16. f.stage \notin {"landed", "unarmed"} => thrown' = None
    BY <2>13
  <2>17. f.kind = "entry" => Top.kind = "entry"
    BY <2>3
  <2>18. HasRun(f) <=> HasRun(Top)
    BY <2>4, <2>5
  <2>19. armed' \in BOOLEAN /\ (armed' => armed) /\ flag' \in BOOLEAN
    BY <2>11, <2>12
  <2>20. countdown' \in 1 .. MaxCountdown /\ (owed' => countdown' = 1)
    BY <2>11, <2>12
  <2> QED
    BY <1>1, <2>3, <2>6, <2>8, <2>10, <2>11, <2>13, <2>14, <2>15, <2>16, <2>17, <2>18, <2>19, <2>20, StaySteps
<1> QED
  BY <1>2, <1>3

\* A line that goes on to its next stage; what it does else is for the steps.
LEMMA LineStage ==
  ASSUME Good, Depth > 0, Top.kind = "line", NEW x \in Stages, stack' = Stage(x),
         UNCHANGED <<cf, gs, env, lastErr>>,
         x \in {"body", "ended", "cleared"} <=> Top.stage \in {"body", "ended", "cleared"}
  PROVE  /\ stack' \in Seq(FrameSet) /\ StackInv' /\ Depth' = Depth /\ Depth = 1
         /\ \E f \in FrameSet : GoesOn(Depth, f) /\ f.kind = "line" /\ f.stage = x /\ f.run = Top.run
<1> DEFINE f == [Top EXCEPT !.stage = x]
<1>1. Top \in FrameSet /\ Depth \in 1 .. Depth
  BY GoodFacts
<1>2. f \in FrameSet /\ f.kind = "line" /\ f.stage = x /\ f.run = Top.run
  BY <1>1 DEF FrameSet
<1>3. Top.kind # "block" /\ ~Handles(Top) /\ (Waits(f) <=> Waits(Top))
  BY <1>2 DEF Handles, Waits
<1>4. stack' \in Seq(FrameSet) /\ StackInv' /\ Depth' = Depth /\ GoesOn(Depth, f)
  BY <1>3, StageOnly DEF Good
<1>5. Depth = 1
  BY <1>1, GoodFacts DEF Top
<1> QED
  BY <1>2, <1>4, <1>5

\* Stages between which the line's run neither begins nor ends.
LEMMA LineClearsStep ==
  ASSUME Good, Depth > 0, Top.kind = "line", NEW x \in Stages, stack' = Stage(x), flag' = FALSE,
         UNCHANGED <<cf, gs, env, runVars, comps, errVars, armed, status>>,
         <<Top.stage, x>> \in {<<"ended", "cleared">>, <<"landed", "unarmed">>}
  PROVE  Inv'
<1>1. /\ cf' = cf /\ gs' = gs /\ env' = env /\ comps' = comps /\ armed' = armed /\ status' = status
      /\ nesting' = nesting /\ countdown' = countdown /\ owed' = owed /\ thrown' = thrown /\ lastErr' = lastErr
  BY DEF runVars, errVars
<1>2. (Top.stage = "ended" /\ x = "cleared") \/ (Top.stage = "landed" /\ x = "unarmed")
  OBVIOUS
<1>3. x \in {"body", "ended", "cleared"} <=> Top.stage \in {"body", "ended", "cleared"}
  BY <1>2
<1>4. stack' \in Seq(FrameSet) /\ StackInv' /\ Depth' = Depth
  BY <1>1, <1>3, LineStage
<1>5. PICK f \in FrameSet : GoesOn(Depth, f) /\ f.kind = "line" /\ f.stage = x /\ f.run = Top.run
  BY <1>1, <1>3, LineStage
<1>6. HasRun(f) <=> HasRun(Top)
  BY <1>2, <1>5 DEF HasRun
<1>7. /\ armed \in BOOLEAN /\ flag' \in BOOLEAN /\ countdown \in 1 .. MaxCountdown /\ (owed => countdown = 1)
      /\ gs \in Seq(ValueSet) /\ Len(gs) =< GsSize /\ lastErr \in Texts /\ thrown \in Texts
  BY DEF Good, TypeInv, RunInv
<1>8. f.stage \notin {"landed", "unarmed"} => thrown = None
  BY <1>2, <1>5 DEF Good, PendingInv
<1>9. (f.kind = "comp" <=> Top.kind = "comp") /\ f.kind = Top.kind
  BY <1>5
<1> QED
  BY <1>1, <1>4, <1>5, <1>6, <1>7, <1>8, <1>9, StaySteps

LEMMA LineEndsStep == ASSUME Good, LineEnds PROVE Inv'
<1>1. Depth > 0 /\ Top.kind = "line" /\ Top.stage = "body"
  BY AtFacts DEF LineEnds
<1>2. /\ RunEnd /\ stack' = Stage("ended") /\ cf' = cf /\ gs' = gs /\ env' = env /\ comps' = comps
      /\ thrown' = thrown /\ lastErr' = lastErr /\ flag' = flag /\ armed' = armed /\ status' = status
  BY DEF LineEnds, errVars, signalVars
<1>3. "ended" \in Stages
  BY DEF Stages
<1>4. stack' \in Seq(FrameSet) /\ StackInv' /\ Depth' = Depth /\ Depth = 1
  BY <1>1, <1>2, <1>3, LineStage
<1>5. PICK f \in FrameSet : GoesOn(Depth, f) /\ f.kind = "line" /\ f.stage = "ended" /\ f.run = Top.run
  BY <1>1, <1>2, <1>3, LineStage
<1>6. HasRun(Top) /\ ~HasRun(f) /\ Top = stack[1] /\ Top \in FrameSet /\ nesting \in Nat
  BY <1>1, <1>4, <1>5, GoodFacts DEF HasRun, Top
<1>7. 1 =< Top.run /\ Top.run =< nesting /\ Top.run \in Nat
  BY <1>4, <1>6 DEF Good, RunInv, FrameSet
<1>8. owed => countdown = 1
  BY DEF Good, RunInv
<1>9. /\ nesting' = nesting - 1 /\ nesting' \in Nat /\ countdown' \in 1 .. MaxCountdown
      /\ owed' \in BOOLEAN /\ (owed' => countdown' = 1) /\ (nesting = 1 => ~owed')
  BY <1>2, <1>6, <1>7, <1>8, RunEndKeeps DEF Good
<1>10. TypeInv'
  BY <1>2, <1>4, <1>9 DEF Good, TypeInv
<1>11. CompInv'
  <2>1. comps =< Depth /\ Depth \in 1 .. Depth /\ comps \in Nat
    BY <1>4, GoodFacts DEF Good, CompInv
  <2>2. f.kind = "comp" <=> stack[Depth].kind = "comp"
    BY <1>1, <1>5 DEF Top
  <2> QED
    BY <1>2, <1>5, <2>1, <2>2, CompKept DEF Good
<1>12. SignalInv'
  <2>1. Depth \in 1 .. Depth /\ f.kind = stack[Depth].kind
    BY <1>1, <1>4, <1>5 DEF Top
  <2> QED
    BY <1>2, <1>4, <1>5, <2>1, SignalKept DEF Good
<1>13. PendingInv'
  <2>1. thrown = None
    BY <1>1 DEF Good, PendingInv
  <2> QED
    BY <1>2, <2>1 DEF PendingInv
<1>14. RunInv'
  <2>1. Len(stack') = 1 /\ stack'[1] = f /\ \A i : i \in 1 .. 1 => i = 1
    BY <1>4, <1>5 DEF GoesOn
  <2>2. ~ForeignCalls => nesting = 1
    BY <1>4, <1>6 DEF Good, RunInv
  <2>3. ~ForeignCalls => nesting' = 0 /\ ~owed'
    BY <2>2, <1>9
  <2> QED
    BY <1>5, <1>6, <1>9, <2>1, <2>3 DEF RunInv, Depth
<1> QED
  BY <1>2, <1>4, <1>10, <1>11, <1>12, <1>13, <1>14 DEF Inv

\* Steps of the host that leave the C stack alone.
LEMMA SameStack ==
  ASSUME Good, UNCHANGED <<stack, cf, gs, env, comps, errVars, nesting, owed>>, countdown' \in 1 .. MaxCountdown,
         owed => countdown' = 1, status' \in {"running", "abort"}, flag' \in BOOLEAN, armed' \in BOOLEAN, armed' => armed
  PROVE  Inv'
<1>1. TypeInv'
  BY DEF Good, TypeInv, errVars, Depth
<1>2. StackInv' /\ CompInv' /\ PendingInv'
  BY DEF Good, StackInv, CompInv, PendingInv, errVars, Depth, Top
<1>3. SignalInv'
  BY DEF Good, SignalInv, Depth
<1>4. RunInv'
  BY DEF Good, RunInv, Depth
<1> QED
  BY <1>1, <1>2, <1>3, <1>4 DEF Inv

LEMMA SignalStep == ASSUME Good, Signal PROVE Inv'
<1>1. /\ UNCHANGED <<stack, cf, gs, env, comps, errVars>>
      /\ nesting' = nesting /\ owed' = owed /\ countdown' = countdown
  BY DEF Signal, runVars
<1>2. flag' \in BOOLEAN /\ armed' \in BOOLEAN /\ (armed' => armed) /\ status' \in {"running", "abort"}
  BY DEF Signal, signalVars, Good, TypeInv
<1>3. countdown \in 1 .. MaxCountdown /\ (owed => countdown = 1)
  BY DEF Good, TypeInv, RunInv
<1> QED
  BY <1>1, <1>2, <1>3, SameStack

LEMMA PressureStep == ASSUME Good, Pressure PROVE Inv'
<1>1. /\ UNCHANGED <<stack, cf, gs, env, comps, errVars, nesting, owed>>
      /\ countdown' = 1 /\ flag' = flag /\ armed' = armed /\ status' = status /\ status = "running"
  BY DEF Pressure, RunPressure, signalVars, InCode
<1>2. flag' \in BOOLEAN /\ armed' \in BOOLEAN
  BY <1>1 DEF Good, TypeInv
<1>3. countdown' \in 1 .. MaxCountdown
  BY <1>1, ToplevelAssumption
<1> QED
  BY <1>1, <1>2, <1>3, SameStack

-----------------------------------------------------------------------------
(* The invariant *)

LEMMA InitInv == Init => Inv
<1> SUFFICES ASSUME Init PROVE Inv
  OBVIOUS
<1>1. /\ stack = << >> /\ cf = << >> /\ gs = << >> /\ Len(stack) = 0 /\ Len(cf) = 0 /\ Len(gs) = 0
      /\ 1 .. 0 = {} /\ Depth = 0
  BY DEF Init, Depth
<1>2. TypeInv
  <2>1. << >> \in Seq(FrameSet) /\ << >> \in Seq(CatchSet) /\ << >> \in Seq(ValueSet)
    OBVIOUS
  <2>2. 0 \in 0 .. EnvSize /\ 0 \in 0 .. MaxFrames /\ 1 \in 1 .. MaxCountdown /\ 0 =< MaxFrames /\ 0 =< GsSize
    BY ToplevelAssumption
  <2> QED
    BY <1>1, <2>1, <2>2 DEF Init, TypeInv, Texts
<1>3. Shape(stack) /\ Catchers(stack, cf) /\ GsTiled(stack, cf, gs) /\ GsSaved(stack, gs)
  BY <1>1 DEF Shape, Catchers, GsTiled, GsSaved
<1>4. EnvCounts(stack, cf, env)
  <2>1. BlocksIn(stack, 0) = 0
    BY BlocksNone
  <2> QED
    BY <1>1, <2>1 DEF EnvCounts, Init
<1>5. ErrsSaved(stack, gs, lastErr)
  BY <1>1 DEF ErrsSaved, ErrOf, Init
<1>6. StackInv
  BY <1>3, <1>4, <1>5 DEF StackInv, Consistent
<1>7. CompInv /\ SignalInv /\ PendingInv /\ RunInv
  BY <1>1 DEF Init, CompInv, SignalInv, PendingInv, RunInv
<1> QED
  BY <1>2, <1>6, <1>7 DEF Inv

LEMMA StutterInv == Inv /\ UNCHANGED vars => Inv'
<1> SUFFICES ASSUME Inv, UNCHANGED vars PROVE Inv'
  OBVIOUS
<1>1. /\ stack' = stack /\ cf' = cf /\ gs' = gs /\ env' = env /\ nesting' = nesting /\ countdown' = countdown
      /\ comps' = comps /\ thrown' = thrown /\ lastErr' = lastErr /\ flag' = flag /\ armed' = armed
      /\ status' = status /\ owed' = owed
  BY DEF vars
<1> QED
  BY <1>1 DEF Inv, TypeInv, Running, StackInv, CompInv, SignalInv, PendingInv, RunInv, Depth, Top

\* Every action asks that the process is running.
LEMMA StepInv == Inv /\ Next => Inv'
<1> SUFFICES ASSUME Inv, Next PROVE Inv'
  OBVIOUS
<1>1. CASE EnterLine
  <2>1. Good
    BY <1>1, InvIsGood DEF EnterLine
  <2> QED
    BY <1>1, <2>1, EnterLineStep
<1>2. CASE EnterEntry
  <2>1. Good
    BY <1>2, InvIsGood DEF EnterEntry
  <2> QED
    BY <1>2, <2>1, EnterEntryStep
<1>3. CASE Code
  <2>1. Good
    BY <1>3, InvIsGood DEF Code, Raise, CheckInterrupt, EnterBlock, PushValue, AddValue, PopValue, BlockReturns, EnterCatching,
         CatchingReturns, HandlingReturns, EnterComp, CompReturns, EntryReturns, LineEnds, LineClears, LineReturns,
         InCode, At
  <2>2. ASSUME NEW m \in Errors, Raise(m) PROVE Inv'
    BY <2>1, <2>2, RaiseStep
  <2>3. ASSUME NEW k \in Kinds, EnterCatching(k) PROVE Inv'
    BY <2>1, <2>3, EnterCatchingStep
  <2>4. ASSUME LineClears PROVE Inv'
    <3>1. Depth > 0 /\ Top.kind = "line" /\ Top.stage = "ended"
      BY <2>1, <2>4, AtFacts DEF LineClears
    <3>2. "cleared" \in Stages
      BY DEF Stages
    <3> QED
      BY <2>1, <2>4, <3>1, <3>2, LineClearsStep DEF LineClears
  <2> QED
    BY <1>3, <2>1, <2>2, <2>3, <2>4, CheckInterruptStep, EnterBlockStep, PushValueStep, AddValueStep, PopValueStep, BlockReturnsStep,
       CatchingReturnsStep, HandlingReturnsStep, EnterCompStep, CompReturnsStep, EntryReturnsStep,
       LineEndsStep, LineReturnsStep DEF Code
<1>4. CASE Land
  <2>1. Good
    BY <1>4, InvIsGood DEF Land, LineLandsClears, LineReports, CatchHandles, FillGivesUp, CleanupRethrows, CompRethrows, At
  <2>2. ASSUME LineLandsClears PROVE Inv'
    <3>1. Depth > 0 /\ Top.kind = "line" /\ Top.stage = "landed"
      BY <2>1, <2>2, AtFacts DEF LineLandsClears
    <3>2. "unarmed" \in Stages
      BY DEF Stages
    <3> QED
      BY <2>1, <2>2, <3>1, <3>2, LineClearsStep DEF LineLandsClears
  <2> QED
    BY <1>4, <2>1, <2>2, LineReportsStep, CatchHandlesStep, FillGivesUpStep, CleanupRethrowsStep, CompRethrowsStep DEF Land
<1>5. CASE Signal
  <2>1. Good
    BY <1>5, InvIsGood DEF Signal
  <2> QED
    BY <1>5, <2>1, SignalStep
<1>6. CASE Pressure
  <2>1. Good
    BY <1>6, InvIsGood DEF Pressure, InCode
  <2> QED
    BY <1>6, <2>1, PressureStep
<1> QED
  BY <1>1, <1>2, <1>3, <1>4, <1>5, <1>6 DEF Next

\* However BQN code calls, returns and throws, every part of the state that speaks of
\* the C stack agrees with it.
THEOREM Invariance == Spec => []Inv
<1>1. Init => Inv
  BY InitInv
<1>2. Inv /\ [Next]_vars => Inv'
  BY StepInv, StutterInv
<1> QED
  BY <1>1, <1>2, PTL DEF Spec

-----------------------------------------------------------------------------
(* What it says of the properties *)

LEMMA FramesAre == stack \in Seq(FrameSet) => Frames = 1 .. Depth
BY DEF Frames, Depth

LEMMA InvCatchers == Inv => CatchersLive
<1> SUFFICES ASSUME Inv, Running PROVE
      /\ \A j \in DOMAIN cf : cf[j].frame \in Frames /\ Waiting(cf[j].frame)
      /\ \A i \in Frames : Waiting(i) => Cardinality({j \in DOMAIN cf : cf[j].frame = i}) = 1
  BY DEF CatchersLive
<1>1. Catchers(stack, cf) /\ stack \in Seq(FrameSet) /\ cf \in Seq(CatchSet)
  BY DEF Inv, TypeInv, StackInv, Consistent
<1>2. DOMAIN cf = 1 .. Len(cf) /\ Frames = 1 .. Depth /\ Depth = Len(stack)
  BY <1>1, FramesAre DEF Depth
<1>3. \A i : Waiting(i) <=> Waits(stack[i])
  BY DEF Waiting, Waits
<1>4. ASSUME NEW j \in DOMAIN cf PROVE cf[j].frame \in Frames /\ Waiting(cf[j].frame)
  BY <1>1, <1>2, <1>3, <1>4 DEF Catchers
<1>5. ASSUME NEW i \in Frames, Waiting(i) PROVE Cardinality({j \in DOMAIN cf : cf[j].frame = i}) = 1
  <2>1. PICK j \in 1 .. Len(cf) : cf[j].frame = i
    BY <1>1, <1>2, <1>3, <1>5 DEF Catchers
  <2>2. ASSUME NEW k \in 1 .. Len(cf), cf[k].frame = i PROVE k = j
    <3>1. i \in Nat /\ ~(i < i) /\ j \in Int /\ k \in Int
      BY <1>2
    <3>2. ~(k < j) /\ ~(j < k)
      BY <1>1, <2>1, <2>2, <3>1 DEF Catchers
    <3> QED
      BY <3>1, <3>2
  <2>3. {k \in DOMAIN cf : cf[k].frame = i} = {j}
    BY <1>2, <2>1, <2>2
  <2> QED
    BY <2>3, FS_Singleton
<1> QED
  BY <1>4, <1>5

LEMMA InvStacks == Inv => StacksExact
<1> SUFFICES ASSUME Inv, Running PROVE
      /\ env = Blocks(Depth)
      /\ \A j \in DOMAIN cf : cf[j].env = Blocks(cf[j].frame - 1)
      /\ {stack[i].gs + 1 : i \in Owners({"handling"})} = {n \in DOMAIN gs : gs[n] # Value}
      /\ stack = << >> => gs = << >>
  BY DEF StacksExact
<1>1. /\ stack \in Seq(FrameSet) /\ gs \in Seq(ValueSet) /\ cf \in Seq(CatchSet)
      /\ EnvCounts(stack, cf, env) /\ GsTiled(stack, cf, gs) /\ GsSaved(stack, gs)
  BY DEF Inv, TypeInv, StackInv, Consistent
<1>2. \A n : Blocks(n) = BlocksIn(stack, n)
  BY DEF Blocks, BlocksIn
<1>3. env = Blocks(Depth) /\ \A j \in DOMAIN cf : cf[j].env = Blocks(cf[j].frame - 1)
  BY <1>1, <1>2 DEF EnvCounts, Depth
<1>4. Frames = 1 .. Len(stack) /\ DOMAIN gs = 1 .. Len(gs) /\ Len(gs) \in Nat
  BY <1>1, FramesAre DEF Depth
<1>5. \A i : i \in Owners({"handling"}) <=> i \in 1 .. Len(stack) /\ Handles(stack[i])
  BY <1>4 DEF Owners, Handles
<1>6. ASSUME NEW i \in 1 .. Len(stack), Handles(stack[i]) PROVE stack[i].gs + 1 \in 1 .. Len(gs)
  <2>1. stack[i].gs \in Nat /\ Own(stack[i]) = stack[i].gs + 1
    BY <1>1, <1>6, FrameHeights DEF Own
  <2>2. Own(stack[i]) =< Len(gs)
    BY <1>1 DEF GsTiled
  <2> QED
    BY <2>1, <2>2, <1>4
<1>7. \A n \in 1 .. Len(gs) : gs[n] # Value <=> \E i \in 1 .. Len(stack) : Handles(stack[i]) /\ stack[i].gs + 1 = n
  BY <1>1 DEF GsSaved
<1>8. {stack[i].gs + 1 : i \in Owners({"handling"})} = {n \in DOMAIN gs : gs[n] # Value}
  <2> DEFINE A == {stack[i].gs + 1 : i \in Owners({"handling"})}
             B == {n \in DOMAIN gs : gs[n] # Value}
  <2>1. ASSUME NEW n \in A PROVE n \in B
    <3>1. PICK i \in Owners({"handling"}) : n = stack[i].gs + 1
      OBVIOUS
    <3>2. i \in 1 .. Len(stack) /\ Handles(stack[i])
      BY <1>5
    <3>3. n \in 1 .. Len(gs)
      BY <3>1, <3>2, <1>6
    <3> QED
      BY <3>1, <3>2, <3>3, <1>4, <1>7
  <2>2. ASSUME NEW n \in B PROVE n \in A
    <3>1. PICK i \in 1 .. Len(stack) : Handles(stack[i]) /\ stack[i].gs + 1 = n
      BY <1>4, <1>7
    <3>2. i \in Owners({"handling"})
      BY <3>1, <1>5
    <3> QED
      BY <3>1, <3>2
  <2> QED
    BY <2>1, <2>2
<1>9. ASSUME stack = << >> PROVE gs = << >>
  <2>1. Len(gs) = 0
    BY <1>1, <1>9 DEF GsTiled
  <2> QED
    BY <2>1, <1>1
<1> QED
  BY <1>3, <1>8, <1>9

LEMMA InvCurrentError == Inv => CurrentErrorRight
<1> DEFINE H == Owners({"handling"})
<1> SUFFICES ASSUME Inv, Running PROVE lastErr = IF H = {} THEN None ELSE stack[Max(H)].err
  BY DEF CurrentErrorRight
<1>1. stack \in Seq(FrameSet) /\ ErrOf(stack, Depth, lastErr) /\ Depth \in Nat
  BY DEF Inv, TypeInv, StackInv, Consistent, ErrsSaved, Depth
<1>2. \A i : i \in H <=> i \in 1 .. Depth /\ Handles(stack[i])
  BY <1>1, FramesAre DEF Owners, Handles
<1> HIDE DEF H
<1>3. CASE lastErr = None /\ \A i \in 1 .. Depth : ~Handles(stack[i])
  BY <1>2, <1>3
<1>4. CASE \E i \in 1 .. Depth : /\ Handles(stack[i]) /\ lastErr = stack[i].err
                                 /\ \A k \in 1 .. Depth : k > i => ~Handles(stack[k])
  <2>1. PICK i \in 1 .. Depth : /\ Handles(stack[i]) /\ lastErr = stack[i].err
                                /\ \A k \in 1 .. Depth : k > i => ~Handles(stack[k])
    BY <1>4
  <2>2. i \in H /\ \A k \in H : i >= k
    BY <2>1, <1>1, <1>2
  <2>3. \A x \in H : (\A y \in H : x >= y) => x = i
    BY <2>2, <1>1, <1>2
  <2>4. Max(H) = i
    BY <2>2, <2>3 DEF Max
  <2> QED
    BY <2>1, <2>2, <2>4
<1> QED
  BY <1>1, <1>3, <1>4 DEF ErrOf

LEMMA InvGlobals == Inv => GlobalsExact
<1> SUFFICES ASSUME Inv PROVE GlobalsExact
  OBVIOUS
<1>1. TypeOK
  BY DEF Inv, TypeInv, TypeOK, FrameSet, CatchSet, ValueSet, Texts
<1>2. stack \in Seq(FrameSet) /\ Frames = 1 .. Depth /\ Depth \in Nat /\ comps \in Nat
  BY FramesAre, ToplevelAssumption DEF Inv, TypeInv, Depth
<1>3. CompsExact
  <2> SUFFICES ASSUME Running PROVE Owners({"comp"}) = IF comps = 0 THEN {} ELSE {comps}
    BY DEF CompsExact
  <2>1. comps =< Depth /\ \A i \in 1 .. Depth : stack[i].kind = "comp" <=> comps = i
    BY DEF Inv, CompInv
  <2>2. \A i : i \in Owners({"comp"}) <=> i \in 1 .. Depth /\ comps = i
    BY <1>2, <2>1 DEF Owners
  <2>3. CASE comps = 0
    <3>1. \A i : i \notin Owners({"comp"})
      BY <2>2, <2>3, <1>2
    <3> QED
      BY <3>1, <2>3
  <2>4. CASE comps # 0
    <3>1. comps \in 1 .. Depth
      BY <2>1, <2>4, <1>2
    <3>2. \A i : i \in Owners({"comp"}) <=> i = comps
      BY <2>2, <3>1
    <3> QED
      BY <3>2, <2>4
  <2> QED
    BY <2>3, <2>4
<1>4. ArmedOnlyInLine
  <2> SUFFICES ASSUME Running, armed PROVE \E i \in Frames : stack[i].kind = "line"
    BY DEF ArmedOnlyInLine
  <2>1. Depth > 0 /\ stack[1].kind = "line"
    BY DEF Inv, SignalInv
  <2> QED
    BY <2>1, <1>2
<1>5. NoErrorPending
  <2>1. stack = << >> => Depth = 0
    BY DEF Depth
  <2> QED
    BY <2>1 DEF NoErrorPending, Inv, PendingInv
<1> QED
  BY <1>1, <1>3, <1>4, <1>5, InvStacks, InvCurrentError DEF GlobalsExact

LEMMA InvRuns == ASSUME ~ForeignCalls PROVE Inv => RunsExact
<1> SUFFICES ASSUME Inv PROVE RunsExact
  OBVIOUS
<1>1. stack \in Seq(FrameSet) /\ Frames = 1 .. Depth /\ Depth \in Nat /\ nesting \in Nat
  BY FramesAre DEF Inv, TypeInv, Depth
<1>2. RunNestingExact
  <2> DEFINE R == {i \in Owners({"line", "entry"}) : stack[i].stage \notin {"ended", "cleared"}}
  <2> SUFFICES ASSUME Running PROVE nesting = Cardinality(R)
    BY DEF RunNestingExact
  <2>1. \A i : i \in R <=> i \in 1 .. Depth /\ HasRun(stack[i])
    BY <1>1 DEF Owners, HasRun
  <2>2. \A i \in 1 .. Depth : HasRun(stack[i]) => i = 1
    BY DEF HasRun, Inv, RunInv, StackInv, Consistent, Shape, Depth
  <2>3. nesting = IF Depth > 0 /\ HasRun(stack[1]) THEN 1 ELSE 0
    BY DEF Inv, RunInv
  <2>4. CASE Depth > 0 /\ HasRun(stack[1])
    <3>1. 1 \in 1 .. Depth
      BY <2>4, <1>1
    <3>2. R = {1}
      BY <2>1, <2>2, <2>4, <3>1
    <3> HIDE DEF R
    <3> QED
      BY <2>3, <2>4, <3>2, FS_Singleton
  <2>5. CASE ~(Depth > 0 /\ HasRun(stack[1]))
    <3>1. \A i \in 1 .. Depth : ~HasRun(stack[i])
      BY <2>2, <2>5, <1>1
    <3>2. R = {}
      BY <2>1, <3>1
    <3> HIDE DEF R
    <3> QED
      BY <2>3, <2>5, <3>2, FS_EmptySet
  <2> QED
    BY <2>4, <2>5
<1>3. NothingOwed
  <2> SUFFICES ASSUME Running, stack = << >> PROVE ~owed
    BY DEF NothingOwed
  <2>1. ~(Depth > 0)
    BY DEF Depth
  <2>2. nesting = 0
    BY <2>1 DEF Inv, RunInv
  <2> QED
    BY <2>2 DEF Inv, RunInv
<1> QED
  BY <1>2, <1>3 DEF RunsExact

\* longjmp never resumes a function that has returned or has caught already, and skips
\* no catcher: popCatch, prepareCatch and throwImpl keep one CatchFrame for each
\* function that waits.
THEOREM CatchersStayLive == Spec => []CatchersLive
<1> QED
  BY Invariance, InvCatchers, PTL

\* The heights of the environment stack and of gStack, the messages gStack holds for
\* handlers, comps_curr, the SIGINT handler, thrownMsg and lastErrMsg agree with the
\* frames of the C stack after any mixture of calls, returns, throws and interrupts.
THEOREM GlobalsStayExact == Spec => []GlobalsExact
<1> QED
  BY Invariance, InvGlobals, PTL

\* If foreign functions do not call back, run_nesting tells the outermost run, and when
\* it is over nothing is left to repair of what errors did to reference counts.
THEOREM RunsStayExact == ASSUME ~ForeignCalls PROVE Spec => []RunsExact
<1>1. Inv => RunsExact
  BY InvRuns
<1> QED
  BY <1>1, Invariance, PTL

=============================================================================
