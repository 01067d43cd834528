------------------------------- MODULE Blocks -------------------------------
(***************************************************************************)
(* The bytecode interpreter of CBQN (vm/vm.c, vm/vm.h, core/ns.c): scopes, *)
(* blocks called as functions, variables and their assignment, namespaces, *)
(* headers that fail, and the references each instruction owns.            *)
(*                                                                         *)
(* A program is not fixed: the next instruction of the running body is any *)
(* one whose operands are on the stack, as compileBlock checks before a    *)
(* body can run.  Numbers stand for every value without references.        *)
(* Variables of the session's scope are those of a ScopeExt.  Modifier     *)
(* blocks differ from functions in the number of given variables only.     *)
(***************************************************************************)
EXTENDS Integers, Sequences, FiniteSets, SequencesExt

CONSTANTS
  NObj,      \* bound on the objects in use
  MaxStack,  \* bound on the height of gStack
  MaxFrames, \* bound on the environments
  MaxRefs,   \* bound on the references to objects but the session
  MaxLines,  \* bound on the lines of a session
  NBodies,   \* bodies of a block
  Exported   \* positions of the variables that a namespace exports

ASSUME BlocksAssumption == {NObj, MaxStack, MaxFrames, MaxRefs, MaxLines, NBodies} \subseteq Nat \ {0}

VARIABLES
  heap,   \* the objects
  stack,  \* gStack
  frames, \* from envStart to envCurr, with what the C caller still holds
  result, \* what the last evalBC returned, on its way to the caller
  lost,   \* history: references forgotten by throws
  lines   \* lines that the session has started

vars == <<heap, stack, frames, result, lost, lines>>

Obj == 1 .. NObj
Session == 1  \* the scope of the session, which a root holds
Null == 0

Num == <<"num">>
Nothing == <<"nothing">>  \* bi_N
NoVar == <<"noVar">>      \* bi_noVar
OptOut == <<"optOut">>    \* bi_optOut, as v_get leaves it
Moved == <<"moved">>      \* bi_optOut, as VARU leaves it
Unreadable == {NoVar, OptOut, Moved}  \* v_checkBadRead
Ref(o) == <<"ref", o>>
Var(d, p) == <<"var", d, p>>  \* a variable as a target, of VARM and EXTM

Free == [kind |-> "free", refc |-> 0, sc |-> Null, vars |-> << >>]
GivenVars == 3 \* blockGivenVars: the function itself, the arguments
Local == GivenVars + 1

IsRef(v) == v[1] = "ref"
IsTarget(v) == v[1] \in {"var", "vars", "nothing"}
KindOf(h, v) == IF IsRef(v) THEN h[v[2]].kind ELSE v[1]

\* the objects that values refer to, one entry for each reference
RefsIn(s) == LET r == SelectSeq(s, IsRef) IN [i \in DOMAIN r |-> r[i][2]]

\* what an object owns, in the order in which it is released
Held(r) == (IF r.sc = Null THEN << >> ELSE <<r.sc>>) \o RefsIn(r.vars)

Inc(h, o) == IF o = Null THEN h ELSE [h EXCEPT ![o].refc = @ + 1]
IncV(h, v) == IF IsRef(v) THEN Inc(h, v[2]) ELSE h
IncAll(h, s) == FoldLeft(IncV, h, s)

RECURSIVE DecOne(_, _)
Release(h, o) == [FoldLeft(DecOne, h, Held(h[o])) EXCEPT ![o] = Free]
DecOne(h, o) ==
  IF h[o].refc = 1 THEN Release([h EXCEPT ![o].refc = 0], o) ELSE [h EXCEPT ![o].refc = @ - 1]
DecV(h, v) == IF IsRef(v) THEN DecOne(h, v[2]) ELSE h
DecAll(h, s) == FoldLeft(DecV, h, s)

\* mutant: blocks that others hold too
SharedBlocks(h, s) ==
  {i \in DOMAIN h[s].vars : LET v == h[s].vars[i] IN
     IsRef(v) /\ h[v[2]].kind = "fun" /\ h[v[2]].sc = s}

\* the blocks of a scope that only the scope's own variables hold
OwnBlocks(h, s) ==
  {i \in DOMAIN h[s].vars : LET v == h[s].vars[i] IN
     IsRef(v) /\ h[v[2]].refc = 1 /\ h[v[2]].kind = "fun" /\ h[v[2]].sc = s}

\* mutant: scope_dec is the ptr_dec of any object
PlainDec(h, s) == DecOne(h, s)

\* the reference an environment holds goes: a scope that nothing holds but
\* blocks in its own variables is freed with them
scope_dec(h, s) ==
  IF h[s].refc = 1 \/ Cardinality(OwnBlocks(h, s)) + 1 = h[s].refc
  THEN Release(h, s) ELSE [h EXCEPT ![s].refc = @ - 1]

\* mm_alloc gives the first free object
FreeIds == {o \in Obj : heap[o].kind = "free" /\ \A u \in 1 .. o - 1 : heap[u].kind # "free"}
Mk(kind, sc, vs) == [kind |-> kind, refc |-> 1, sc |-> sc, vars |-> vs]

Init ==
  /\ heap = [o \in Obj |-> IF o = Session THEN Mk("scope", Null, <<NoVar>>) ELSE Free]
  /\ stack = << >> /\ frames = << >> /\ result = << >>
  /\ lost = [o \in Obj |-> 0]
  /\ lines = 0

-----------------------------------------------------------------------------
(* Environments and the stack *)

Cur == Last(frames)
Running == frames # << >> /\ result = << >>
Height == Len(stack) - Cur.base
Top(i) == stack[Len(stack) + 1 - i]   \* PEEK(i)
Dropped(n) == SubSeq(stack, 1, Len(stack) - n)
\* a target is on the stack for the instruction that sets it only
Plain == Running /\ (Height > 0 => ~IsTarget(Top(1)))
Operands(n) ==
  /\ Running /\ Height >= n
  /\ \A i \in 1 .. n : ~IsTarget(Top(i))

\* pscs[d]
RECURSIVE Enclosing(_, _)
Enclosing(s, d) == IF d = 0 \/ s = Null THEN s ELSE Enclosing(heap[s].sc, d - 1)

\* the variables that instructions of the running body may name
Names == {<<d, p>> \in (0 .. 1) \X {1, Local} :
            LET s == Enclosing(Cur.sc, d) IN s # Null /\ p \in DOMAIN heap[s].vars}
\* the variable that a body defines
Own(h, s) == Len(h[s].vars)
Slot(t) == <<Enclosing(Cur.sc, t[2]), t[3]>>

Env(s, base, cont, body) == [sc |-> s, base |-> base, cont |-> cont, body |-> body]

\* execBlock: the arguments move into the variables of a new scope
execBlock(h, id, psc, given, st, cont) ==
  /\ Len(frames) < MaxFrames
  /\ heap' = Inc([h EXCEPT ![id] = Mk("scope", psc, Append(given, NoVar))], psc)
  /\ stack' = st
  /\ frames' = Append(frames, Env(id, Len(st), cont, 1))
  /\ result' = << >>
  /\ UNCHANGED <<lost, lines>>

\* an error that nothing in the program catches: gStack is released, the
\* environments are dropped, and C code forgets what it held
Erred == \E o \in Obj : lost[o] > 0  \* an error forgets a scope at least
CHeld(f) == <<Ref(f.sc)>> \o (IF f.cont[1] \in {"call", "set"} THEN <<f.cont[2]>> ELSE << >>)
Targets(t) == IF t[1] = "vars" THEN {t[2], t[3]} ELSE IF t[1] = "var" THEN {t} ELSE {}
throwImpl(h, st, forgotten) ==
  LET f == RefsIn(forgotten \o FlattenSeq([i \in DOMAIN frames |-> CHeld(frames[i])]))
  IN /\ ~Erred
     /\ heap' = DecAll(h, Reverse(st))
     /\ stack' = << >> /\ frames' = << >> /\ result' = << >>
     /\ lost' = [o \in Obj |-> lost[o] + Cardinality({i \in DOMAIN f : f[i] = o})]
     /\ UNCHANGED lines

\* the next instruction sees the heap h and the stack st
Continue(h, st) ==
  /\ Len(st) <= MaxStack
  /\ heap' = h /\ stack' = st /\ result' = << >>
  /\ UNCHANGED <<frames, lost, lines>>

\* a line of the session: execBlockInplace in its scope
RunLine ==
  /\ frames = << >> /\ result = << >>
  /\ lines < MaxLines /\ lines' = lines + 1
  /\ heap' = Inc(heap, Session)
  /\ frames' = <<Env(Session, 0, <<"line">>, 1)>>
  /\ UNCHANGED <<stack, result, lost>>

-----------------------------------------------------------------------------
(* Variables *)

\* v_setI, and v_setF for a variable of a ScopeExt, which releases the old
\* value of a definition too; x is already counted
v_setI(h, slot, x, upd) ==
  LET prev == h[slot[1]].vars[slot[2]]
      h1 == [h EXCEPT ![slot[1]].vars[slot[2]] = x]
  IN IF upd \/ slot[1] = Session THEN DecV(h1, prev) ELSE h1

\* an update needs a defined variable; that a definition names a new one,
\* or one of the session, is the compiler's business
Writable(h, t, upd) == upd => h[Slot(t)[1]].vars[Slot(t)[2]] # NoVar
Definable(t) == Slot(t)[1] = Session \/ heap[Slot(t)[1]].vars[Slot(t)[2]] = NoVar
Defines(s) ==
  CASE s[1] = "var" -> Definable(s)
    [] s[1] = "vars" -> s[2] # s[3] /\ Definable(s[2]) /\ Definable(s[3])
    [] OTHER -> TRUE

\* the field of a namespace that is named like the variable of a target
HasField(h, x, p) == p \in Exported /\ p = Own(h, h[x[2]].sc)
\* unlike a read of the variable, it does not look whether the variable is available
ns_getU(h, x, p) == h[h[x[2]].sc].vars[p]

\* v_set of one variable; counted says that the caller has counted x already.
\* A value counted before the check fails is forgotten
v_setOne(r, t, x, upd, counted) ==
  IF Writable(r.h, t, upd)
  THEN [r EXCEPT !.h = v_setI(IncV(r.h, x), Slot(t), x, upd)]
  ELSE IF counted \/ Slot(t)[1] # Session
  THEN [h |-> IncV(r.h, x), ok |-> FALSE, leak |-> <<x>>]
  ELSE [r EXCEPT !.ok = FALSE]

\* mutant: of a list of names only the first is set
v_setFirst(h, s, x, upd) ==
  LET start == [h |-> h, ok |-> TRUE, leak |-> << >>]
  IN IF s = Nothing THEN start
     ELSE v_setOne(start, IF s[1] = "var" THEN s ELSE s[2], x, upd, FALSE)

\* v_set: the heap after it, whether every name was set (the names before a
\* bad one are), and the references it forgot
v_set(h, s, x, upd) ==
  LET start == [h |-> h, ok |-> TRUE, leak |-> << >>]
      Step(r, i) ==
        CASE ~r.ok -> r
          [] KindOf(h, x) = "list" -> v_setOne(r, s[i + 1], r.h[x[2]].vars[i], upd, TRUE)
          [] KindOf(h, x) = "ns" /\ HasField(r.h, x, s[i + 1][3]) ->
               v_setOne(r, s[i + 1], ns_getU(r.h, x, s[i + 1][3]), upd, FALSE)
          [] OTHER -> [r EXCEPT !.ok = FALSE]
  IN CASE s = Nothing -> start
       [] s[1] = "var" -> v_setOne(start, s, x, upd, FALSE)
       [] OTHER -> FoldLeft(Step, start, <<1, 2>>)

\* v_get: values leave their variables, which are unavailable until set again
v_getOne(r, t) ==
  LET v == r.h[Slot(t)[1]].vars[Slot(t)[2]]
  IN IF ~r.ok \/ v \in Unreadable THEN [r EXCEPT !.ok = FALSE]
     ELSE [h |-> [r.h EXCEPT ![Slot(t)[1]].vars[Slot(t)[2]] = OptOut],
           got |-> Append(r.got, v), ok |-> TRUE]
v_get(h, s) == FoldLeft(v_getOne, [h |-> h, got |-> << >>, ok |-> TRUE], IF s[1] = "var" THEN <<s>> ELSE Tail(s))

VARO ==
  /\ Plain
  /\ \E n \in Names : LET v == heap[Enclosing(Cur.sc, n[1])].vars[n[2]]
       IN IF v \in Unreadable THEN throwImpl(heap, stack, << >>)
          ELSE Continue(IncV(heap, v), Append(stack, v))
VARU ==
  /\ Plain /\ Len(stack) < MaxStack
  /\ \E n \in Names : LET s == Enclosing(Cur.sc, n[1]) IN
       /\ s # Session /\ n[2] \notin Exported
       /\ heap[s].vars[n[2]] \notin Unreadable
       /\ stack' = Append(stack, heap[s].vars[n[2]])
       /\ heap' = [heap EXCEPT ![s].vars[n[2]] = Moved]
       /\ UNCHANGED <<frames, result, lost, lines>>
VARM ==
  /\ Running
  /\ \E n \in Names :
       /\ n[2] = Own(heap, Enclosing(Cur.sc, n[1]))
       /\ Continue(heap, Append(stack, Var(n[1], n[2])))
NOTM == Plain /\ Continue(heap, Append(stack, Nothing))
\* LSTM of two names
LSTM ==
  /\ Running /\ Height >= 2
  /\ Top(1)[1] = "var" /\ Top(2)[1] = "var"
  /\ Continue(heap, Append(Dropped(2), <<"vars", Top(2), Top(1)>>))

Assign(upd) ==
  /\ Running /\ Height >= 2 /\ IsTarget(Top(1)) /\ ~IsTarget(Top(2))
  /\ ~upd => Defines(Top(1))
  /\ LET x == Top(2)
         r == v_set(heap, Top(1), x, upd)
     IN IF r.ok THEN Continue(r.h, Append(Dropped(2), x))
        ELSE throwImpl(r.h, Dropped(2), <<x>> \o r.leak)
SETN == Assign(FALSE)
SETU == Assign(TRUE)

-----------------------------------------------------------------------------
(* Values, calls and results *)

ADDU == Plain /\ Continue(heap, Append(stack, Num))
POPS == Operands(1) /\ Continue(DecV(heap, Top(1)), Dropped(1))
\* LSTO of two values
LSTO ==
  /\ Operands(2)
  /\ \E id \in FreeIds :
       Continue([heap EXCEPT ![id] = Mk("list", Null, <<Top(2), Top(1)>>)], Append(Dropped(2), Ref(id)))

\* DFND0: a function, or the value of an immediate block
evalFunBlock ==
  /\ Plain
  /\ \E id \in FreeIds :
       \/ Continue(Inc([heap EXCEPT ![id] = Mk("fun", Cur.sc, << >>)], Cur.sc), Append(stack, Ref(id)))
       \/ execBlock(heap, id, Cur.sc, << >>, stack, <<"imm">>)

\* what becomes of a result r: FN1C, FN2C and the end of SETM and SETC
Deliver(h, st, cont, r) ==
  CASE cont[1] = "imm" -> Continue(h, Append(st, r))
    [] cont[1] = "call" -> Continue(DecV(h, cont[2]), Append(st, r))
    [] OTHER ->
         LET q == v_set(DecV(h, cont[2]), cont[3], r, TRUE)
         IN IF q.ok THEN Continue(q.h, Append(st, r)) ELSE throwImpl(q.h, st, <<r>> \o q.leak)

\* c1 and c2 of f: a block runs in a new scope; a built-in gives back 𝕩, or a
\* number, or an error
Call(h, st, f, x, w, cont) ==
  IF KindOf(h, f) = "fun"
  THEN \E id \in FreeIds : execBlock(IncV(h, f), id, h[f[2]].sc, <<f, x, w>>, st, cont)
  ELSE \/ Deliver(DecV(h, w), st, cont, x)
       \/ Deliver(DecV(DecV(h, w), x), st, cont, Num)
       \/ throwImpl(h, st, <<f, x, w>>)
FN1C == Operands(2) /\ Call(heap, Dropped(2), Top(1), Top(2), Nothing, <<"call", Top(1)>>)
FN2C == Operands(3) /\ Call(heap, Dropped(3), Top(2), Top(3), Top(1), <<"call", Top(2)>>)

\* w F↩ x and F↩: the old value of the names leaves them before the call
Modify(n) ==
  /\ Running /\ Height >= n /\ Top(1)[1] \in {"var", "vars"}
  /\ \A i \in 2 .. n : ~IsTarget(Top(i))
  /\ LET s == Top(1)
         f == Top(2)
         x == IF n = 3 THEN Top(3) ELSE Nothing
         g == v_get(heap, s)
         Apply(h, v) == IF n = 3 THEN Call(h, Dropped(n), f, x, v, <<"set", f, s>>)
                        ELSE Call(h, Dropped(n), f, v, Nothing, <<"set", f, s>>)
     IN CASE ~g.ok -> throwImpl(g.h, Dropped(n), <<f, x>> \o g.got)
          [] s[1] = "var" -> Apply(g.h, g.got[1])
          [] OTHER -> \E id \in FreeIds : Apply([g.h EXCEPT ![id] = Mk("list", Null, g.got)], Ref(id))
SETC == Modify(2)
SETM == Modify(3)

\* m_ns, and reading a field
FLDG ==
  /\ Operands(1)
  /\ \E p \in Exported :
       IF KindOf(heap, Top(1)) = "ns" /\ HasField(heap, Top(1), p)
       THEN LET v == ns_getU(heap, Top(1), p)
            IN Continue(DecV(IncV(heap, v), Top(1)), Append(Dropped(1), v))
       ELSE throwImpl(heap, Dropped(1), <<Top(1)>>)

\* the end of evalBC: popEnv and scope_dec
Leave(h, st, r) ==
  /\ heap' = scope_dec(h, Cur.sc)
  /\ stack' = st /\ frames' = Front(frames)
  /\ result' = <<Cur.cont, r>>
  /\ UNCHANGED <<lost, lines>>
RETN == Operands(1) /\ Height = 1 /\ Leave(heap, Dropped(1), Top(1))
\* the names that a namespace exports are defined in its body
RETD ==
  /\ Running /\ Height = 0
  /\ LET p == Own(heap, Cur.sc) IN p \in Exported => heap[Cur.sc].vars[p] # NoVar
  /\ \E id \in FreeIds :
       Leave(Inc([heap EXCEPT ![id] = Mk("ns", Cur.sc, << >>)], Cur.sc), stack, Ref(id))

\* the caller goes on: the session drops what a line gave
Resume ==
  /\ result # << >>
  /\ LET cont == result[1]
         r == result[2]
     IN IF cont[1] = "line" THEN Continue(DecV(heap, r), stack) ELSE Deliver(heap, stack, cont, r)

-----------------------------------------------------------------------------
(* Headers *)

\* v_seth: a new scope's names are set until a part is missing
v_seth(h, s, x) == v_set(h, s, x, FALSE)

\* the next body gets a scope of its own with the same given variables
gotoNextBody(h, st) ==
  IF Cur.body = NBodies THEN throwImpl(h, st, << >>)
  ELSE \E id \in FreeIds :
    LET given == Front(h[Cur.sc].vars)
        psc == h[Cur.sc].sc
        h1 == Inc([IncAll(h, given) EXCEPT ![id] = Mk("scope", psc, Append(given, NoVar))], psc)
    IN /\ heap' = scope_dec(h1, Cur.sc)
       /\ stack' = st
       /\ frames' = Append(Front(frames), [Cur EXCEPT !.sc = id, !.body = @ + 1])
       /\ UNCHANGED <<result, lost, lines>>

\* A header is the first thing in its body, and a body with a predicate works
\* on copies of the given variables (compileBlock: remapArgs).
HasHeader ==
  /\ Running /\ heap[Cur.sc].sc # Null
  /\ Moved \notin {heap[Cur.sc].vars[i] : i \in 1 .. Own(heap, Cur.sc) - 1}
SETH ==
  /\ HasHeader /\ Height = 2 /\ IsTarget(Top(1)) /\ ~IsTarget(Top(2)) /\ Defines(Top(1))
  /\ LET r == v_seth(heap, Top(1), Top(2))
         h == DecV(r.h, Top(2))
     IN IF r.ok THEN Continue(h, Dropped(2)) ELSE gotoNextBody(h, Dropped(2))
PRED ==
  /\ HasHeader /\ Height = 1 /\ Top(1) = Num
  /\ Continue(heap, Dropped(1)) \/ gotoNextBody(heap, Dropped(1))
FAIL == HasHeader /\ Height = 0 /\ throwImpl(heap, stack, << >>)

Instruction ==
  \/ VARO \/ VARU \/ VARM \/ NOTM \/ LSTM
  \/ SETN \/ SETU \/ SETC \/ SETM
  \/ ADDU \/ POPS \/ LSTO \/ evalFunBlock \/ FN1C \/ FN2C \/ FLDG
  \/ SETH \/ PRED \/ FAIL \/ RETN \/ RETD

Total(f) == LET Sum[o \in 0 .. NObj] == IF o = 0 THEN 0 ELSE Sum[o - 1] + f[o] IN Sum[NObj]

Next ==
  /\ RunLine \/ Instruction \/ Resume
  /\ Total([o \in Obj |-> IF o = Session THEN 0 ELSE heap'[o].refc]) <= MaxRefs

Spec == Init /\ [][Next]_vars

-----------------------------------------------------------------------------
(* Properties *)

Count(s, o) == Cardinality({i \in DOMAIN s : s[i] = o})

\* the references of the program that are not in an object
CRefs ==
  RefsIn(stack \o FlattenSeq([i \in DOMAIN frames |-> CHeld(frames[i])])
         \o (IF result = << >> THEN << >>
             ELSE <<result[2]>> \o (IF result[1][1] \in {"call", "set"} THEN <<result[1][2]>> ELSE << >>)))
RefsTo(o) ==
  Count(CRefs, o) + (IF o = Session THEN 1 ELSE 0)
  + Total([p \in Obj |-> Count(Held(heap[p]), o)])

\* The count of every object is the number of references to it that exist or
\* that an error made C code forget, so that nothing in use is freed and only
\* errors and cycles leave garbage (vm.c evalBC, scope_decF, v_set, v_get).
CountsExact ==
  \A o \in Obj : heap[o].refc = RefsTo(o) + lost[o]

\* the variables that calls in progress will set: the targets are in the scope
\* of the environment below
SetBy(cont, env) ==
  IF cont[1] # "set" THEN {}
  ELSE {<<Enclosing(env.sc, t[2]), t[3]>> : t \in Targets(cont[3])}
BeingSet ==
  (IF result = << >> \/ frames = << >> THEN {} ELSE SetBy(result[1], Cur))
  \cup UNION {SetBy(frames[i].cont, frames[i - 1]) : i \in 2 .. Len(frames)}

\* Until there is an error, F↩ leaves a variable unavailable only while a call
\* runs that will set it, whatever calls and assignments that call makes.
OutOnlyWhileModified ==
  \A o \in Obj : \A i \in DOMAIN heap[o].vars :
    heap[o].vars[i] = OptOut /\ ~Erred => <<o, i>> \in BeingSet

Edges(h) == [o \in Obj |-> ToSet(Held(h[o]))]
\* the objects that references lead to from S, those in S included
Reachable(e, S) == FoldLeft(LAMBDA r, i : r \cup UNION {e[o] : o \in r}, S, [i \in Obj |-> i])
Roots == {Session} \cup ToSet(CRefs)

\* every reference but those of a scope to blocks of its own in its variables
InnerCut(h, s) ==
  [Edges(h) EXCEPT ![s] = @ \ {f \in @ : h[f].kind = "fun" /\ h[f].sc = s /\ Ref(f) \in ToSet(h[s].vars)}]

\* the body of the running environment ends, or gives way to the next one
BodyEnds ==
  /\ frames # << >> /\ ~Erred'
  /\ \/ Len(frames') < Len(frames)
     \/ Len(frames') = Len(frames) /\ Last(frames').sc # Last(frames).sc

\* When a body ends without an error, everything that nothing can reach any more
\* is freed at once, with all that it alone held, or hangs from a loop of
\* references other than those between the body's scope and the functions in its
\* variables: local functions, even recursive ones, do not need the collector
\* (vm.c:686 scope_decF, and the releases of what the scope held).
OnlyLoopsStay ==
  [][BodyEnds =>
       LET e == Edges(heap')
           cut == InnerCut(heap', Last(frames).sc)
           left == {o \in Obj : heap'[o].kind # "free"} \ Reachable(e, Roots')
           knots == {k \in left : k \in Reachable(cut, cut[k])}
       IN left \subseteq Reachable(e, knots)]_vars

=============================================================================
