------------------------------- MODULE HashMap -------------------------------
(***************************************************************************)
(* •HashMap: a list of keys, a list of values, and an open-addressing      *)
(* table of indices into them, kept sorted by hash                         *)
(* (builtins/search.c:610-771, its namespace in builtins/sysfn.c:721-767). *)
(*                                                                         *)
(* Hashes have HashBits bits (64 in the code, of which the table keeps the *)
(* upper 32), `level` is 64-sh: the number of leading bits that give an    *)
(* entry its home.  Pad is the 32 entries past the last home.  The hash of *)
(* a key depends on a secret drawn at startup: `hash` is any function of   *)
(* HashFunctions.                                                          *)
(***************************************************************************)
EXTENDS Integers, FiniteSets, SequencesExt

CONSTANTS
  Keys, Vals,
  Missing,        \* the answer to a request for a key that is not there
  None,           \* bi_N, in place of a deleted key and its value
  HashBits,
  HashFunctions,
  FirstLevel,     \* level of the smallest table: 6 in the code
  LastLevel,      \* 32 in the code: a larger table is an error
  Pad,
  Slack,          \* the deleted keys that are always tolerated: 32
  MaxGiven,       \* bound: length of the lists a map is made from
  MaxList         \* bound: length of the list of keys, deleted ones included

ASSUME SizesAssumption ==
  /\ FirstLevel \in Nat \ {0} /\ HashBits \in Nat /\ LastLevel \in FirstLevel .. HashBits
  /\ Pad \in Nat \ {0} /\ Slack \in Nat
ASSUME BoundsAssumption == MaxList \in Nat /\ MaxGiven \in 0 .. MaxList
ASSUME NoneAssumption == None \notin Keys \cup Vals

Pow2[n \in Nat] == IF n = 0 THEN 1 ELSE 2 * Pow2[n - 1]

ASSUME HashAssumption == HashFunctions \subseteq [Keys -> 0 .. Pow2[HashBits] - 1]

VARIABLES
  hash,           \* bqn_hash with the secret of this process
  tab,            \* the HashMap object and both lists
  shared,         \* lists that the program holds too: not to be written to
  spoiled,        \* a list was written to while the program held it
  res             \* what the last call returned
mapVars == <<hash, tab, shared, spoiled, res>>

Empty == [h |-> Pow2[HashBits], i |-> 0]       \* greater than every entry
Entries == [h : 0 .. Pow2[HashBits] - 1, i : 1 .. MaxList] \cup {Empty}

Home(h, level) == h \div Pow2[HashBits - level]
Size(level) == Pow2[level] + Pad
NewTable(level) == [p \in 0 .. Size(level) - 1 |-> Empty]

\* Where there is no table: "hash size maximum exceeded" was thrown, or the
\* allocation of a larger one failed.
NoTable == [level |-> 0, a |-> <<>>]

(***************************************************************************)
(* The table.                                                              *)
(***************************************************************************)

\* mutant: an entry may be copied to a place before its home
NextPacked(a, n, level) ==
  LET next[p \in 0 .. n] == IF p = 0 THEN 0
                            ELSE IF a[p - 1] = Empty THEN next[p - 1] ELSE next[p - 1] + 1
  IN next

\* hashmap_resize's loop over the n places of a: the entries are copied in
\* order, each to its new home or, if that is behind the last one copied, to
\* the next place.  next[p] is the place after the last of the first p.
NextFree(a, n, level) ==
  LET next[p \in 0 .. n] == IF p = 0 THEN 0
                            ELSE IF a[p - 1] = Empty THEN next[p - 1]
                            ELSE Max({next[p - 1], Home(a[p - 1].h, level)}) + 1
  IN next
Copied(a, n, level) ==
  LET next == NextFree(a, n, level)
      at(q) == {p \in 0 .. n - 1 : a[p] # Empty /\ next[p + 1] = q + 1}
  IN [q \in 0 .. Size(level) - 1 |->
        IF at(q) = {} THEN Empty ELSE a[CHOOSE p \in at(q) : TRUE]]

\* The table doubles, and again if its last place has been taken.
Resize(a, old) ==
  LET fits == {level \in old + 1 .. LastLevel :
                 Copied(a, Size(old), level)[Size(level) - 1] = Empty}
  IN IF fits = {} THEN NoTable
     ELSE [level |-> Min(fits), a |-> Copied(a, Size(old), Min(fits))]

\* HASHMAP_FIND.  The first place at or after the home of hash h whose entry
\* is not below h.
Start(t, h) ==
  Min({p \in Home(h, t.level) .. Size(t.level) - 1 : t.a[p].h >= h})

\* The place after the last entry with hash h.
Stop(t, h) == Min({p \in Start(t, h) .. Size(t.level) - 1 : t.a[p].h # h})

\* The places with this hash whose key is k.
Matches(t, k) ==
  {p \in Start(t, hash[k]) .. Stop(t, hash[k]) - 1 : t.keys[t.a[p].i] = k}

\* HASHMAP_INSERT after a search without result: the entries from there to
\* the next empty place, `end`, move by one.
Insert(t, h, i) ==
  LET j   == Stop(t, h)
      end == Min({p \in j .. Size(t.level) - 1 : t.a[p] = Empty})
  IN [end |-> end,
      a |-> [p \in DOMAIN t.a |->
               IF p = j THEN [h |-> h, i |-> i]
               ELSE IF p \in j + 1 .. end THEN t.a[p - 1] ELSE t.a[p]]]

\* mutant: the place of a deleted key is just emptied
TakeOutOnly(t, j) == [t.a EXCEPT ![j] = Empty]

\* hashmap_delete's loop: later entries move back by one, up to one that is
\* at its home or an empty place.
TakeOut(t, j) ==
  LET stays(p) == \/ t.a[p] = Empty
                  \/ Home(t.a[p].h, t.level) = p
      end == Min({p \in j + 1 .. Size(t.level) - 1 : stays(p)})
  IN [p \in DOMAIN t.a |->
        IF p \in j .. end - 2 THEN t.a[p + 1]
        ELSE IF p = end - 1 THEN Empty ELSE t.a[p]]

\* The places of the keys that are there; the place of the m-th.
LiveIn(t) == {i \in DOMAIN t.keys : t.keys[i] # None}
RankIn(live, i) == Cardinality({j \in live : j <= i})
NthIn(live, m) == CHOOSE i \in live : RankIn(live, i) = m
Kept(live, s) == [m \in 1 .. Cardinality(live) |-> s[NthIn(live, m)]]

\* mutant: a deleted key's value stays in the list of values
CompactKeys(t) == [t EXCEPT !.keys = Kept(LiveIn(t), @)]

\* hashmap_compact: deleted keys leave the lists, and indices follow.
Renumbered(a, live) ==
  [p \in DOMAIN a |-> IF a[p] = Empty THEN Empty ELSE [a[p] EXCEPT !.i = RankIn(live, @)]]
Compact(t) ==
  LET live == LiveIn(t)
  IN [t EXCEPT !.keys = Kept(live, @), !.vals = Kept(live, @),
               !.a = IF live = {} THEN @ ELSE Renumbered(@, live)]

\* hashmap_build, which refuses a repeated key.
BuildLevel(n) ==
  Max({FirstLevel} \cup {l \in 2 .. LastLevel : Pow2[l - 2] <= n})
BuildStep(t, i) ==
  LET new == Insert(t, hash[t.keys[i]], i)
      grown == IF new.end = Size(t.level) - 1 THEN Resize(new.a, t.level)
               ELSE [level |-> t.level, a |-> new.a]
  IN IF t.level = 0 THEN t ELSE [t EXCEPT !.a = grown.a, !.level = grown.level]
Build(ks, vs) ==
  LET start == [level |-> BuildLevel(Len(ks)), a |-> NewTable(BuildLevel(Len(ks))),
                pop |-> Len(ks), keys |-> ks, vals |-> vs]
      made[n \in 0 .. Len(ks)] == IF n = 0 THEN start ELSE BuildStep(made[n - 1], n)
  IN made[Len(ks)]

\* hashmap_set: the value of a key that is there is replaced; another key is
\* put in the table, which grows when it is full or its last place is taken,
\* and then at the end of the lists.
Full(pop, level) == (8 * pop) \div Pow2[level] > 7
Enter(t, k) ==
  LET new == Insert(t, hash[k], Len(t.keys) + 1)
      grows == Full(t.pop + 1, t.level) \/ new.end = Size(t.level) - 1
      table == IF grows THEN Resize(new.a, t.level) ELSE [level |-> t.level, a |-> new.a]
  IN [t |-> [t EXCEPT !.level = table.level, !.a = table.a, !.pop = @ + 1],
      grows |-> grows]
Replace(t, k, v) == [t EXCEPT !.vals[t.a[Min(Matches(t, k))].i] = v]

\* hashmap_delete of a key that is there.
ManyDeleted(t) == t.pop = 0 \/ t.pop + Slack < Len(t.keys) \div 2
Delete(t, k) ==
  LET j == Min(Matches(t, k))
      i == t.a[j].i
      less == [t EXCEPT !.a = TakeOut(t, j), !.pop = @ - 1,
                        !.keys[i] = None, !.vals[i] = None]
  IN IF ManyDeleted(less) THEN Compact(less) ELSE less

\* hashmap_lookup.
Lookup(t, k, default) ==
  IF Matches(t, k) = {} THEN default ELSE t.vals[t.a[Min(Matches(t, k))].i]

NewMap == [level |-> FirstLevel, a |-> NewTable(FirstLevel), pop |-> 0,
           keys |-> <<>>, vals |-> <<>>]

(***************************************************************************)
(* The namespace's functions, called one after the other.                  *)
(***************************************************************************)

Done == <<"done">>

\* hashMap_c2
MapInit ==
  /\ hash \in HashFunctions
  /\ \E n \in 0 .. MaxGiven :
       \E ks \in {s \in [1 .. n -> Keys] : IsInjective(s)}, vs \in [1 .. n -> Vals] :
         tab = Build(ks, vs) /\ tab.level # 0
  /\ shared = {} /\ spoiled = FALSE /\ res = Done

\* mutant: lists are written to without a copy
WritesInPlace(lists, copied) ==
  /\ UNCHANGED shared
  /\ spoiled' = (spoiled \/ lists \cap shared # {})

\* Lists that a function writes to are copied first if they are shared: then
\* the program keeps the old list and the map has the new one.
Writes(lists, copied) ==
  /\ shared' = shared \ copied
  /\ spoiled' = (spoiled \/ lists \cap (shared \ copied) # {})

Get(k) == /\ res' = <<"value", Lookup(tab, k, Missing)>>
          /\ UNCHANGED <<hash, tab, shared, spoiled>>
HasKey(k) == /\ res' = <<"has", Lookup(tab, k, None) # None>>
             /\ UNCHANGED <<hash, tab, shared, spoiled>>
Count == res' = <<"count", tab.pop>> /\ UNCHANGED <<hash, tab, shared, spoiled>>

SetOld(k, v) ==
  /\ Matches(tab, k) # {}
  /\ tab' = Replace(tab, k, v) /\ res' = Done
  /\ Writes({"vals"}, {"vals"})
  /\ UNCHANGED hash

SetNew(k, v) ==
  /\ Matches(tab, k) = {} /\ Len(tab.keys) < MaxList
  /\ \E e \in {Enter(tab, k)} :
       /\ e.t.level # 0
       /\ tab' = [e.t EXCEPT !.keys = Append(@, k), !.vals = Append(@, v)]
  /\ res' = Done
  /\ Writes({"keys", "vals"}, {"keys", "vals"})
  /\ UNCHANGED hash

\* Adding a key throws: a larger table cannot be allocated, or would exceed the
\* largest size, and vars[2] is bi_N; or a list cannot be extended, and the key
\* is already in the table.
SetFails(k, v) ==
  /\ Matches(tab, k) = {} /\ Len(tab.keys) < MaxList
  /\ \E e \in {Enter(tab, k)} :
       \/ e.grows /\ tab' = [tab EXCEPT !.level = 0, !.a = <<>>]
       \/ e.t.level # 0 /\ tab' \in {e.t, [e.t EXCEPT !.keys = Append(@, k)]}
  /\ res' = <<"error">>
  /\ UNCHANGED <<hash, shared, spoiled>>

DeleteKey(k) ==
  /\ IF Matches(tab, k) = {}
     THEN res' = <<"value", Missing>> /\ UNCHANGED <<tab, shared, spoiled>>
     ELSE /\ tab' = Delete(tab, k) /\ res' = Done
          /\ Writes({"keys", "vals"}, {"keys", "vals"})
  /\ UNCHANGED hash

\* hashmap_keys_or_vals: a list without deleted keys is given out as it is;
\* otherwise both lists are compacted in place, after copying them if need be.
ListOf(which) ==
  /\ IF tab.pop = Len(tab[which])
     THEN UNCHANGED <<tab, spoiled>> /\ shared' = shared \cup {which}
     ELSE /\ tab' = Compact(tab)
          /\ spoiled' = spoiled
          /\ shared' = {which}
  /\ res' = <<which, tab'[which]>>
  /\ UNCHANGED hash

\* The program lets go of a list it was given.
Release(which) == /\ which \in shared /\ shared' = shared \ {which}
                  /\ UNCHANGED <<hash, tab, spoiled, res>>

MapNext ==
  \/ Count
  \/ \E which \in {"keys", "vals"} : ListOf(which) \/ Release(which)
  \/ \E k \in Keys : Get(k) \/ HasKey(k) \/ DeleteKey(k)
  \/ \E k \in Keys, v \in Vals : SetOld(k, v) \/ SetNew(k, v)

MapSpec == MapInit /\ [][MapNext]_mapVars

\* The same where memory may run out in a call of Set.  Without a table the
\* functions would follow a pointer that is none.
MapNextOOM == tab.level # 0 /\ (MapNext \/ \E k \in Keys, v \in Vals : SetFails(k, v))
MapSpecOOM == MapInit /\ [][MapNextOOM]_mapVars
-----------------------------------------------------------------------------
\* The entries of the table, by place.
UsedIn(t) == {p \in DOMAIN t.a : t.a[p] # Empty}

\* The lists have the same length, the table's places are those of its level.
MapOK(t) ==
  /\ t.level \in FirstLevel .. LastLevel
  /\ t.a \in [0 .. Size(t.level) - 1 -> Entries]
  /\ t.keys \in Seq(Keys \cup {None}) /\ t.vals \in Seq(Vals \cup {None})
  /\ Len(t.keys) = Len(t.vals) /\ t.pop \in 0 .. Len(t.keys)

\* What searching relies on: entries are in order of their hashes, none is
\* before its home, no place between an entry and its home is empty, and the
\* last place always is (a search stops there).  Resizing, the moves of an
\* insertion and those of a deletion all have to keep this.
InOrder(t) ==
  /\ t.a[Size(t.level) - 1] = Empty
  /\ \A p \in UsedIn(t) :
       /\ Home(t.a[p].h, t.level) <= p
       /\ \A q \in Home(t.a[p].h, t.level) .. p : q \in UsedIn(t)
       /\ \A q \in UsedIn(t) : q < p => t.a[q].h <= t.a[p].h

\* Each key that is there has one entry, with its own hash, after any number
\* of deletions and renumberings of the lists.
IndicesRight(t) ==
  /\ {t.a[p].i : p \in UsedIn(t)} = LiveIn(t)
  /\ \A p, q \in UsedIn(t) : t.a[p].i = t.a[q].i => p = q
  /\ \A p \in UsedIn(t) : t.a[p].h = hash[t.keys[t.a[p].i]]

\* The table and the lists belong together.
MapTypeOK == /\ hash \in HashFunctions /\ MapOK(tab)
             /\ shared \subseteq {"keys", "vals"} /\ spoiled \in BOOLEAN
TableSound == MapTypeOK /\ InOrder(tab) /\ IndicesRight(tab)

\* hashmap_compact asserts that pop is the number of keys that are there
\* (builtins/search.c:667), hashmap_set inserts before it can still fail.
PopExact == tab.pop = Cardinality(LiveIn(tab))

\* A list that the program was given never changes under it, although the
\* map goes on writing to and compacting its lists.
ListsKept == ~spoiled

\* The map answers as an ordered map would.
assoc == [m \in 1 .. Cardinality(LiveIn(tab)) |->
            [key |-> Kept(LiveIn(tab), tab.keys)[m], val |-> Kept(LiveIn(tab), tab.vals)[m]]]
Ordered == INSTANCE OrderedMap WITH answer <- res
AnswersRight == Ordered!ASpec
=============================================================================
