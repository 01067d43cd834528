----------------------------- MODULE OrderedMap -----------------------------
(***************************************************************************)
(* What •HashMap promises: a map from keys to values whose Keys and Values *)
(* come in the order in which the keys were added.  `assoc` is the map as  *)
(* a sequence of pairs, `answer` what the last call returned.              *)
(***************************************************************************)
EXTENDS Naturals, Sequences, SequencesExt

CONSTANTS Keys, Vals, Missing

VARIABLES assoc, answer
avars == <<assoc, answer>>

Has(k) == \E n \in DOMAIN assoc : assoc[n].key = k
Place(k) == CHOOSE n \in DOMAIN assoc : assoc[n].key = k
Distinct(s) == \A m, n \in DOMAIN s : m # n => s[m].key # s[n].key

AGet(k) == /\ answer' = <<"value", IF Has(k) THEN assoc[Place(k)].val ELSE Missing>>
           /\ UNCHANGED assoc
AHas(k) == answer' = <<"has", Has(k)>> /\ UNCHANGED assoc
ACount  == answer' = <<"count", Len(assoc)>> /\ UNCHANGED assoc
AKeys   == answer' = <<"keys", [n \in DOMAIN assoc |-> assoc[n].key]>> /\ UNCHANGED assoc
AValues == answer' = <<"vals", [n \in DOMAIN assoc |-> assoc[n].val]>> /\ UNCHANGED assoc

ASet(k, v) ==
  /\ assoc' = IF Has(k) THEN [assoc EXCEPT ![Place(k)].val = v]
                        ELSE Append(assoc, [key |-> k, val |-> v])
  /\ answer' = <<"done">>

ADelete(k) ==
  /\ assoc' = IF Has(k) THEN RemoveAt(assoc, Place(k)) ELSE assoc
  /\ answer' = IF Has(k) THEN <<"done">> ELSE <<"value", Missing>>

\* A map is made from a list of distinct keys and a list of values.
AInit == assoc \in Seq([key : Keys, val : Vals]) /\ Distinct(assoc) /\ answer = <<"done">>
ANext ==
  \/ ACount \/ AKeys \/ AValues
  \/ \E k \in Keys : AGet(k) \/ AHas(k) \/ ADelete(k)
  \/ \E k \in Keys, v \in Vals : ASet(k, v)
ASpec == AInit /\ [][ANext]_avars
=============================================================================
