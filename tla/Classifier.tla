----------------------------- MODULE Classifier -----------------------------
(***************************************************************************)
(* The datapath classifier of one port of a PMD thread (dpif-netdev.c).    *)
(* Rules with the same mask are in one subtable; the subtables are in a    *)
(* map, and in a vector that a lookup goes through.  Rules are inserted    *)
(* and removed under the thread's flow_mutex, by any thread.  The lookup   *)
(* takes no lock: it goes through the vector that was published when it    *)
(* began, and sees the rules of each subtable as they are when it comes    *)
(* there.                                                                  *)
(*                                                                         *)
(* The pvector and the concurrent map are libraries of OvS: a change to    *)
(* the vector is seen by readers once it is published, as a whole.  Memory *)
(* is freed when neither thread can have kept a pointer to it.             *)
(***************************************************************************)
EXTENDS Naturals, SequencesExt, FiniteSets

CONSTANTS
  Keys,         \* what packets have in their headers
  Rules,
  Masks,
  mask_of,      \* the mask of a rule
  matching,     \* the rules that match a key
  Subtables,    \* bound: the memory subtables are allocated from
  None

ClassifierAssumption ==
  /\ mask_of \in [Rules -> Masks] /\ matching \in [Keys -> SUBSET Rules]
  /\ None \notin Rules \cup Masks \cup Subtables

VARIABLES
  cls,            \* the port has a classifier in pmd->classifiers
  mask, rules,    \* of each subtable; a freed one has no mask
  subtables_map,
  subtables,      \* the published vector
  updating,       \* what the holder of flow_mutex has still to do
  lookup,         \* dpcls_lookup, or NoLookup
  seen            \* observed: what each key would have found since it began

update == <<cls, mask, rules, subtables_map, subtables, updating>>
vars == <<update, lookup, seen>>

Idle == [op |-> "none"]
NoLookup == [keys |-> {}, keys_map |-> {}, vector |-> <<>>, todo |-> {},
             found |-> [k \in Keys |-> None]]

Init ==
  /\ cls = FALSE
  /\ mask = [s \in Subtables |-> None] /\ rules = [s \in Subtables |-> {}]
  /\ subtables_map = {} /\ subtables = <<>> /\ updating = Idle
  /\ lookup = NoLookup /\ seen = [k \in Keys |-> {}]

Present == UNION {rules[s] : s \in subtables_map}

(* What a key finds in the classifier as it is.                            *)
Answers(present, k) ==
  IF present \cap matching[k] = {} THEN {None} ELSE present \cap matching[k]

Observe(present) ==
  seen' = [k \in Keys |->
    IF k \in lookup.keys THEN seen[k] \cup Answers(present, k) ELSE {}]

-----------------------------------------------------------------------------
(* Updates, under flow_mutex.                                              *)

(* dp_netdev_pmd_find_dpcls makes the port's classifier at its first rule. *)
dp_netdev_pmd_find_dpcls ==
  /\ updating = Idle /\ ~cls /\ cls' = TRUE
  /\ UNCHANGED <<mask, rules, subtables_map, subtables, updating, lookup, seen>>

(* dpcls_find_subtable.  Rules do not overlap: the upcall sees to it.      *)
dpcls_insert(r) ==
  /\ updating = Idle /\ cls
  /\ \A k \in Keys : r \in matching[k] => Present \cap matching[k] = {}
  /\ updating' = [op |-> "insert", rule |-> r]
  /\ \/ /\ \E s \in subtables_map : mask[s] = mask_of[r]
        /\ UNCHANGED <<mask, subtables_map, subtables>>
     \/ /\ \A s \in subtables_map : mask[s] # mask_of[r]
        /\ \E s \in Subtables :
             /\ mask[s] = None
             /\ mask' = [mask EXCEPT ![s] = mask_of[r]]
             /\ subtables_map' = subtables_map \cup {s}
             /\ subtables' = Append(subtables, s)
  /\ UNCHANGED <<cls, rules, lookup, seen>>

dpcls_insert_rule ==
  /\ updating.op = "insert"
  /\ \E s \in subtables_map :
       /\ mask[s] = mask_of[updating.rule]
       /\ rules' = [rules EXCEPT ![s] = @ \cup {updating.rule}]
  /\ updating' = Idle
  /\ Observe(Present \cup {updating.rule})
  /\ UNCHANGED <<cls, mask, subtables_map, subtables, lookup>>

dpcls_remove(r) ==
  /\ updating = Idle
  /\ \E s \in subtables_map :
       /\ r \in rules[s]
       /\ rules' = [rules EXCEPT ![s] = @ \ {r}]
       /\ updating' = IF rules[s] = {r} THEN [op |-> "destroy", subtable |-> s] ELSE Idle
  /\ Observe(Present \ {r})
  /\ UNCHANGED <<cls, mask, subtables_map, subtables, lookup>>

(* Without the subtable, the vector is published.                          *)
dpcls_destroy_subtable ==
  /\ updating.op = "destroy"
  /\ subtables_map' = subtables_map \ {updating.subtable}
  /\ \E i \in DOMAIN subtables :
       /\ subtables[i] = updating.subtable
       /\ subtables' = RemoveAt(subtables, i)
  /\ updating' = Idle
  /\ UNCHANGED <<cls, mask, rules, lookup, seen>>

(* dpcls_subtable_destroy_cb, after a grace period.                        *)
dpcls_subtable_destroy_cb ==
  /\ updating = Idle /\ lookup = NoLookup
  /\ \E s \in Subtables \ subtables_map :
       mask[s] # None /\ mask' = [mask EXCEPT ![s] = None]
  /\ UNCHANGED <<cls, rules, subtables_map, subtables, updating, lookup, seen>>

(* The PMD thread sorts the vector by the hits of the last interval.       *)
dpcls_sort_subtable_vector ==
  /\ updating = Idle /\ lookup = NoLookup
  /\ subtables' \in {v \in [DOMAIN subtables -> ToSet(subtables)] :
                       ToSet(v) = ToSet(subtables)}
  /\ UNCHANGED <<cls, mask, rules, subtables_map, updating, lookup, seen>>

-----------------------------------------------------------------------------
(* dpcls_lookup, by the PMD thread.                                        *)

dpcls_lookup(keys) ==
  /\ lookup = NoLookup /\ keys # {}
  /\ lookup' = [NoLookup EXCEPT
       !.keys = keys, !.keys_map = keys, !.todo = keys,
       !.vector = IF cls THEN subtables ELSE <<>>]
  /\ seen' = [k \in Keys |-> IF k \in keys THEN Answers(Present, k) ELSE {}]
  /\ UNCHANGED update

Searching == lookup.vector # <<>> /\ lookup.keys_map # {}

(* The subtable's lookup_func, for one of the keys that are left.          *)
lookup_func ==
  /\ Searching
  /\ \E k \in lookup.todo :
       LET hit == rules[Head(lookup.vector)] \cap matching[k] IN
       \E r \in (IF hit = {} THEN {None} ELSE hit) :
         lookup' = [lookup EXCEPT !.todo = @ \ {k}, !.found[k] = r]
  /\ UNCHANGED <<update, seen>>

next_subtableAll ==     \* mutant: keys that have matched are not taken out
  /\ Searching /\ lookup.todo = {}
  /\ lookup' = [lookup EXCEPT !.todo = lookup.keys_map, !.vector = Tail(@)]
  /\ UNCHANGED <<update, seen>>
next_subtable ==
  /\ Searching /\ lookup.todo = {}
  /\ LET left == {k \in lookup.keys_map : lookup.found[k] = None} IN
     lookup' = [lookup EXCEPT !.keys_map = left, !.todo = left, !.vector = Tail(@)]
  /\ UNCHANGED <<update, seen>>

LookupReturns ==
  /\ lookup # NoLookup /\ ~Searching
  /\ lookup' = NoLookup /\ seen' = [k \in Keys |-> {}]
  /\ UNCHANGED update

-----------------------------------------------------------------------------
Next ==
  \/ dp_netdev_pmd_find_dpcls
  \/ \E r \in Rules : dpcls_insert(r) \/ dpcls_remove(r)
  \/ dpcls_insert_rule \/ dpcls_destroy_subtable \/ dpcls_subtable_destroy_cb
  \/ dpcls_sort_subtable_vector
  \/ \E keys \in SUBSET Keys : dpcls_lookup(keys)
  \/ lookup_func \/ next_subtable \/ LookupReturns

Spec == Init /\ [][Next]_vars

-----------------------------------------------------------------------------
(* A lookup is as good as one that takes the lock: what it returns for a   *)
(* key was the right answer at some time since it began.  A rule that is   *)
(* there all the time is found, one that is not there at any is not; also  *)
(* when subtables come, go and change places.                              *)
LookupIsAtomic ==
  lookup # NoLookup /\ ~Searching =>
    \A k \in lookup.keys : lookup.found[k] \in seen[k]

=============================================================================
