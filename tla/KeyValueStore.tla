---------------------------- MODULE KeyValueStore ----------------------------
(***************************************************************************)
(* What a trie promises as a container: a map from keys to values.         *)
(***************************************************************************)
CONSTANTS Key, Value

VARIABLES
  store,     \* the items: a function from the keys in use to their values
  removed    \* what the last remove() returned

vars == <<store, removed>>

Init == store = <<>> /\ removed = FALSE

With(k, v) == [x \in DOMAIN store \cup {k} |-> IF x = k THEN v ELSE store[x]]

Put(k, v) == store' = With(k, v) /\ UNCHANGED removed

\* The value of a key that is not there yet is not promised.
Access(k) ==
  /\ IF k \in DOMAIN store THEN UNCHANGED store ELSE \E v \in Value : store' = With(k, v)
  /\ UNCHANGED removed

Remove(k) ==
  /\ removed' = (k \in DOMAIN store)
  /\ store' = [x \in DOMAIN store \ {k} |-> store[x]]

Next == \E k \in Key : Access(k) \/ Remove(k) \/ \E v \in Value : Put(k, v)

Spec == Init /\ [][Next]_vars
==============================================================================
