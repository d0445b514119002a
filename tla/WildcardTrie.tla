----------------------------- MODULE WildcardTrie -----------------------------
(***************************************************************************)
(* The trie of include/common/spsp/wildcard_trie.hpp that holds every      *)
(* subscription database: the bridge's, the client's and the local         *)
(* broker's.                                                               *)
(*                                                                         *)
(* A key is the sequence of its levels, what splitToLevels() makes of the  *)
(* string: never empty, and the string "" is <<Empty>>. A node of the trie *)
(* is named by the levels on the way to it, the root by <<>>.              *)
(***************************************************************************)
EXTENDS Integers, Sequences, FiniteSets, SequencesExt

CONSTANTS
  Key,       \* the keys that are inserted and removed
  Topic,     \* the topics that are looked up: no wildcards in them
  Value, Default,
  Empty,     \* the level ""
  Single,    \* the level "+"
  Multi      \* the level "#"

\* The levels there are.
Level == UNION {Range(k) : k \in Key \cup Topic}

ASSUME KeyAssumption == \A k \in Key \cup Topic : k \in Seq(Level) /\ Len(k) > 0
ASSUME TopicAssumption == \A k \in Topic : Range(k) \cap {Single, Multi} = {}
ASSUME DefaultAssumption == Default \in Value

VARIABLES
  nodes,    \* the nodes, the root included
  leaf,     \* Node::isLeaf: the nodes that are items
  value,    \* Node::value of every node
  removed   \* what the last remove() returned

vars == <<nodes, leaf, value, removed>>

Root == <<>>
Take(k, n) == SubSeq(k, 1, n)
Children(n) == {c \in nodes : Len(c) = Len(n) + 1 /\ IsPrefix(n, c)}

\* A tree of nodes whose items are among them.
TypeOK ==
  /\ Root \in nodes
  /\ \A n \in nodes \ {Root} : Front(n) \in nodes
  /\ leaf \in SUBSET nodes
  /\ value \in [nodes -> Value]
  /\ removed \in BOOLEAN

Init ==
  /\ nodes = {Root}
  /\ leaf = {}
  /\ value = [n \in {Root} |-> Default]
  /\ removed = FALSE
------------------------------------------------------------------------------
(* operator[] creates the nodes on the way and makes the last one an item. *)
(* A node that was there keeps the value it has, be it of a removed item.  *)

Reach(k) ==
  /\ nodes' = nodes \cup {Take(k, n) : n \in 1..Len(k)}
  /\ leaf' = leaf \cup {k}
  /\ UNCHANGED removed

ValueAt(n) == IF n \in nodes THEN value[n] ELSE Default

Access(k) ==
  /\ Reach(k)
  /\ value' = [n \in nodes' |-> ValueAt(n)]

Insert(k, v) ==
  /\ Reach(k)
  /\ value' = [n \in nodes' |-> IF n = k THEN v ELSE ValueAt(n)]

\* Mutant: the subtree is cut below the root whatever else hangs there.
CutLevel_Root(k) == 0

\* The deepest proper ancestor that removal must leave in place.
CutLevel(k) ==
  Max({n \in 0..Len(k) - 1 :
         \/ n = 0
         \/ Take(k, n) \in leaf
         \/ Cardinality(Children(Take(k, n))) > 1})

\* An item is dropped, and the nodes erased with everything below them.
Drop(k, erased) ==
  /\ removed' = TRUE
  /\ nodes' = nodes \ erased
  /\ leaf' = (leaf \ {k}) \ erased
  /\ value' = [n \in nodes' |-> value[n]]

Below(n) == {x \in nodes : IsPrefix(n, x)}

\* Mutant: the redundant ancestors stay.
RemoveNode_Itself(k) == Drop(k, IF Children(k) = {} THEN {k} ELSE {})

\* Mutant: the ancestor that must stay is erased as well.
RemoveNode_OneTooHigh(k) ==
  Drop(k, IF Children(k) = {} THEN Below(Take(k, CutLevel(k))) ELSE {})

\* An item without children takes its now redundant ancestors with it.
RemoveNode(k) ==
  Drop(k, IF Children(k) = {} THEN Below(Take(k, CutLevel(k) + 1)) ELSE {})

RemoveKey(k) ==
  IF k \in leaf
    THEN RemoveNode(k)
    ELSE removed' = FALSE /\ UNCHANGED <<nodes, leaf, value>>

Next == \E k \in Key : Access(k) \/ RemoveKey(k) \/ \E v \in Value : Insert(k, v)

Spec == Init /\ [][Next]_vars
------------------------------------------------------------------------------
(* The queries. *)

\* The key find() and forEach() report for a node. They put it together on the
\* way down, and a key that is "" so far counts as no key at all.
ReportedKey(n) ==
  LET key[d \in 0..Len(n)] ==
        IF d = 0 THEN <<Empty>>
        ELSE IF key[d - 1] = <<Empty>> THEN <<n[d]>> ELSE Append(key[d - 1], n[d])
  IN  key[Len(n)]

\* Mutant: a level with its own child does not fall back on "+".
Step_LiteralFirst(n, level) ==
  IF Append(n, level) \in nodes THEN {Append(n, level)}
  ELSE {Append(n, Single)} \cap nodes

\* The children of n that find() descends to for a level.
Step(n, level) == {Append(n, level), Append(n, Single)} \cap nodes

\* The nodes find() visits at each depth: breadth first, from the root.
Visited(k) ==
  LET at[d \in 0..Len(k)] ==
        IF d = 0 THEN {Root} ELSE UNION {Step(n, k[d]) : n \in at[d - 1]}
  IN  at

Found(k) ==
  LET visited == Visited(k)
      exact == visited[Len(k)]
      multi == {Append(n, Multi) : n \in UNION {visited[d] : d \in 0..Len(k) - 1}}
  IN  (exact \cup multi) \cap leaf

Find(k) == {ReportedKey(n) : n \in Found(k)}

ForEach == [n \in leaf |-> ReportedKey(n)]
------------------------------------------------------------------------------
(* Properties. *)

\* "+" stands for one level, a final "#" for one level or more.
Matches(filter, k) ==
  LET n == Len(filter)
      same(i) == filter[i] \in {k[i], Single}
  IN  IF filter[n] = Multi
        THEN Len(k) >= n /\ \A i \in 1..n - 1 : same(i)
        ELSE Len(k) = n /\ \A i \in 1..n : same(i)

\* find() returns exactly the items whose key matches, each under the key it was
\* inserted with, and forEach() reports each item under that key, too, whatever
\* was inserted and removed before.
FindIsMatching ==
  /\ \A k \in Topic : Find(k) = {f \in leaf : Matches(f, k)}
  /\ \A n \in leaf : ForEach[n] = n

\* remove() leaves no node behind that is neither an item nor on the way to one:
\* empty() holds as soon as the last item is gone.
NoRedundantNodes == \A n \in nodes \ {Root} : n \in leaf \/ Children(n) # {}

\* As a container the trie is a map: removing a key touches no other item, and
\* reports whether the key was there.
Store == INSTANCE KeyValueStore WITH store <- [n \in leaf |-> value[n]]

ImplementsStore == Store!Spec
==============================================================================
