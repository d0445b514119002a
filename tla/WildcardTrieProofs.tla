-------------------------- MODULE WildcardTrieProofs --------------------------
(***************************************************************************)
(* Proofs about WildcardTrie for any keys, values and default: its nodes   *)
(* always form a tree without redundant ones, as a container it is a map   *)
(* from keys to values, and a lookup finds exactly what matches.           *)
(***************************************************************************)
EXTENDS WildcardTrie, SequenceTheorems, FiniteSetTheorems, WellFoundedInduction, TLAPS

USE KeyAssumption, DefaultAssumption

-------------------------------------------------------------------------------
(* Numbers and sets. *)

\* Among natural numbers there is a least one.
LEMMA LeastNumber ==
  ASSUME NEW S \in SUBSET Nat, S # {}
  PROVE  \E m \in S : \A j \in S : m <= j
<1>1. PICK m \in S : \A j \in S : <<j, m>> \notin OpToRel(<, Nat)
  BY WFMin, NatLessThanWellFounded
<1>2. ASSUME NEW j \in S PROVE ~ (j < m)
  BY <1>1, Zenon DEF OpToRel
<1> QED
  BY <1>2

\* Among bounded ones there is a greatest one.
LEMMA GreatestNumber ==
  ASSUME NEW N \in Nat, NEW S \in SUBSET (0..N), S # {}
  PROVE  Max(S) \in S /\ \A j \in S : Max(S) >= j
<1> DEFINE T == {N - x : x \in S}
<1>1. PICK m \in T : \A j \in T : m <= j
  <2>1. \A j \in T : j \in Nat
    OBVIOUS
  <2>2. T # {}
    OBVIOUS
  <2> HIDE DEF T
  <2> QED
    BY <2>1, <2>2, LeastNumber
<1>2. PICK x \in S : m = N - x
  OBVIOUS
<1>3. ASSUME NEW j \in S PROVE x >= j
  <2>1. m <= N - j
    BY <1>1
  <2> QED
    BY <1>2, <2>1
<1> QED
  BY <1>3, Zenon DEF Max

\* At most one element: any two are the same.
LEMMA AtMostOne ==
  ASSUME NEW S, IsFiniteSet(S), ~ (Cardinality(S) > 1), NEW x \in S, NEW y \in S
  PROVE  x = y
<1>1. Cardinality(S) \in Nat
  BY FS_CardinalityType
<1>2. Cardinality(S) # 0
  BY FS_EmptySet
<1>3. Cardinality(S) = 1
  BY <1>1, <1>2
<1>4. \E z : S = {z}
  BY <1>3, FS_Singleton
<1> QED
  BY <1>4

\* More than one element: there is another one.
LEMMA MoreThanOne ==
  ASSUME NEW S, IsFiniteSet(S), Cardinality(S) > 1, NEW x \in S
  PROVE  \E y \in S : y # x
<1> SUFFICES ASSUME S = {x} PROVE FALSE
  OBVIOUS
<1>1. Cardinality({x}) = 1
  BY FS_Singleton
<1> QED
  BY <1>1

-------------------------------------------------------------------------------
(* Prefixes of keys. *)

\* The first n levels.
LEMMA TakeFacts ==
  ASSUME NEW s \in Seq(Level), NEW n \in 0..Len(s)
  PROVE  /\ Take(s, n) \in Seq(Level)
         /\ Len(Take(s, n)) = n
         /\ \A i \in 1..n : Take(s, n)[i] = s[i]
<1>1. Len(s) \in Nat /\ \A i \in 1..n : s[i] \in Level
  BY ElementOfSeq, LenProperties
<1> QED
  BY <1>1, SubSeqProperties DEF Take

\* All levels, and none.
LEMMA TakeEnds ==
  ASSUME NEW s \in Seq(Level)
  PROVE  Take(s, Len(s)) = s /\ Take(s, 0) = Root
BY SubSeqFull, SubSeqEmpty DEF Take, Root

\* The first levels of the first levels.
LEMMA TakeOfTake ==
  ASSUME NEW s \in Seq(Level), NEW n \in 0..Len(s), NEW m \in 0..n
  PROVE  Take(Take(s, n), m) = Take(s, m)
<1>1. Len(s) \in Nat
  BY LenProperties
<1>2. Take(s, n) \in Seq(Level) /\ Len(Take(s, n)) = n /\ \A i \in 1..n : Take(s, n)[i] = s[i]
  BY TakeFacts
<1>3. /\ Take(Take(s, n), m) \in Seq(Level) /\ Len(Take(Take(s, n), m)) = m
      /\ \A i \in 1..m : Take(Take(s, n), m)[i] = Take(s, n)[i]
  BY <1>2, TakeFacts
<1>4. m \in 0..Len(s)
  BY <1>1
<1>5. /\ Take(s, m) \in Seq(Level) /\ Len(Take(s, m)) = m
      /\ \A i \in 1..m : Take(s, m)[i] = s[i]
  BY <1>4, TakeFacts
<1>6. ASSUME NEW i \in 1..m PROVE Take(Take(s, n), m)[i] = Take(s, m)[i]
  BY <1>1, <1>2, <1>3, <1>5
<1> QED
  BY <1>3, <1>5, <1>6, SeqEqual

\* A prefix is what is left of the first levels.
LEMMA PrefixIsTake ==
  ASSUME NEW s \in Seq(Level), NEW t \in Seq(Level)
  PROVE  IsPrefix(s, t) <=> Len(s) <= Len(t) /\ s = Take(t, Len(s))
BY TakeEnds DEF IsPrefix, Take

-------------------------------------------------------------------------------
(* The inductive invariant: a finite tree of sequences of levels.          *)

NodesInv ==
  /\ nodes \in SUBSET Seq(Level)
  /\ IsFiniteSet(nodes)
  /\ Root \in nodes
  /\ \A n \in nodes : \A i \in 0..Len(n) : Take(n, i) \in nodes

\* Items are nodes below the root.
ItemsInv ==
  /\ leaf \in SUBSET nodes
  /\ Root \notin leaf
  /\ value \in [nodes -> Value]
  /\ removed \in BOOLEAN

IInv == NodesInv /\ ItemsInv /\ NoRedundantNodes

\* It contains the type invariant.
LEMMA InvImpliesTypeOK == IInv => TypeOK
<1> SUFFICES ASSUME IInv, NEW n \in nodes \ {Root} PROVE Front(n) \in nodes
  BY Zenon DEF IInv, NodesInv, ItemsInv, TypeOK
<1>1. n \in Seq(Level) /\ n # << >>
  BY DEF IInv, NodesInv, Root
<1>2. Len(n) \in Nat \ {0}
  BY <1>1, EmptySeq
<1>3. Len(n) - 1 \in 0..Len(n)
  BY <1>2
<1>4. Take(n, Len(n) - 1) \in nodes
  BY <1>3 DEF IInv, NodesInv
<1> QED
  BY <1>4 DEF Front, Take

\* The children of a node are the nodes with one level more.
LEMMA ChildFacts ==
  ASSUME NodesInv, NEW n \in nodes
  PROVE  /\ Children(n) = {x \in nodes : Len(x) = Len(n) + 1 /\ n = Take(x, Len(n))}
         /\ IsFiniteSet(Children(n))
<1>1. n \in Seq(Level) /\ Len(n) \in Nat
  BY LenProperties DEF NodesInv
<1>2. ASSUME NEW x \in nodes, Len(x) = Len(n) + 1
      PROVE  IsPrefix(n, x) <=> n = Take(x, Len(n))
  <2>1. x \in Seq(Level)
    BY DEF NodesInv
  <2>2. Len(n) <= Len(x)
    BY <1>1, <1>2
  <2> QED
    BY <1>1, <2>1, <2>2, PrefixIsTake
<1>3. Children(n) = {x \in nodes : Len(x) = Len(n) + 1 /\ n = Take(x, Len(n))}
  BY <1>2 DEF Children
<1>4. Children(n) \in SUBSET nodes
  BY DEF Children
<1> QED
  BY <1>3, <1>4, FS_Subset DEF NodesInv

\* Each node on the way to another is a child of the one before.
LEMMA PathFacts ==
  ASSUME NodesInv, NEW x \in nodes, NEW m \in 0..Len(x) - 1
  PROVE  Take(x, m) \in nodes /\ Take(x, m + 1) \in Children(Take(x, m))
<1>1. x \in Seq(Level) /\ Len(x) \in Nat
  BY LenProperties DEF NodesInv
<1>2. m \in 0..Len(x) /\ m + 1 \in 0..Len(x) /\ m \in 0..m + 1
  BY <1>1
<1>3. Take(x, m) \in nodes /\ Take(x, m + 1) \in nodes
  BY <1>2 DEF NodesInv
<1>4. Len(Take(x, m)) = m /\ Len(Take(x, m + 1)) = m + 1
  BY <1>1, <1>2, TakeFacts
<1>5. Take(Take(x, m + 1), m) = Take(x, m)
  BY <1>1, <1>2, TakeOfTake
<1> QED
  BY <1>3, <1>4, <1>5, ChildFacts

\* The same of the next state.
LEMMA PathFactsNext ==
  (NodesInv => \A x \in nodes : \A m \in 0..Len(x) - 1 :
                 Take(x, m + 1) \in Children(Take(x, m)))'
<1>1. NodesInv => \A x \in nodes : \A m \in 0..Len(x) - 1 :
                    Take(x, m + 1) \in Children(Take(x, m))
  BY PathFacts
<1> QED
  BY <1>1, PTL

\* An item is a key of at least one level.
LEMMA ItemFacts ==
  ASSUME IInv, NEW k \in leaf
  PROVE  k \in nodes /\ k \in Seq(Level) /\ Len(k) \in Nat \ {0}
BY EmptySeq DEF IInv, NodesInv, ItemsInv, Root

\* The ancestor that stays is an item, has another child or is the root; those
\* below it are neither items nor have they another child.
LEMMA CutFacts ==
  ASSUME IInv, NEW k \in leaf
  PROVE  /\ CutLevel(k) \in 0..Len(k) - 1
         /\ \/ CutLevel(k) = 0
            \/ Take(k, CutLevel(k)) \in leaf
            \/ Cardinality(Children(Take(k, CutLevel(k)))) > 1
         /\ \A m \in CutLevel(k) + 1..Len(k) - 1 :
              Take(k, m) \notin leaf /\ ~ (Cardinality(Children(Take(k, m))) > 1)
<1> DEFINE Stays(n) == \/ n = 0
                       \/ Take(k, n) \in leaf
                       \/ Cardinality(Children(Take(k, n))) > 1
           S == {n \in 0..Len(k) - 1 : Stays(n)}
<1>1. Len(k) - 1 \in Nat
  BY ItemFacts
<1>2. S \in SUBSET (0..Len(k) - 1) /\ 0 \in S
  BY <1>1
<1>3. CutLevel(k) = Max(S)
  BY Zenon DEF CutLevel
<1>4. S # {}
  BY <1>2
<1> HIDE DEF S
<1>5. CutLevel(k) \in S /\ \A j \in S : CutLevel(k) >= j
  BY <1>1, <1>2, <1>3, <1>4, GreatestNumber, Zenon
<1>6. CutLevel(k) \in 0..Len(k) - 1 /\ Stays(CutLevel(k))
  BY <1>5 DEF S
<1>7. ASSUME NEW m \in CutLevel(k) + 1..Len(k) - 1 PROVE ~ Stays(m)
  <2>1. m \in 0..Len(k) - 1 /\ ~ (CutLevel(k) >= m)
    BY <1>1, <1>6
  <2>2. m \notin S
    BY <1>5, <2>1
  <2> QED
    BY <2>1, <2>2 DEF S
<1> QED
  BY <1>6, <1>7

\* What the removal of an item without children erases: the end of the way to it.
LEMMA ErasedIsPath ==
  ASSUME IInv, NEW k \in leaf, Children(k) = {},
         NEW x \in Below(Take(k, CutLevel(k) + 1))
  PROVE  /\ Len(x) \in CutLevel(k) + 1..Len(k)
         /\ x = Take(k, Len(x))
<1> DEFINE c == CutLevel(k)
<1>0. k \in nodes /\ k \in Seq(Level) /\ Len(k) \in Nat \ {0} /\ NodesInv
  BY ItemFacts DEF IInv
<1>1. /\ c \in 0..Len(k) - 1
      /\ \A m \in c + 1..Len(k) - 1 : ~ (Cardinality(Children(Take(k, m))) > 1)
  BY CutFacts
<1> HIDE DEF c
<1>2. x \in nodes /\ x \in Seq(Level) /\ Len(x) \in Nat
  BY <1>0, LenProperties DEF Below, NodesInv
<1>3. c + 1 \in 0..Len(k) /\ c + 1 \in Nat
  BY <1>0, <1>1
<1>4. Take(k, c + 1) \in Seq(Level) /\ Len(Take(k, c + 1)) = c + 1
  BY <1>0, <1>3, TakeFacts
<1>5. c + 1 <= Len(x) /\ Take(k, c + 1) = Take(x, c + 1)
  <2>1. IsPrefix(Take(k, c + 1), x)
    BY DEF Below, c
  <2> QED
    BY <1>2, <1>4, <2>1, PrefixIsTake
<1>6. ASSUME NEW n \in c + 1..Len(x), n <= Len(k) PROVE Take(x, n) = Take(k, n)
  <2> DEFINE Bad == {m \in c + 1..Len(x) : m <= Len(k) /\ Take(x, m) # Take(k, m)}
  <2> SUFFICES ASSUME Bad # {} PROVE FALSE
    BY <1>6
  <2>1. PICK m \in Bad : \A j \in Bad : m <= j
    <3>1. \A j \in Bad : j \in Nat
      BY <1>2, <1>3
    <3> HIDE DEF Bad
    <3> QED
      BY <3>1, LeastNumber
  <2>2. m \in c + 2..Len(x) /\ m <= Len(k) /\ m \in Int
    <3>1. m \in c + 1..Len(x) /\ m <= Len(k) /\ m # c + 1
      BY <1>5, <2>1
    <3> QED
      BY <1>1, <1>2, <3>1
  <2>3. m - 1 \notin Bad
    BY <1>2, <1>3, <2>1, <2>2
  <2>4. m - 1 \in c + 1..Len(x) /\ m - 1 <= Len(k)
    BY <1>0, <1>1, <1>2, <2>2
  <2>5. Take(x, m - 1) = Take(k, m - 1)
    BY <2>3, <2>4
  <2>6. /\ m - 1 \in 0..Len(x) - 1 /\ m - 1 \in 0..Len(k) - 1 /\ m - 1 + 1 = m
        /\ m - 1 \in c + 1..Len(k) - 1
    BY <1>0, <1>1, <1>2, <2>2
  <2>7. /\ Take(k, m - 1) \in nodes
        /\ Take(k, m) \in Children(Take(k, m - 1))
    BY <1>0, <2>6, PathFacts
  <2>8. Take(x, m) \in Children(Take(k, m - 1))
    BY <1>0, <1>2, <2>5, <2>6, PathFacts
  <2>9. IsFiniteSet(Children(Take(k, m - 1)))
    BY <1>0, <2>7, ChildFacts
  <2>10. ~ (Cardinality(Children(Take(k, m - 1))) > 1)
    BY <1>1, <2>6
  <2>11. Take(x, m) = Take(k, m)
    BY <2>7, <2>8, <2>9, <2>10, AtMostOne
  <2> QED
    BY <2>1, <2>11
<1>7. Len(x) <= Len(k)
  <2> SUFFICES ASSUME Len(x) > Len(k) PROVE FALSE
    BY <1>0, <1>2
  <2>1. Len(k) \in c + 1..Len(x) /\ Len(k) \in 0..Len(x) - 1
    BY <1>0, <1>1, <1>2
  <2>2. Take(x, Len(k)) = k
    BY <1>0, <1>6, <2>1, TakeEnds
  <2>3. Take(x, Len(k) + 1) \in Children(k)
    BY <1>0, <1>2, <2>1, <2>2, PathFacts
  <2> QED
    BY <2>3
<1>8. Len(x) \in c + 1..Len(k)
  BY <1>0, <1>1, <1>2, <1>5, <1>7
<1>9. Take(x, Len(x)) = Take(k, Len(x))
  BY <1>2, <1>6, <1>7, <1>8
<1> QED
  BY <1>2, <1>8, <1>9, TakeEnds DEF c

\* The item itself is erased, no other item is, and the root is not.
LEMMA ErasedFacts ==
  ASSUME IInv, NEW k \in leaf, Children(k) = {}
  PROVE  /\ k \in Below(Take(k, CutLevel(k) + 1))
         /\ \A x \in Below(Take(k, CutLevel(k) + 1)) : x \in leaf => x = k
         /\ Root \notin Below(Take(k, CutLevel(k) + 1))
<1> DEFINE c == CutLevel(k)
<1>0. k \in nodes /\ k \in Seq(Level) /\ Len(k) \in Nat \ {0}
  BY ItemFacts
<1>1. c \in 0..Len(k) - 1 /\ \A m \in c + 1..Len(k) - 1 : Take(k, m) \notin leaf
  BY CutFacts
<1>2. c + 1 \in 0..Len(k)
  BY <1>0, <1>1
<1>3. k \in Below(Take(k, c + 1))
  <2>1. Take(k, c + 1) \in Seq(Level) /\ Len(Take(k, c + 1)) = c + 1
    BY <1>0, <1>2, TakeFacts
  <2>2. IsPrefix(Take(k, c + 1), k)
    BY <1>0, <1>2, <2>1, PrefixIsTake
  <2> QED
    BY <1>0, <2>2 DEF Below
<1>4. ASSUME NEW x \in Below(Take(k, c + 1)), x \in leaf PROVE x = k
  <2>1. Len(x) \in c + 1..Len(k) /\ x = Take(k, Len(x))
    BY ErasedIsPath
  <2>2. CASE Len(x) = Len(k)
    BY <1>0, <2>1, <2>2, TakeEnds
  <2>3. CASE Len(x) # Len(k)
    <3>1. Len(x) \in c + 1..Len(k) - 1
      BY <1>0, <1>1, <2>1, <2>3
    <3> QED
      BY <1>1, <1>4, <2>1, <3>1
  <2> QED
    BY <2>2, <2>3
<1>5. Root \notin Below(Take(k, c + 1))
  <2> SUFFICES ASSUME Root \in Below(Take(k, c + 1)) PROVE FALSE
    OBVIOUS
  <2>1. Len(Root) \in c + 1..Len(k)
    BY ErasedIsPath
  <2>2. Len(Root) = 0
    BY DEF Root
  <2> QED
    BY <1>0, <1>1, <2>1, <2>2
<1> QED
  BY <1>3, <1>4, <1>5

\* A node that loses a child to the removal is an item or has another child that stays.
LEMMA CutNodeStays ==
  ASSUME IInv, NEW k \in leaf, Children(k) = {},
         NEW n \in nodes \ Below(Take(k, CutLevel(k) + 1)), n # Root, n \notin leaf
  PROVE  \E y \in Children(n) : y \notin Below(Take(k, CutLevel(k) + 1))
<1> DEFINE c == CutLevel(k)
           Cut == Take(k, c + 1)
<1>0. k \in nodes /\ k \in Seq(Level) /\ Len(k) \in Nat \ {0} /\ NodesInv
  BY ItemFacts DEF IInv
<1>1. n \in Seq(Level) /\ Len(n) \in Nat
  BY <1>0, LenProperties DEF NodesInv
<1>2. PICK x \in Children(n) : TRUE
  BY DEF IInv, NoRedundantNodes
<1>3. CASE x \notin Below(Cut)
  BY <1>2, <1>3
<1>4. CASE x \in Below(Cut)
  <2>1. Len(x) \in c + 1..Len(k) /\ x = Take(k, Len(x))
    BY <1>4, ErasedIsPath
  <2>2. x \in nodes /\ Len(x) = Len(n) + 1 /\ n = Take(x, Len(n))
    BY <1>0, <1>2, ChildFacts
  <2>3. c \in 0..Len(k) - 1
    BY CutFacts
  <2>4. Len(n) \in c..Len(k) - 1
    BY <1>0, <1>1, <2>1, <2>2, <2>3
  <2>5. n = Take(k, Len(n))
    <3>1. Len(x) \in 0..Len(k) /\ Len(n) \in 0..Len(x)
      BY <1>0, <1>1, <2>1, <2>2, <2>3
    <3>2. Take(Take(k, Len(x)), Len(n)) = Take(k, Len(n))
      BY <1>0, <3>1, TakeOfTake
    <3> QED
      BY <2>1, <2>2, <3>2
  <2>6. Len(n) = c
    <3> SUFFICES ASSUME Len(n) # c PROVE FALSE
      OBVIOUS
    <3>1. c + 1 \in 0..Len(n) /\ Len(n) \in 0..Len(k)
      BY <1>0, <1>1, <2>3, <2>4
    <3>2. Take(n, c + 1) = Cut
      BY <1>0, <2>5, <3>1, TakeOfTake
    <3>3. Cut \in Seq(Level) /\ Len(Cut) = c + 1
      BY <1>1, <3>1, <3>2, TakeFacts
    <3>4. IsPrefix(Cut, n)
      BY <1>1, <3>1, <3>2, <3>3, PrefixIsTake
    <3> QED
      BY <3>4 DEF Below
  <2>7. Cardinality(Children(n)) > 1
    <3>1. c # 0
      BY <1>0, <2>5, <2>6, TakeEnds
    <3> QED
      BY <2>5, <2>6, <3>1, CutFacts
  <2>8. PICK y \in Children(n) : y # x
    BY <1>0, <1>2, <2>7, ChildFacts, MoreThanOne
  <2>9. y \notin Below(Cut)
    <3> SUFFICES ASSUME y \in Below(Cut) PROVE FALSE
      OBVIOUS
    <3>1. y = Take(k, Len(y))
      BY ErasedIsPath
    <3>2. Len(y) = Len(n) + 1
      BY <1>0, ChildFacts
    <3> QED
      BY <2>1, <2>2, <2>8, <3>1, <3>2
  <2> QED
    BY <2>9
<1> QED
  BY <1>3, <1>4

-------------------------------------------------------------------------------
(* The steps.                                                              *)

\* An empty trie satisfies the invariant.
LEMMA InitInv == Init => IInv
<1> SUFFICES ASSUME Init PROVE IInv
  OBVIOUS
<1>1. Root \in Seq(Level) /\ Len(Root) = 0
  BY EmptySeq DEF Root
<1>2. NodesInv
  <2>1. ASSUME NEW i \in 0..Len(Root) PROVE Take(Root, i) = Root
    <3>1. Take(Root, 0) = Root
      BY <1>1, TakeEnds
    <3>2. i = 0
      BY <1>1
    <3> QED
      BY <3>1, <3>2
  <2>2. IsFiniteSet({Root})
    BY FS_Singleton
  <2> QED
    BY <1>1, <2>1, <2>2 DEF Init, NodesInv
<1>3. ItemsInv
  BY DEF Init, ItemsInv
<1> QED
  BY <1>2, <1>3 DEF Init, IInv, NoRedundantNodes

\* What operator[] does to the tree: the way to the key is in it, and every new
\* node is the key or has a child on that way.
LEMMA ReachNodes ==
  ASSUME IInv, NEW k \in Key, Reach(k)
  PROVE  NodesInv' /\ NoRedundantNodes' /\ k \in nodes' /\ Root \notin leaf'
<1>0. /\ k \in Seq(Level) /\ Len(k) \in Nat \ {0} /\ k # Root
      /\ NodesInv /\ ItemsInv /\ NoRedundantNodes
  BY EmptySeq, LenProperties DEF IInv, Root
<1> DEFINE Way == {Take(k, n) : n \in 1..Len(k)}
<1>1. nodes' = nodes \cup Way /\ leaf' = leaf \cup {k}
  BY DEF Reach
<1>2. Way \in SUBSET Seq(Level)
  BY <1>0, TakeFacts
<1>3. IsFiniteSet(nodes')
  <2>1. IsFiniteSet(1..Len(k))
    BY <1>0, FS_Interval
  <2>2. [n \in 1..Len(k) |-> Take(k, n)] \in Surjection(1..Len(k), Way)
    BY DEF Surjection
  <2>3. IsFiniteSet(Way)
    BY <2>1, <2>2, FS_Surjection
  <2> QED
    BY <1>0, <1>1, <2>3, FS_Union DEF NodesInv
<1>4. ASSUME NEW n \in nodes', NEW i \in 0..Len(n) PROVE Take(n, i) \in nodes'
  <2>1. CASE n \in nodes
    BY <1>0, <1>1, <2>1 DEF NodesInv
  <2>2. CASE n \in Way
    <3>1. PICK m \in 1..Len(k) : n = Take(k, m)
      BY <2>2
    <3>2. Len(n) = m /\ i \in 0..m /\ m \in 0..Len(k)
      BY <1>0, <3>1, TakeFacts
    <3>3. Take(n, i) = Take(k, i)
      BY <1>0, <3>1, <3>2, TakeOfTake
    <3>4. CASE i = 0
      BY <1>0, <1>1, <3>3, <3>4, TakeEnds DEF NodesInv
    <3>5. CASE i \in 1..Len(k)
      BY <1>1, <3>3, <3>5
    <3> QED
      BY <1>0, <3>2, <3>4, <3>5
  <2> QED
    BY <1>1, <2>1, <2>2
<1>5. NodesInv'
  BY <1>0, <1>1, <1>2, <1>3, <1>4 DEF NodesInv
<1>6. k \in nodes'
  <2>1. Take(k, Len(k)) = k /\ Len(k) \in 1..Len(k)
    BY <1>0, TakeEnds
  <2> QED
    BY <1>1, <2>1
<1>7. ASSUME NEW n \in nodes', n # Root PROVE n \in leaf' \/ Children(n)' # {}
  <2>1. CASE n \in nodes
    BY <1>0, <1>1, <1>7, <2>1 DEF NoRedundantNodes, Children
  <2>2. CASE n \in Way
    <3>1. PICK m \in 1..Len(k) : n = Take(k, m)
      BY <2>2
    <3>2. CASE m = Len(k)
      BY <1>0, <1>1, <3>1, <3>2, TakeEnds
    <3>3. CASE m # Len(k)
      <4>1. m \in 0..Len(k) - 1
        BY <1>0, <3>3
      <4>2. Take(k, m + 1) \in Children(Take(k, m))'
        BY <1>0, <1>5, <1>6, <4>1, PathFactsNext
      <4> QED
        BY <3>1, <4>2
    <3> QED
      BY <3>2, <3>3
  <2> QED
    BY <1>1, <2>1, <2>2
<1> QED
  BY <1>0, <1>1, <1>5, <1>6, <1>7 DEF NoRedundantNodes, ItemsInv

\* The value of a node, old or new.
LEMMA ValueAtType ==
  ASSUME IInv, NEW n
  PROVE  ValueAt(n) \in Value
BY DEF IInv, ItemsInv, ValueAt

\* operator[] preserves the invariant.
LEMMA AccessInv ==
  ASSUME IInv, NEW k \in Key, Access(k)
  PROVE  IInv'
<1>1. Reach(k)
  BY DEF Access
<1>2. NodesInv' /\ NoRedundantNodes' /\ k \in nodes' /\ Root \notin leaf'
  BY <1>1, ReachNodes
<1>3. leaf' \in SUBSET nodes' /\ removed' \in BOOLEAN
  BY <1>1, <1>2 DEF Reach, IInv, ItemsInv
<1>4. value' \in [nodes' -> Value]
  BY ValueAtType DEF Access
<1> QED
  BY <1>2, <1>3, <1>4 DEF IInv, ItemsInv

\* insert() preserves the invariant.
LEMMA InsertInv ==
  ASSUME IInv, NEW k \in Key, NEW v \in Value, Insert(k, v)
  PROVE  IInv'
<1>1. Reach(k)
  BY DEF Insert
<1>2. NodesInv' /\ NoRedundantNodes' /\ k \in nodes' /\ Root \notin leaf'
  BY <1>1, ReachNodes
<1>3. leaf' \in SUBSET nodes' /\ removed' \in BOOLEAN
  BY <1>1, <1>2 DEF Reach, IInv, ItemsInv
<1>4. value' \in [nodes' -> Value]
  BY ValueAtType DEF Insert
<1> QED
  BY <1>2, <1>3, <1>4 DEF IInv, ItemsInv

\* What a removal erases, written as RemoveNode has it.
Erased(k) == IF Children(k) = {} THEN Below(Take(k, CutLevel(k) + 1)) ELSE {}

\* A removal erases whole subtrees, no item but its own and not the root.
LEMMA ErasedSet ==
  ASSUME IInv, NEW k \in leaf
  PROVE  /\ Erased(k) \cap leaf \in SUBSET {k}
         /\ Root \notin Erased(k)
         /\ \A n \in nodes : \A i \in 0..Len(n) : Take(n, i) \in Erased(k) => n \in Erased(k)
<1>1. CASE Children(k) # {}
  BY <1>1 DEF Erased
<1>2. CASE Children(k) = {}
  <2> DEFINE Cut == Take(k, CutLevel(k) + 1)
  <2>1. Erased(k) = Below(Cut)
    BY <1>2 DEF Erased
  <2>2. Erased(k) \cap leaf \in SUBSET {k} /\ Root \notin Erased(k)
    BY <1>2, <2>1, ErasedFacts
  <2>3. ASSUME NEW n \in nodes, NEW i \in 0..Len(n), Take(n, i) \in Below(Cut)
        PROVE  n \in Below(Cut)
    <3>1. n \in Seq(Level) /\ Len(n) \in Nat
      BY LenProperties DEF IInv, NodesInv
    <3>2. Take(n, i) \in Seq(Level) /\ Len(Take(n, i)) = i
      BY <3>1, TakeFacts
    <3>3. Cut \in Seq(Level) /\ Len(Cut) \in Nat
      <4>1. CutLevel(k) + 1 \in 0..Len(k) /\ k \in Seq(Level)
        BY ItemFacts, CutFacts
      <4> QED
        BY <4>1, TakeFacts
    <3>4. Len(Cut) <= i /\ Cut = Take(Take(n, i), Len(Cut))
      BY <2>3, <3>2, <3>3, PrefixIsTake DEF Below
    <3>5. Cut = Take(n, Len(Cut)) /\ Len(Cut) <= Len(n)
      BY <3>1, <3>3, <3>4, TakeOfTake
    <3> QED
      BY <3>1, <3>3, <3>5, PrefixIsTake DEF Below
  <2> QED
    BY <2>1, <2>2, <2>3
<1> QED
  BY <1>1, <1>2

\* After a removal no redundant node is left.
LEMMA RemoveLeavesNone ==
  ASSUME IInv, NEW k \in leaf, Drop(k, Erased(k))
  PROVE  NoRedundantNodes'
<1>1. nodes' = nodes \ Erased(k) /\ leaf' = (leaf \ {k}) \ Erased(k)
  BY DEF Drop
<1> SUFFICES ASSUME NEW n \in nodes \ Erased(k), n # Root
             PROVE  n \in leaf' \/ \E y \in Children(n) : y \notin Erased(k)
  BY <1>1 DEF NoRedundantNodes, Children
<1>2. CASE Children(k) = {}
  <2>1. Erased(k) = Below(Take(k, CutLevel(k) + 1))
    BY <1>2 DEF Erased
  <2>2. CASE n \in leaf
    BY <1>1, <1>2, <2>1, <2>2, ErasedFacts
  <2>3. CASE n \notin leaf
    BY <1>2, <2>1, <2>3, CutNodeStays
  <2> QED
    BY <2>2, <2>3
<1>3. CASE Children(k) # {}
  <2>1. Erased(k) = {}
    BY <1>3 DEF Erased
  <2>2. CASE n = k
    BY <1>3, <2>1, <2>2
  <2>3. CASE n # k
    BY <1>1, <2>1, <2>3 DEF IInv, NoRedundantNodes
  <2> QED
    BY <2>2, <2>3
<1> QED
  BY <1>2, <1>3

\* remove() preserves the invariant.
LEMMA RemoveInv ==
  ASSUME IInv, NEW k \in Key, RemoveKey(k)
  PROVE  IInv'
<1>1. CASE k \notin leaf
  <2>1. UNCHANGED <<nodes, leaf, value>> /\ removed' \in BOOLEAN
    BY <1>1 DEF RemoveKey
  <2> QED
    BY <2>1 DEF IInv, NodesInv, ItemsInv, NoRedundantNodes, Children
<1>2. CASE k \in leaf
  <2>1. Drop(k, Erased(k))
    BY <1>2 DEF RemoveKey, RemoveNode, Erased
  <2>2. /\ nodes' = nodes \ Erased(k) /\ leaf' = (leaf \ {k}) \ Erased(k)
        /\ value' = [n \in nodes' |-> value[n]] /\ removed' = TRUE
    BY <2>1 DEF Drop
  <2>3. NodesInv /\ ItemsInv
    BY DEF IInv
  <2>4. IsFiniteSet(nodes')
    <3>1. nodes' \in SUBSET nodes
      BY <2>2
    <3> QED
      BY <2>3, <3>1, FS_Subset DEF NodesInv
  <2>5. nodes' \in SUBSET Seq(Level)
    BY <2>2, <2>3 DEF NodesInv
  <2>6. Root \in nodes'
    BY <1>2, <2>2, <2>3, ErasedSet DEF NodesInv
  <2>7. ASSUME NEW n \in nodes', NEW i \in 0..Len(n) PROVE Take(n, i) \in nodes'
    <3>1. n \in nodes /\ n \notin Erased(k) /\ Take(n, i) \in nodes
      BY <2>2, <2>3 DEF NodesInv
    <3> QED
      BY <1>2, <2>2, <3>1, ErasedSet
  <2>8. NodesInv'
    BY <2>4, <2>5, <2>6, <2>7 DEF NodesInv
  <2>9. leaf' \in SUBSET nodes' /\ Root \notin leaf'
    BY <2>2, <2>3 DEF ItemsInv
  <2>10. value' \in [nodes' -> Value]
    BY <2>2, <2>3 DEF ItemsInv
  <2>11. ItemsInv'
    BY <2>2, <2>9, <2>10 DEF ItemsInv
  <2> QED
    BY <1>2, <2>1, <2>8, <2>11, RemoveLeavesNone DEF IInv
<1> QED
  BY <1>1, <1>2

\* Every reachable trie satisfies the invariant.
LEMMA Invariance == Spec => []IInv
<1>1. IInv /\ [Next]_vars => IInv'
  <2> SUFFICES ASSUME IInv, [Next]_vars PROVE IInv'
    OBVIOUS
  <2>1. ASSUME NEW k \in Key, Access(k) PROVE IInv'
    BY <2>1, AccessInv
  <2>2. ASSUME NEW k \in Key, RemoveKey(k) PROVE IInv'
    BY <2>2, RemoveInv
  <2>3. ASSUME NEW k \in Key, NEW v \in Value, Insert(k, v) PROVE IInv'
    BY <2>3, InsertInv
  <2>4. CASE UNCHANGED vars
    BY <2>4 DEF vars, IInv, NodesInv, ItemsInv, NoRedundantNodes, Children
  <2> QED
    BY <2>1, <2>2, <2>3, <2>4 DEF Next
<1> QED
  BY <1>1, InitInv, PTL DEF Spec

\* The nodes form a tree and the items are among them, whatever was inserted and removed.
THEOREM TypeCorrect == Spec => []TypeOK
BY Invariance, InvImpliesTypeOK, PTL

\* remove() leaves no node behind that is neither an item nor on the way to one.
THEOREM NothingRedundant == Spec => []NoRedundantNodes
<1>1. IInv => NoRedundantNodes
  BY DEF IInv
<1> QED
  BY <1>1, Invariance, PTL

-------------------------------------------------------------------------------
(* An empty trie.                                                          *)

\* No node has more levels than there are nodes.
LEMMA LenBound ==
  ASSUME NodesInv, NEW n \in nodes
  PROVE  Len(n) \in 0..Cardinality(nodes)
<1>1. n \in Seq(Level) /\ Len(n) \in Nat
  BY LenProperties DEF NodesInv
<1> DEFINE f == [i \in 0..Len(n) |-> Take(n, i)]
<1>2. f \in [0..Len(n) -> nodes]
  BY DEF NodesInv
<1>3. ASSUME NEW i \in 0..Len(n), NEW j \in 0..Len(n), f[i] = f[j] PROVE i = j
  BY <1>1, <1>3, TakeFacts
<1>4. f \in Injection(0..Len(n), nodes)
  BY <1>2, <1>3 DEF Injection, IsInjective
<1>5. Cardinality(0..Len(n)) <= Cardinality(nodes)
  BY <1>4, FS_Injection DEF NodesInv
<1>6. Cardinality(0..Len(n)) = Len(n) + 1
  BY <1>1, FS_Interval
<1>7. Cardinality(nodes) \in Nat
  BY FS_CardinalityType DEF NodesInv
<1> QED
  BY <1>1, <1>5, <1>6, <1>7

\* When the last item is gone, so are all nodes but the root: empty(), which asks
\* whether the root has children, says whether there are items.
THEOREM EmptyMeansNoItems == Spec => [](leaf = {} => nodes = {Root})
<1>1. IInv => (leaf = {} => nodes = {Root})
  <2> SUFFICES ASSUME IInv, leaf = {}, NEW n \in nodes, n # Root PROVE FALSE
    BY DEF IInv, NodesInv
  <2> DEFINE L == {Len(x) : x \in nodes}
  <2>1. Cardinality(nodes) \in Nat
    BY FS_CardinalityType DEF IInv, NodesInv
  <2>2. L \in SUBSET (0..Cardinality(nodes)) /\ Len(n) \in L
    BY LenBound DEF IInv
  <2>3. L # {}
    BY <2>2
  <2>4. Max(L) \in L /\ \A j \in L : Max(L) >= j
    <3> HIDE DEF L
    <3> QED
      BY <2>1, <2>2, <2>3, GreatestNumber, Zenon
  <2>5. PICK x \in nodes : Len(x) = Max(L)
    BY <2>4
  <2>6. Len(n) \in Nat \ {0} /\ Len(x) \in Nat /\ Len(x) >= Len(n)
    <3>1. n \in Seq(Level) /\ x \in Seq(Level)
      BY DEF IInv, NodesInv
    <3>2. Len(n) \in Nat \ {0} /\ Len(x) \in Nat
      BY <3>1, EmptySeq, LenProperties DEF Root
    <3> QED
      BY <2>2, <2>4, <2>5, <3>2
  <2>7. x # Root
    BY <2>6 DEF Root
  <2>8. PICK y \in Children(x) : TRUE
    BY <2>7 DEF IInv, NoRedundantNodes
  <2>9. y \in nodes /\ Len(y) = Len(x) + 1
    BY DEF Children
  <2>10. Len(y) \in L /\ Max(L) >= Len(y)
    BY <2>4, <2>9
  <2> QED
    BY <2>5, <2>6, <2>9, <2>10
<1> QED
  BY <1>1, Invariance, PTL

-------------------------------------------------------------------------------
(* The trie is a map.                                                      *)

\* The map of the items.
ItemMap == [n \in leaf |-> value[n]]

\* An empty trie is an empty map.
LEMMA InitIsMap == Init => Store!Init
<1> SUFFICES ASSUME Init PROVE ItemMap = << >> /\ removed = FALSE
  BY DEF Store!Init, ItemMap
<1> QED
  BY DEF Init, ItemMap

\* insert() puts the value under the key.
LEMMA InsertIsPut ==
  ASSUME IInv, NEW k \in Key, NEW v \in Value, Insert(k, v)
  PROVE  Store!Put(k, v)
<1>1. /\ leaf' = leaf \cup {k} /\ removed' = removed
      /\ nodes \subseteq nodes'
      /\ value' = [n \in nodes' |-> IF n = k THEN v ELSE ValueAt(n)]
  BY DEF Insert, Reach
<1>2. k \in nodes'
  BY ReachNodes DEF Insert
<1>3. ASSUME NEW n \in leaf' PROVE value'[n] = IF n = k THEN v ELSE value[n]
  BY <1>1, <1>2 DEF IInv, ItemsInv, ValueAt
<1>4. ItemMap' = [x \in leaf \cup {k} |-> IF x = k THEN v ELSE value[x]]
  BY <1>1, <1>3 DEF ItemMap
<1>5. [x \in leaf \cup {k} |-> IF x = k THEN v ELSE value[x]]
        = [x \in DOMAIN ItemMap \cup {k} |-> IF x = k THEN v ELSE ItemMap[x]]
  BY DEF ItemMap
<1> QED
  BY <1>1, <1>4, <1>5 DEF Store!Put, Store!With, ItemMap

\* operator[] changes no item, and makes one of a key that was none.
LEMMA AccessIsAccess ==
  ASSUME IInv, NEW k \in Key, Access(k)
  PROVE  Store!Access(k)
<1>1. /\ leaf' = leaf \cup {k} /\ removed' = removed
      /\ nodes \subseteq nodes'
      /\ value' = [n \in nodes' |-> ValueAt(n)]
  BY DEF Access, Reach
<1>2. k \in nodes'
  BY ReachNodes DEF Access
<1>3. ASSUME NEW n \in leaf PROVE value'[n] = value[n]
  BY <1>1 DEF IInv, ItemsInv, ValueAt
<1>4. CASE k \in leaf
  <2>1. ItemMap' = ItemMap
    BY <1>1, <1>3, <1>4 DEF ItemMap
  <2> QED
    BY <1>1, <1>4, <2>1 DEF Store!Access, ItemMap
<1>5. CASE k \notin leaf
  <2>1. value'[k] = ValueAt(k) /\ ValueAt(k) \in Value
    BY <1>1, <1>2, ValueAtType
  <2>2. ItemMap' = [x \in leaf \cup {k} |-> IF x = k THEN ValueAt(k) ELSE value[x]]
    BY <1>1, <1>3, <2>1 DEF ItemMap
  <2>3. [x \in leaf \cup {k} |-> IF x = k THEN ValueAt(k) ELSE value[x]]
          = [x \in DOMAIN ItemMap \cup {k} |-> IF x = k THEN ValueAt(k) ELSE ItemMap[x]]
    BY DEF ItemMap
  <2> QED
    BY <1>1, <1>5, <2>1, <2>2, <2>3 DEF Store!Access, Store!With, ItemMap
<1> QED
  BY <1>4, <1>5

\* remove() takes the key away, no other, and says whether it was there.
LEMMA RemoveIsRemove ==
  ASSUME IInv, NEW k \in Key, RemoveKey(k)
  PROVE  Store!Remove(k)
<1>1. CASE k \notin leaf
  <2>1. UNCHANGED <<leaf, value>> /\ removed' = FALSE
    BY <1>1 DEF RemoveKey
  <2>2. ItemMap' = [x \in DOMAIN ItemMap \ {k} |-> ItemMap[x]]
    BY <1>1, <2>1 DEF ItemMap
  <2>3. removed' = (k \in DOMAIN ItemMap)
    <3>1. DOMAIN ItemMap = leaf
      BY DEF ItemMap
    <3>2. (k \in leaf) = FALSE
      BY <1>1
    <3> QED
      BY <2>1, <3>1, <3>2
  <2> QED
    BY <2>2, <2>3 DEF Store!Remove, ItemMap
<1>2. CASE k \in leaf
  <2>1. Drop(k, Erased(k))
    BY <1>2 DEF RemoveKey, RemoveNode, Erased
  <2>2. /\ nodes' = nodes \ Erased(k) /\ leaf' = (leaf \ {k}) \ Erased(k)
        /\ value' = [n \in nodes' |-> value[n]] /\ removed' = TRUE
    BY <2>1 DEF Drop
  <2>3. leaf' = leaf \ {k}
    BY <1>2, <2>2, ErasedSet
  <2>4. leaf' \in SUBSET nodes'
    BY <2>2 DEF IInv, ItemsInv
  <2>5. ASSUME NEW n \in leaf' PROVE value'[n] = value[n]
    BY <2>2, <2>4
  <2>6. ItemMap' = [x \in DOMAIN ItemMap \ {k} |-> ItemMap[x]]
    BY <2>3, <2>5 DEF ItemMap
  <2>7. removed' = (k \in DOMAIN ItemMap)
    BY <1>2, <2>2 DEF ItemMap
  <2> QED
    BY <2>6, <2>7 DEF Store!Remove, ItemMap
<1> QED
  BY <1>1, <1>2

\* As a container the trie is a map from keys to values, whatever the shape of its
\* nodes: every step is one of the map.
THEOREM TrieIsMap == Spec => ImplementsStore
<1>1. IInv /\ [Next]_vars => [Store!Next]_(Store!vars)
  <2> SUFFICES ASSUME IInv, [Next]_vars PROVE [Store!Next]_(Store!vars)
    OBVIOUS
  <2>1. ASSUME NEW k \in Key, Access(k) PROVE Store!Next
    BY <2>1, AccessIsAccess DEF Store!Next
  <2>2. ASSUME NEW k \in Key, RemoveKey(k) PROVE Store!Next
    BY <2>2, RemoveIsRemove DEF Store!Next
  <2>3. ASSUME NEW k \in Key, NEW v \in Value, Insert(k, v) PROVE Store!Next
    BY <2>3, InsertIsPut DEF Store!Next
  <2>4. CASE UNCHANGED vars
    BY <2>4 DEF vars, Store!vars
  <2> QED
    BY <2>1, <2>2, <2>3, <2>4 DEF Next
<1> QED
  BY <1>1, InitIsMap, Invariance, PTL DEF Spec, ImplementsStore, Store!Spec

-------------------------------------------------------------------------------
(* The queries.                                                            *)

\* A function on 0..N that starts with b and takes the d-th of the steps F at d.
Follows(f, V, N, b, F) ==
  f \in [0..N -> V] /\ f[0] = b /\ \A d \in 1..N : f[d] = F[d][f[d - 1]]

\* There is one for any first value and steps.
LEMMA Recursion ==
  ASSUME NEW V, NEW N \in Nat, NEW b \in V, NEW F \in [1..N -> [V -> V]]
  PROVE  \E f : Follows(f, V, N, b, F)
<1> DEFINE Has(n) == \E f : Follows(f, V, n, b, F)
           Bad == {n \in 0..N : ~Has(n)}
<1>1. Has(0)
  <2> DEFINE g == [i \in 0..0 |-> b]
  <2>1. g \in [0..0 -> V] /\ g[0] = b
    OBVIOUS
  <2>2. \A d \in 1..0 : g[d] = F[d][g[d - 1]]
    OBVIOUS
  <2> HIDE DEF g
  <2> QED BY <2>1, <2>2 DEF Follows
<1>2. ASSUME NEW n \in 0..N - 1, Has(n) PROVE Has(n + 1)
  <2>1. PICK f : f \in [0..n -> V] /\ f[0] = b /\ \A d \in 1..n : f[d] = F[d][f[d - 1]]
    BY <1>2 DEF Follows
  <2> DEFINE g == [d \in 0..n + 1 |-> IF d = n + 1 THEN F[n + 1][f[n]] ELSE f[d]]
  <2>2. n \in 0..n /\ n + 1 \in 1..N
    OBVIOUS
  <2>3. F[n + 1][f[n]] \in V
    BY <2>1, <2>2
  <2>4. g \in [0..n + 1 -> V] /\ g[0] = b
    BY <2>1, <2>3
  <2>5. ASSUME NEW d \in 1..n + 1 PROVE g[d] = F[d][g[d - 1]]
    <3>1. CASE d = n + 1
      <4>1. d - 1 = n /\ n \in 0..n + 1 /\ n # n + 1 /\ n + 1 \in 0..n + 1
        BY <3>1
      <4>2. g[n] = f[n] /\ g[n + 1] = F[n + 1][f[n]]
        BY <4>1
      <4> HIDE DEF g
      <4> QED BY <3>1, <4>1, <4>2
    <3>2. CASE d # n + 1
      <4>1. d \in 1..n /\ d \in 0..n + 1 /\ d - 1 \in 0..n + 1 /\ d - 1 # n + 1
        BY <3>2
      <4> QED BY <2>1, <3>2, <4>1
    <3> QED BY <3>1, <3>2
  <2> HIDE DEF g
  <2> QED BY <2>4, <2>5 DEF Follows
<1>3. Bad = {}
  <2> SUFFICES ASSUME Bad # {} PROVE FALSE
    OBVIOUS
  <2>1. \A j \in Bad : j \in Nat /\ j \in 0..N /\ ~Has(j)
    OBVIOUS
  <2>2. \A j \in 0..N : Has(j) \/ j \in Bad
    OBVIOUS
  <2> HIDE DEF Bad, Has
  <2>3. PICK m \in Bad : \A j \in Bad : m <= j
    BY <2>1, LeastNumber
  <2>4. m # 0
    BY <1>1, <2>1
  <2>5. m - 1 \in 0..N - 1 /\ m - 1 \in 0..N /\ m - 1 \notin Bad /\ m - 1 + 1 = m
    BY <2>1, <2>3, <2>4
  <2> QED BY <1>2, <2>1, <2>2, <2>5
<1>4. N \in 0..N
  OBVIOUS
<1> QED BY <1>3, <1>4

\* find() goes down one level at a time, from the root.
LEMMA VisitedSteps ==
  ASSUME NodesInv, NEW k \in Topic
  PROVE  Visited(k) = [d \in 0..Len(k) |->
           IF d = 0 THEN {Root} ELSE UNION {Step(n, k[d]) : n \in Visited(k)[d - 1]}]
<1> DEFINE N == Len(k)
           V == SUBSET nodes
           b == {Root}
           F == [d \in 1..N |-> [S \in V |-> UNION {Step(n, k[d]) : n \in S}]]
<1>1. N \in Nat /\ b \in V
  BY LenProperties DEF NodesInv
<1>2. F \in [1..N -> [V -> V]]
  BY DEF Step
<1>3. \E f : Follows(f, V, N, b, F)
  <2> HIDE DEF F, V, N, b
  <2> QED BY <1>1, <1>2, Recursion
<1>4. PICK f : f \in [0..N -> V] /\ f[0] = {Root} /\ \A d \in 1..N : f[d] = F[d][f[d - 1]]
  BY <1>3 DEF Follows
<1>5. ASSUME NEW d \in 0..N
      PROVE  f[d] = IF d = 0 THEN {Root} ELSE UNION {Step(n, k[d]) : n \in f[d - 1]}
  <2>1. CASE d = 0
    BY <1>4, <2>1
  <2>2. CASE d # 0
    <3>1. d \in 1..N /\ d - 1 \in 0..N
      BY <1>1, <2>2
    <3>2. f[d - 1] \in V /\ f[d] = F[d][f[d - 1]]
      BY <1>4, <3>1
    <3>3. F[d][f[d - 1]] = UNION {Step(n, k[d]) : n \in f[d - 1]}
      BY <3>1, <3>2
    <3> QED BY <2>2, <3>2, <3>3
  <2> QED BY <2>1, <2>2
<1>6. f = [d \in 0..N |-> IF d = 0 THEN {Root} ELSE UNION {Step(n, k[d]) : n \in f[d - 1]}]
  <2> HIDE DEF F, V
  <2> QED BY <1>4, <1>5
<1> QED BY <1>6, Zenon DEF Visited

\* A node with one level more.
LEMMA AppendFacts ==
  ASSUME NodesInv, NEW m \in nodes, NEW level
  PROVE  /\ Len(Append(m, level)) = Len(m) + 1
         /\ \A i \in 1..Len(m) : Append(m, level)[i] = m[i]
         /\ Append(m, level)[Len(m) + 1] = level
<1>1. m \in Seq(Level \cup {level}) /\ level \in Level \cup {level}
  <2>1. m \in Seq(Level)
    BY DEF NodesInv
  <2>2. \A i \in 1..Len(m) : m[i] \in Level \cup {level}
    BY <2>1, ElementOfSeq
  <2>3. m \in [1..Len(m) -> Level \cup {level}] /\ Len(m) \in Nat
    BY <2>1, <2>2, LenProperties
  <2>4. m \in Seq(Level \cup {level})
    BY <2>3, SeqDef
  <2> QED BY <2>4
<1> QED BY <1>1, AppendProperties, LenProperties

\* A node below the root is its parent with one level more.
LEMMA ParentFacts ==
  ASSUME NodesInv, NEW n \in nodes, NEW d \in Nat, Len(n) = d + 1
  PROVE  /\ Take(n, d) \in nodes /\ Len(Take(n, d)) = d
         /\ \A i \in 1..d : Take(n, d)[i] = n[i]
         /\ n = Append(Take(n, d), n[d + 1])
<1>1. n \in Seq(Level) /\ d \in 0..Len(n)
  BY DEF NodesInv
<1>2. Take(n, d) \in nodes /\ Len(Take(n, d)) = d /\ \A i \in 1..d : Take(n, d)[i] = n[i]
  BY <1>1, TakeFacts DEF NodesInv
<1>3. /\ Take(n, d) \in Seq(Level) /\ n[d + 1] \in Level
      /\ Append(Take(n, d), n[d + 1]) \in Seq(Level)
  <2>1. d + 1 \in 1..Len(n)
    OBVIOUS
  <2>2. Take(n, d) \in Seq(Level) /\ n[d + 1] \in Level
    BY <1>1, <1>2, <2>1, ElementOfSeq DEF NodesInv
  <2> QED BY <2>2, AppendProperties
<1>4. /\ Len(Append(Take(n, d), n[d + 1])) = d + 1
      /\ \A i \in 1..d : Append(Take(n, d), n[d + 1])[i] = n[i]
      /\ Append(Take(n, d), n[d + 1])[d + 1] = n[d + 1]
  BY <1>2, AppendFacts
<1>5. \A i \in 1..d + 1 : Append(Take(n, d), n[d + 1])[i] = n[i]
  <2>1. \A i \in 1..d + 1 : i \in 1..d \/ i = d + 1
    OBVIOUS
  <2> QED BY <1>4, <2>1
<1>6. n = Append(Take(n, d), n[d + 1])
  BY <1>1, <1>3, <1>4, <1>5, SeqEqual
<1> QED BY <1>2, <1>6

\* The way to a node of depth d fits the first d levels of k.
Fits(n, k, d) == Len(n) = d /\ \A i \in 1..d : n[i] \in {k[i], Single}

\* find() visits exactly the nodes whose way fits.
LEMMA VisitedFacts ==
  ASSUME NodesInv, NEW k \in Topic
  PROVE  \A d \in 0..Len(k) : Visited(k)[d] = {n \in nodes : Fits(n, k, d)}
<1> DEFINE Right(d) == Visited(k)[d] = {n \in nodes : Fits(n, k, d)}
           Bad == {d \in 0..Len(k) : ~Right(d)}
<1>1. Len(k) \in Nat
  BY LenProperties
<1>2. Right(0)
  <2>1. Visited(k)[0] = {Root}
    BY <1>1, VisitedSteps
  <2>2. \A n \in nodes : Len(n) = 0 <=> n = Root
    BY EmptySeq DEF NodesInv, Root
  <2>3. \A n \in nodes : Fits(n, k, 0) <=> n = Root
    BY <2>2 DEF Fits
  <2> QED BY <2>1, <2>3 DEF NodesInv
<1>3. ASSUME NEW d \in 0..Len(k) - 1, Right(d) PROVE Right(d + 1)
  <2>1. Visited(k)[d + 1] = UNION {Step(n, k[d + 1]) : n \in Visited(k)[d]}
    <3>1. d + 1 \in 0..Len(k) /\ d + 1 # 0 /\ d + 1 - 1 = d
      BY <1>1
    <3> QED BY <3>1, VisitedSteps
  <2>2. ASSUME NEW m \in nodes, Fits(m, k, d), NEW level \in {k[d + 1], Single},
               Append(m, level) \in nodes
        PROVE  Fits(Append(m, level), k, d + 1)
    <3>1. /\ Len(m) = d /\ Len(Append(m, level)) = d + 1
          /\ \A i \in 1..d : Append(m, level)[i] = m[i]
          /\ Append(m, level)[d + 1] = level
      BY <2>2, AppendFacts DEF Fits
    <3>2. \A i \in 1..d + 1 : i \in 1..d \/ i = d + 1
      OBVIOUS
    <3> QED BY <2>2, <3>1, <3>2 DEF Fits
  <2>3. ASSUME NEW n \in nodes, Fits(n, k, d + 1)
        PROVE  \E m \in nodes : Fits(m, k, d) /\ n \in Step(m, k[d + 1])
    <3>1. Len(n) = d + 1 /\ d \in Nat /\ n[d + 1] \in {k[d + 1], Single}
      BY <2>3 DEF Fits
    <3>2. /\ Take(n, d) \in nodes /\ Len(Take(n, d)) = d /\ \A i \in 1..d : Take(n, d)[i] = n[i]
          /\ n = Append(Take(n, d), n[d + 1])
      BY <3>1, ParentFacts
    <3>3. Fits(Take(n, d), k, d)
      BY <2>3, <3>1, <3>2 DEF Fits
    <3>4. n \in Step(Take(n, d), k[d + 1])
      BY <3>1, <3>2 DEF Step
    <3> QED BY <3>2, <3>3, <3>4
  <2>4. \A m, n : n \in Step(m, k[d + 1]) <=>
                    n \in nodes /\ \E level \in {k[d + 1], Single} : n = Append(m, level)
    BY DEF Step
  <2>5. ASSUME NEW n PROVE n \in Visited(k)[d + 1] <=> n \in nodes /\ Fits(n, k, d + 1)
    <3>1. n \in Visited(k)[d + 1] <=> \E m \in nodes : Fits(m, k, d) /\ n \in Step(m, k[d + 1])
      BY <1>3, <2>1
    <3>2. ASSUME NEW m \in nodes, Fits(m, k, d), n \in Step(m, k[d + 1])
          PROVE  n \in nodes /\ Fits(n, k, d + 1)
      <4>1. PICK level \in {k[d + 1], Single} : n = Append(m, level)
        BY <2>4, <3>2
      <4>2. n \in nodes
        BY <2>4, <3>2
      <4> QED BY <2>2, <3>2, <4>1, <4>2
    <3> QED BY <2>3, <3>1, <3>2
  <2> QED BY <2>5
<1>4. Bad = {}
  <2> SUFFICES ASSUME Bad # {} PROVE FALSE
    OBVIOUS
  <2>1. \A j \in Bad : j \in Nat /\ j \in 0..Len(k) /\ ~Right(j)
    OBVIOUS
  <2>2. \A j \in 0..Len(k) : Right(j) \/ j \in Bad
    OBVIOUS
  <2> HIDE DEF Bad, Right
  <2>3. PICK m \in Bad : \A j \in Bad : m <= j
    BY <2>1, LeastNumber
  <2>4. m # 0
    BY <1>2, <2>1
  <2>5. m - 1 \in 0..Len(k) - 1 /\ m - 1 \in 0..Len(k) /\ m - 1 \notin Bad /\ m - 1 + 1 = m
    BY <1>1, <2>1, <2>3, <2>4
  <2> QED BY <1>3, <2>1, <2>2, <2>5
<1> QED BY <1>4

\* What find() collects is what matches: the nodes at the depth of the topic whose
\* way fits, and the "#" below those on the way there.
LEMMA FoundFacts ==
  ASSUME IInv, NEW k \in Topic
  PROVE  Found(k) = {f \in leaf : Matches(f, k)}
<1> DEFINE Multis == {Append(n, Multi) : n \in UNION {Visited(k)[d] : d \in 0..Len(k) - 1}}
<1>1. NodesInv /\ Len(k) \in Nat \ {0}
  BY LenProperties DEF IInv
<1>2. Found(k) = (Visited(k)[Len(k)] \cup Multis) \cap leaf
  BY Zenon DEF Found
<1>3. ASSUME NEW i \in 1..Len(k) PROVE k[i] # Multi /\ k[i] # Single
  BY <1>1, TopicAssumption DEF Range
<1>4. ASSUME NEW f \in leaf
      PROVE  /\ f \in nodes /\ Len(f) \in Nat \ {0}
             /\ f \in Visited(k)[Len(k)] <=> Fits(f, k, Len(k))
  <2>1. f \in nodes /\ Len(f) \in Nat \ {0}
    BY ItemFacts
  <2>2. Visited(k)[Len(k)] = {n \in nodes : Fits(n, k, Len(k))}
    BY <1>1, VisitedFacts
  <2> QED BY <2>1, <2>2
<1>5. ASSUME NEW f \in leaf, f \in Multis PROVE Matches(f, k)
  <2>0. PICK d \in 0..Len(k) - 1 : \E n \in Visited(k)[d] : f = Append(n, Multi)
    BY <1>5
  <2>1. PICK n \in Visited(k)[d] : f = Append(n, Multi)
    BY <2>0
  <2>2. n \in nodes /\ Fits(n, k, d)
    <3>1. d \in 0..Len(k)
      BY <1>1
    <3> QED BY <1>1, <2>1, <3>1, VisitedFacts
  <2>3. /\ Len(f) = d + 1 /\ f[d + 1] = Multi /\ \A i \in 1..d : f[i] \in {k[i], Single}
    BY <1>1, <2>1, <2>2, AppendFacts DEF Fits
  <2>4. d + 1 - 1 = d /\ Len(k) >= d + 1
    BY <1>1
  <2> QED BY <2>3, <2>4 DEF Matches
<1>6. ASSUME NEW f \in leaf, f[Len(f)] = Multi, Matches(f, k) PROVE f \in Multis
  <2> DEFINE d == Len(f) - 1
  <2>1. d \in Nat /\ Len(f) = d + 1 /\ f \in nodes
    BY <1>4
  <2>2. /\ Take(f, d) \in nodes /\ Len(Take(f, d)) = d /\ \A i \in 1..d : Take(f, d)[i] = f[i]
        /\ f = Append(Take(f, d), Multi)
    <3> HIDE DEF d
    <3> QED BY <1>1, <1>6, <2>1, ParentFacts
  <2>3. Len(k) >= Len(f) /\ \A i \in 1..d : f[i] \in {k[i], Single}
    BY <1>6 DEF Matches
  <2>4. d \in 0..Len(k) - 1 /\ d \in 0..Len(k)
    BY <1>1, <2>1, <2>3
  <2>5. Fits(Take(f, d), k, d)
    BY <2>2, <2>3 DEF Fits
  <2>6. Take(f, d) \in Visited(k)[d]
    BY <1>1, <2>2, <2>4, <2>5, VisitedFacts
  <2> QED BY <2>2, <2>4, <2>6
<1>7. ASSUME NEW f \in leaf, f[Len(f)] # Multi PROVE Matches(f, k) <=> Fits(f, k, Len(k))
  <2>1. Matches(f, k) <=> Len(k) = Len(f) /\ \A i \in 1..Len(f) : f[i] \in {k[i], Single}
    BY <1>7 DEF Matches
  <2> QED BY <2>1 DEF Fits
<1>8. ASSUME NEW f \in leaf, f[Len(f)] = Multi, Fits(f, k, Len(k)) PROVE Matches(f, k)
  <2>1. Len(f) = Len(k) /\ \A i \in 1..Len(f) : f[i] \in {k[i], Single}
    BY <1>8 DEF Fits
  <2>2. \A i \in 1..Len(f) - 1 : i \in 1..Len(f)
    BY <1>4
  <2> QED BY <1>1, <1>8, <2>1, <2>2 DEF Matches
<1>9. ASSUME NEW f \in leaf PROVE f \in Found(k) <=> Matches(f, k)
  <2> HIDE DEF Multis
  <2>1. CASE f[Len(f)] = Multi
    BY <1>2, <1>4, <1>5, <1>6, <1>8, <2>1
  <2>2. CASE f[Len(f)] # Multi
    BY <1>2, <1>4, <1>5, <1>7, <2>2
  <2> QED BY <2>1, <2>2
<1>10. Found(k) \subseteq leaf
  BY <1>2
<1> QED BY <1>9, <1>10

\* The key of a node is put together level by level.
LEMMA ReportedSteps ==
  ASSUME NEW n \in Seq(Level)
  PROVE  \E key : /\ key[0] = <<Empty>> /\ ReportedKey(n) = key[Len(n)]
                  /\ \A d \in 1..Len(n) :
                       key[d] = IF key[d - 1] = <<Empty>> THEN <<n[d]>>
                                ELSE Append(key[d - 1], n[d])
<1> DEFINE N == Len(n)
           V == Seq(Level \cup {Empty})
           b == <<Empty>>
           F == [d \in 1..N |-> [s \in V |-> IF s = <<Empty>> THEN <<n[d]>> ELSE Append(s, n[d])]]
<1>1. N \in Nat /\ b \in V
  BY LenProperties
<1>2. F \in [1..N -> [V -> V]]
  <2>1. ASSUME NEW d \in 1..N, NEW s \in V PROVE <<n[d]>> \in V /\ Append(s, n[d]) \in V
    <3>1. n[d] \in Level \cup {Empty}
      BY ElementOfSeq
    <3> QED BY <3>1, AppendProperties
  <2> HIDE DEF V
  <2> QED BY <2>1
<1>3. \E f : Follows(f, V, N, b, F)
  <2> HIDE DEF F, V, N, b
  <2> QED BY <1>1, <1>2, Recursion
<1>4. PICK f : f \in [0..N -> V] /\ f[0] = b /\ \A d \in 1..N : f[d] = F[d][f[d - 1]]
  BY <1>3 DEF Follows
<1>5. ASSUME NEW d \in 0..N
      PROVE  f[d] = IF d = 0 THEN <<Empty>>
                    ELSE IF f[d - 1] = <<Empty>> THEN <<n[d]>> ELSE Append(f[d - 1], n[d])
  <2>1. CASE d = 0
    BY <1>4, <2>1
  <2>2. CASE d # 0
    <3>1. d \in 1..N /\ d - 1 \in 0..N
      BY <1>1, <2>2
    <3>2. f[d - 1] \in V /\ f[d] = F[d][f[d - 1]]
      BY <1>4, <3>1
    <3> HIDE DEF V
    <3> QED BY <2>2, <3>1, <3>2
  <2> QED BY <2>1, <2>2
<1>6. f = [d \in 0..N |-> IF d = 0 THEN <<Empty>>
                          ELSE IF f[d - 1] = <<Empty>> THEN <<n[d]>> ELSE Append(f[d - 1], n[d])]
  <2> HIDE DEF F, V
  <2> QED BY <1>4, <1>5
<1> DEFINE K == CHOOSE key : key = [d \in 0..N |-> IF d = 0 THEN <<Empty>>
                  ELSE IF key[d - 1] = <<Empty>> THEN <<n[d]>> ELSE Append(key[d - 1], n[d])]
<1>7. K = [d \in 0..N |-> IF d = 0 THEN <<Empty>>
              ELSE IF K[d - 1] = <<Empty>> THEN <<n[d]>> ELSE Append(K[d - 1], n[d])]
  BY <1>6, Zenon
<1>8. ReportedKey(n) = K[N]
  BY Zenon DEF ReportedKey
<1> HIDE DEF K
<1>9. K[0] = <<Empty>>
  BY <1>1, <1>7
<1>10. ASSUME NEW d \in 1..N
       PROVE  K[d] = IF K[d - 1] = <<Empty>> THEN <<n[d]>> ELSE Append(K[d - 1], n[d])
  <2>1. d \in 0..N /\ d # 0
    BY <1>1
  <2> HIDE DEF N
  <2> QED BY <1>7, <2>1
<1> QED BY <1>8, <1>9, <1>10

\* A key whose first level is not empty, or that has no other, is reported as it is.
LEMMA ReportedFacts ==
  ASSUME IInv, NEW n \in leaf, Len(n) = 1 \/ n[1] # Empty
  PROVE  ReportedKey(n) = n
<1>1. n \in nodes /\ n \in Seq(Level) /\ Len(n) \in Nat \ {0} /\ NodesInv
  BY ItemFacts DEF IInv
<1>2. PICK key : /\ key[0] = <<Empty>> /\ ReportedKey(n) = key[Len(n)]
                 /\ \A d \in 1..Len(n) :
                      key[d] = IF key[d - 1] = <<Empty>> THEN <<n[d]>>
                               ELSE Append(key[d - 1], n[d])
  BY <1>1, ReportedSteps
<1> DEFINE Right(d) == key[d] = Take(n, d)
           Bad == {d \in 1..Len(n) : ~Right(d)}
<1>3. Right(1)
  <2>1. 1 \in 1..Len(n) /\ 1 - 1 = 0
    BY <1>1
  <2>2. key[1] = <<n[1]>>
    BY <1>2, <2>1
  <2>3. Take(n, 1) \in Seq(Level) /\ Len(Take(n, 1)) = 1 /\ Take(n, 1)[1] = n[1]
    <3>1. 1 \in 0..Len(n) /\ 1 \in 1..1
      BY <1>1
    <3>2. /\ Take(n, 1) \in Seq(Level) /\ Len(Take(n, 1)) = 1
          /\ \A i \in 1..1 : Take(n, 1)[i] = n[i]
      BY <1>1, <3>1, TakeFacts
    <3> QED BY <3>1, <3>2
  <2>4. Take(n, 1) = <<n[1]>>
    BY <2>3
  <2> QED BY <2>2, <2>4
<1>4. ASSUME NEW d \in 1..Len(n) - 1, Right(d) PROVE Right(d + 1)
  <2>1. d + 1 \in 1..Len(n) /\ d + 1 - 1 = d /\ d \in 0..Len(n) /\ 1 \in 1..d /\ d + 1 \in 0..Len(n)
        /\ d \in 0..d + 1
    BY <1>1
  <2>2. Take(n, d) # <<Empty>>
    <3>1. Take(n, d)[1] = n[1] /\ n[1] # Empty
      <4>1. \A i \in 1..d : Take(n, d)[i] = n[i]
        BY <1>1, <2>1, TakeFacts
      <4>2. d + 1 \in 1..Len(n) /\ d \in 1..Len(n) - 1 => Len(n) # 1
        <5> DEFINE L == Len(n)
        <5>1. L \in Nat
          BY <1>1
        <5> HIDE DEF L
        <5>2. d + 1 \in 1..L /\ d \in 1..L - 1 => L # 1
          BY <5>1
        <5> QED BY <5>2 DEF L
      <4> QED BY <2>1, <4>1, <4>2
    <3> QED BY <3>1
  <2>3. key[d + 1] = Append(Take(n, d), n[d + 1])
    <3>1. key[d] = Take(n, d)
      BY <1>4
    <3>2. key[d + 1] = IF key[d] = <<Empty>> THEN <<n[d + 1]>> ELSE Append(key[d], n[d + 1])
      BY <1>2, <2>1
    <3> QED BY <2>2, <3>1, <3>2
  <2>4. Take(n, d + 1) \in nodes /\ Len(Take(n, d + 1)) = d + 1
        /\ Take(n, d + 1)[d + 1] = n[d + 1]
    BY <1>1, <2>1, TakeFacts DEF NodesInv
  <2>5. Take(n, d + 1) = Append(Take(Take(n, d + 1), d), n[d + 1])
    BY <1>1, <2>4, ParentFacts
  <2>6. Take(Take(n, d + 1), d) = Take(n, d)
    BY <1>1, <2>1, TakeOfTake
  <2> QED BY <2>3, <2>5, <2>6
<1>5. Bad = {}
  <2> SUFFICES ASSUME Bad # {} PROVE FALSE
    OBVIOUS
  <2>1. \A j \in Bad : j \in Nat /\ j \in 1..Len(n) /\ ~Right(j)
    OBVIOUS
  <2>2. \A j \in 1..Len(n) : Right(j) \/ j \in Bad
    OBVIOUS
  <2> HIDE DEF Bad, Right
  <2>3. PICK m \in Bad : \A j \in Bad : m <= j
    BY <2>1, LeastNumber
  <2>4. m # 1
    BY <1>3, <2>1
  <2>5. m - 1 \in 1..Len(n) - 1 /\ m - 1 \in 1..Len(n) /\ m - 1 \notin Bad /\ m - 1 + 1 = m
    BY <1>1, <2>1, <2>3, <2>4
  <2> QED BY <1>4, <2>1, <2>2, <2>5
<1>6. Len(n) \in 1..Len(n)
  BY <1>1
<1>7. key[Len(n)] = Take(n, Len(n))
  BY <1>5, <1>6
<1> QED BY <1>1, <1>2, <1>7, TakeEnds

\* The items are keys.
LEMMA ItemsAreKeys == Spec => [](leaf \subseteq Key)
<1>1. Init => leaf \subseteq Key
  BY DEF Init
<1>2. leaf \subseteq Key /\ [Next]_vars => (leaf \subseteq Key)'
  BY DEF Next, Access, Insert, Reach, RemoveKey, RemoveNode, Drop, vars
<1> QED BY <1>1, <1>2, PTL DEF Spec

\* find() collects exactly the items whose key matches the topic, for any keys, topics
\* and history, and overlapping wildcards.
THEOREM FoundIsMatching == Spec => [](\A k \in Topic : Found(k) = {f \in leaf : Matches(f, k)})
<1>1. IInv => \A k \in Topic : Found(k) = {f \in leaf : Matches(f, k)}
  BY FoundFacts
<1> QED BY <1>1, Invariance, PTL

\* It reports them under the keys they were inserted with, and so does forEach(), for
\* keys that do not begin with the separator. Of those that do, the keys it puts
\* together lose the empty first level.
THEOREM FindExact ==
  ASSUME \A k \in Key : Len(k) = 1 \/ k[1] # Empty
  PROVE  Spec => []FindIsMatching
<1>1. IInv /\ leaf \subseteq Key => FindIsMatching
  <2> SUFFICES ASSUME IInv, leaf \subseteq Key PROVE FindIsMatching
    OBVIOUS
  <2>1. \A n \in leaf : ReportedKey(n) = n
    BY ReportedFacts
  <2>2. ASSUME NEW k \in Topic PROVE Find(k) = {f \in leaf : Matches(f, k)}
    <3>1. Found(k) = {f \in leaf : Matches(f, k)}
      BY FoundFacts
    <3> QED BY <2>1, <3>1 DEF Find
  <2>3. \A n \in leaf : ForEach[n] = n
    BY <2>1 DEF ForEach
  <2> QED BY <2>2, <2>3 DEF FindIsMatching
<1> QED BY <1>1, Invariance, ItemsAreKeys, PTL
==============================================================================
