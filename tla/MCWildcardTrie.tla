---------------------------- MODULE MCWildcardTrie ----------------------------
(***************************************************************************)
(* Instances of WildcardTrie for TLC. Levels are strings here.             *)
(***************************************************************************)
EXTENDS WildcardTrie

\* Nested, sibling and overlapping keys with both wildcards.
Keys == {<<"a">>, <<"a", "b">>, <<"a", "b", "c">>, <<"a", "+">>, <<"+", "b", "#">>,
         <<"#">>, <<"b", "a", "c">>}

Topics == UNION {[1..n -> {"a", "b", "c"}] : n \in 1..3} \cup {<<"">>}
==============================================================================
