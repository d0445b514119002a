------------------------------- MODULE MCBridge -------------------------------
(***************************************************************************)
(* Instances of Bridge for TLC. The threads, addresses and topics are      *)
(* model values.                                                           *)
(***************************************************************************)
EXTENDS Bridge, TLC

\* Topics, clients and workers are interchangeable in the safety runs.
Symmetry == Permutations(Topic) \cup Permutations(Client) \cup Permutations(Worker)
==============================================================================
