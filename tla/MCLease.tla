------------------------------- MODULE MCLease --------------------------------
(***************************************************************************)
(* Instances of Lease for TLC.                                             *)
(***************************************************************************)
EXTENDS Lease, TLC

\* By default the bridge's lifetime exceeds the client's by five ticks.
ShortLifetime == 2
LongLifetime == 7
==============================================================================
