------------------------------- MODULE MCEspNow -------------------------------
(***************************************************************************)
(* Instances of EspNow for TLC: a client within reach of two bridges.      *)
(***************************************************************************)
EXTENDS EspNow, TLC

CONSTANTS t1, t2, near, far, cast

\* Every address has a bucket of its own.
Apart == near :> 1 @@ far :> 2 @@ cast :> 3

\* The hash puts a bridge and the broadcast address in one bucket.
Colliding == near :> 1 @@ far :> 2 @@ cast :> 1

Channels == near :> 1 @@ far :> 2
Signals == near :> 2 @@ far :> 1
==============================================================================
