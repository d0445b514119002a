------------------------------ MODULE MCDelivery ------------------------------
(***************************************************************************)
(* An instance of Delivery for TLC: a filter for the data of one client,  *)
(* one for everything but what clients report, so that what the bridge     *)
(* reports of a client's report reaches this client.                       *)
(***************************************************************************)
EXTENDS Delivery

CONSTANTS c1, bridge, data, rssi, probe, one, all

MatchTable ==
  {<<c1, data, one>>} \cup {<<n, data, all>> : n \in Node}
    \cup {<<bridge, t, all>> : t \in {rssi, probe}}
==============================================================================
