----------------------------- MODULE WifiStation -----------------------------
(***************************************************************************)
(* The WiFi station of the ESP platform, src/espidf/wifi_station.cpp, for  *)
(* a bridge node (the SSID is set): its constructor, run by the main task  *)
(* with m_mutex held, and the event handlers, run by the event task        *)
(* without it.                                                             *)
(***************************************************************************)
EXTENDS Integers, Sequences

CONSTANTS
  EnableIPv6,    \* StationConfig::enableIPv6
  MaxFailures,   \* bound: calls of the system that fail
  MaxDrops       \* bound: lost associations with the access point

ASSUME StationAssumption ==
  EnableIPv6 \in BOOLEAN /\ MaxFailures \in Nat /\ MaxDrops \in Nat

VARIABLES
  stationCall,   \* the call the constructor is at, 0 before it
  wifiPromise,   \* m_connectingPromise is set
  initialized,   \* m_initialized
  link,          \* "off", "connecting" or "up"
  addresses,     \* the address events of this association that are to come
  hadAddress,    \* history: some address was assigned
  failures, drops   \* the counters behind the bounds

stationVars == <<stationCall, wifiPromise, initialized, link, addresses, hadAddress>>
bounds == <<failures, drops>>

\* What the constructor calls, in this order. Any of the calls may fail, which
\* throws and leaves what was set up before.
StationCalls ==
  <<"eventLoop", "nvs", "netIf", "wifiHandler", "ipHandler", "init", "storage", "mode",
    "config", "start", "power", "address", "sntpInit", "sntpSync">>

StationAt(call) == stationCall > 0 /\ StationCalls[stationCall] = call

StationTypeOK ==
  /\ stationCall \in 0..Len(StationCalls)
  /\ wifiPromise \in BOOLEAN /\ initialized \in BOOLEAN /\ hadAddress \in BOOLEAN
  /\ link \in {"off", "connecting", "up"}
  /\ addresses \subseteq {"IPv4", "IPv6"}
  /\ failures \in 0..MaxFailures /\ drops \in 0..MaxDrops

StationInit ==
  /\ stationCall = 0 /\ wifiPromise = FALSE /\ initialized = FALSE
  /\ link = "off" /\ addresses = {} /\ hadAddress = FALSE
  /\ failures = 0 /\ drops = 0

Fail == failures < MaxFailures /\ failures' = failures + 1
------------------------------------------------------------------------------
(* The constructor *)

StationBegins ==
  /\ stationCall = 0
  /\ stationCall' = 1
  /\ UNCHANGED <<wifiPromise, initialized, link, addresses, hadAddress, bounds>>

\* esp_wifi_start() makes the event task connect (WIFI_EVENT_STA_START).
StationCallSucceeds ==
  /\ stationCall \in 1..Len(StationCalls) - 1 /\ ~StationAt("address")
  /\ stationCall' = stationCall + 1
  /\ link' = IF StationAt("start") THEN "connecting" ELSE link
  /\ UNCHANGED <<wifiPromise, initialized, addresses, hadAddress, bounds>>

StationCallFails ==
  /\ stationCall > 0 /\ ~StationAt("address")
  /\ Fail
  /\ UNCHANGED <<stationVars, drops>>

\* Mutant: the constructor goes on when the time is up.
GetsAddress_OrNot ==
  /\ StationAt("address")
  /\ stationCall' = stationCall + 1
  /\ UNCHANGED <<wifiPromise, initialized, link, addresses, hadAddress, bounds>>

GetsAddress ==
  /\ StationAt("address") /\ wifiPromise
  /\ stationCall' = stationCall + 1
  /\ UNCHANGED <<wifiPromise, initialized, link, addresses, hadAddress, bounds>>

\* The constructor unlocks m_mutex, and so does its scoped_lock after it: what
\* the second unlock does is up to the system.
AddressTimeout ==
  /\ StationAt("address") /\ ~wifiPromise
  /\ UNCHANGED <<stationVars, bounds>>

StationReady ==
  /\ StationAt("sntpSync")
  /\ initialized' = TRUE
  /\ UNCHANGED <<stationCall, wifiPromise, link, addresses, hadAddress, bounds>>
------------------------------------------------------------------------------
(* The event task *)

\* WIFI_EVENT_STA_CONNECTED: with IPv6, a link-local address is created.
Associated ==
  /\ link = "connecting"
  /\ link' = "up"
  /\ addresses' = IF EnableIPv6 THEN {"IPv4", "IPv6"} ELSE {"IPv4"}
  /\ UNCHANGED <<stationCall, wifiPromise, initialized, hadAddress, bounds>>

\* Its creation is refused: the exception has nobody to catch it.
LinkLocalRefused ==
  /\ link = "connecting" /\ EnableIPv6
  /\ Fail
  /\ UNCHANGED <<stationVars, drops>>

\* WIFI_EVENT_STA_DISCONNECTED: the station connects again.
Disassociated ==
  /\ link = "up" /\ drops < MaxDrops
  /\ link' = "connecting" /\ addresses' = {}
  /\ drops' = drops + 1
  /\ UNCHANGED <<stationCall, wifiPromise, initialized, hadAddress, failures>>

\* The promise has its value already, and the station is not initialized yet:
\* set_value() throws in the event task.
AddressTwice ==
  /\ addresses # {} /\ ~initialized /\ wifiPromise
  /\ UNCHANGED <<stationVars, bounds>>

\* IP_EVENT_STA_GOT_IP, or IP_EVENT_GOT_IP6 with a global address.
GotAddress(address) ==
  /\ address \in addresses /\ (initialized \/ ~wifiPromise)
  /\ addresses' = addresses \ {address}
  /\ hadAddress' = TRUE
  /\ IF initialized THEN UNCHANGED wifiPromise ELSE wifiPromise' = TRUE
  /\ UNCHANGED <<stationCall, initialized, link, bounds>>
==============================================================================
