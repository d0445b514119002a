------------------------------- MODULE MqttLink -------------------------------
(***************************************************************************)
(* The MQTT far layer while it comes up and while it loses and regains its *)
(* connection: src/common/mqtt.cpp and the adapters below it. The library  *)
(* (Paho on Linux, esp-mqtt on ESP) has one thread that runs callbacks     *)
(* one after the other; the layer's constructor runs in the main thread.   *)
(* Subscribing is that of Bridge, and of the threads of BridgeProcess.     *)
(***************************************************************************)
EXTENDS Integers

CONSTANTS MaxReconnects   \* bound: connections the library makes
ASSUME ReconnectAssumption == MaxReconnects \in Nat \ {0}

VARIABLES
  session,       \* "none", "connecting", "up", "lost", or "failed" for good
  connects,      \* how often the session came up
  receiver,      \* the library's thread: "idle", "connected" to report, "resubscribe"
  connectedCb,   \* the adapter's callback: "none", "live", "dead" with its layer gone
  mqttPromise,   \* m_connectingPromise is set
  initializing   \* m_initializing

mqttVars == <<session, connects, receiver, connectedCb, mqttPromise, initializing>>

MqttTypeOK ==
  /\ session \in {"none", "connecting", "up", "lost", "failed"}
  /\ connects \in 0..MaxReconnects
  /\ receiver \in {"idle", "connected", "resubscribe"}
  /\ connectedCb \in {"none", "live", "dead"}
  /\ mqttPromise \in BOOLEAN /\ initializing \in BOOLEAN

MqttInit ==
  /\ session = "none" /\ connects = 0 /\ receiver = "idle"
  /\ connectedCb = "none" /\ mqttPromise = FALSE /\ initializing = TRUE
------------------------------------------------------------------------------
(* The main thread: the adapter connects before the layer has its callback. *)

AdapterConnects ==
  /\ session = "none"
  /\ session' = "connecting"
  /\ UNCHANGED <<connects, receiver, connectedCb, mqttPromise, initializing>>

SetConnectedCb ==
  /\ connectedCb = "none"
  /\ connectedCb' = "live" /\ initializing' = TRUE
  /\ UNCHANGED <<session, connects, receiver, mqttPromise>>

\* Mutant: the layer stays in its first phase.
Connected_StillInitializing ==
  /\ connectedCb = "live" /\ initializing /\ mqttPromise
  /\ UNCHANGED mqttVars

Connected ==
  /\ connectedCb = "live" /\ initializing /\ mqttPromise
  /\ initializing' = FALSE
  /\ UNCHANGED <<session, connects, receiver, connectedCb, mqttPromise>>

\* The layer goes, by the exception or its destructor, and the adapter keeps
\* the callback.
LayerGone ==
  /\ connectedCb' = "dead"
  /\ UNCHANGED <<session, connects, receiver, mqttPromise, initializing>>

ConnectTimeout ==
  /\ connectedCb = "live" /\ initializing /\ ~mqttPromise
  /\ LayerGone

\* The library's handle is destroyed with its thread.
AdapterGone ==
  /\ session' = "none" /\ receiver' = "idle" /\ connectedCb' = "none"
  /\ UNCHANGED <<connects, mqttPromise, initializing>>
------------------------------------------------------------------------------
(* The library's thread *)

Connects ==
  /\ session \in {"connecting", "lost"} /\ receiver = "idle"
  /\ connects < MaxReconnects /\ connects' = connects + 1
  /\ session' = "up" /\ receiver' = "connected"
  /\ UNCHANGED <<connectedCb, mqttPromise, initializing>>

\* Paho does not repeat a first connection that failed, esp-mqtt does.
ConnectFails ==
  /\ session = "connecting" /\ receiver = "idle"
  /\ session' = "failed"
  /\ UNCHANGED <<connects, receiver, connectedCb, mqttPromise, initializing>>

ConnectionLost ==
  /\ session = "up" /\ session' = "lost"
  /\ UNCHANGED <<connects, receiver, connectedCb, mqttPromise, initializing>>

\* Nobody listens yet: the report of the connection is gone.
ReportMissed ==
  /\ receiver = "connected" /\ connectedCb = "none"
  /\ receiver' = "idle"
  /\ UNCHANGED <<session, connects, connectedCb, mqttPromise, initializing>>

ReportFirst ==
  /\ receiver = "connected" /\ connectedCb = "live" /\ initializing /\ ~mqttPromise
  /\ mqttPromise' = TRUE /\ receiver' = "idle"
  /\ UNCHANGED <<session, connects, connectedCb, initializing>>

\* A second connection before the constructor has gone on, or a report to a
\* layer that is gone: set_value() throws, or the callback is not there.
ReportFaults ==
  /\ receiver = "connected"
  /\ \/ connectedCb = "dead"
     \/ connectedCb = "live" /\ initializing /\ mqttPromise
  /\ UNCHANGED mqttVars

\* A reconnection: the node, if there is one, resubscribes.
ReportAgain(node) ==
  /\ receiver = "connected" /\ connectedCb = "live" /\ ~initializing
  /\ receiver' = IF node THEN "resubscribe" ELSE "idle"
  /\ UNCHANGED <<session, connects, connectedCb, mqttPromise, initializing>>

Resubscribed ==
  /\ receiver = "resubscribe" /\ receiver' = "idle"
  /\ UNCHANGED <<session, connects, connectedCb, mqttPromise, initializing>>
==============================================================================
