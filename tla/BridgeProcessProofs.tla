------------------------- MODULE BridgeProcessProofs -------------------------
(***************************************************************************)
(* The threads of a bridge end with the objects that own them, and a       *)
(* bridge that runs has its address and its connection: for every number   *)
(* of failures, reconnections and messages, and both platforms.            *)
(***************************************************************************)
EXTENDS BridgeProcess, TLAPS

\* The types that the other parts need.
TypeInv ==
  /\ platform \in {"linux", "espidf"} /\ far \in {"none", "mqtt", "broker"}
  /\ built \in Nat /\ stationCall \in 0..14 /\ connects \in Nat /\ failures \in Nat
  /\ thread \in [Threads -> ThreadStates]

\* The place of the far layer among the objects of a bridge with MQTT.
FlAt == IF platform = "espidf" THEN 5 ELSE 4

\* Where the main thread is, and how far it has come.
PhaseInv ==
  /\ platform = "espidf" => far = "mqtt"
  /\ mainPc = "config" => platform = "linux" /\ far = "none" /\ built = 0 /\ handler = "none"
  /\ mainPc \in {"running", "waiting"} => built = Len(Objects)
  /\ mainPc \in {"build", "running", "waiting"} /\ built > 0 /\ built = Len(Objects) =>
       members /\ llNode /\ flNode

\* Threads and their owners.
OwnerInv ==
  /\ thread["timer"] # "none" => members
  /\ platform = "linux" /\ handler = "poll" => built >= 1

\* What the constructor of the station has waited for.
StationInv ==
  /\ wifiPromise => hadAddress
  /\ stationCall > 12 => hadAddress
  /\ platform = "espidf" /\ built >= 1 => initialized /\ hadAddress /\ stationCall = 14
  /\ platform = "linux" => stationCall = 0 /\ link = "off" /\ addresses = {}

\* What the constructor of the MQTT layer has waited for.
LinkInv ==
  /\ receiver = "connected" => connects > 0
  /\ mqttPromise => connects > 0
  /\ far = "mqtt" /\ built >= FlAt /\ mainPc \in {"build", "running", "waiting"} =>
       connectedCb = "live" /\ ~initializing /\ connects > 0
  /\ far # "mqtt" => connectedCb = "none"

IInv == TypeInv /\ PhaseInv /\ OwnerInv /\ StationInv /\ LinkInv
------------------------------------------------------------------------------
\* The order in which the objects of each kind of bridge are built.
LEMMA Order ==
  ASSUME platform \in {"linux", "espidf"}, platform = "espidf" => far = "mqtt"
  PROVE  /\ platform = "linux" => Objects[1] = "llAdapter"
         /\ platform = "linux" /\ far # "broker" => Len(Objects) = 5 /\ Objects[4] = "fl"
              /\ Objects[2] = "ll" /\ Objects[3] = "flAdapter" /\ Objects[5] = "br"
         /\ platform = "linux" /\ far = "broker" => Len(Objects) = 4 /\ Objects[3] = "fl"
              /\ Objects[2] = "ll" /\ Objects[4] = "br"
         /\ platform = "espidf" => Len(Objects) = 6 /\ Objects[1] = "wifi"
              /\ Objects[2] = "llAdapter" /\ Objects[3] = "ll" /\ Objects[4] = "flAdapter"
              /\ Objects[5] = "fl" /\ Objects[6] = "br"
         /\ Len(Objects) \in {4, 5, 6} /\ Objects[Len(Objects)] = "br"
<1>1. CASE platform = "espidf"
  <2>1. Objects = <<"wifi", "llAdapter", "ll", "flAdapter", "fl", "br">>
    BY <1>1 DEF Objects
  <2> QED BY <1>1, <2>1
<1>2. CASE platform = "linux" /\ far = "broker"
  <2>1. Objects = <<"llAdapter", "ll", "fl", "br">>
    BY <1>2 DEF Objects
  <2> QED BY <1>2, <2>1
<1>3. CASE platform = "linux" /\ far # "broker"
  <2>1. Objects = <<"llAdapter", "ll", "flAdapter", "fl", "br">>
    BY <1>3 DEF Objects
  <2> QED BY <1>3, <2>1
<1> QED BY <1>1, <1>2, <1>3

\* The station's calls: the address is the twelfth of fourteen.
LEMMA Calls ==
  ASSUME stationCall \in 0..14
  PROVE  /\ Len(StationCalls) = 14
         /\ StationAt("address") <=> stationCall = 12
         /\ StationAt("sntpSync") <=> stationCall = 14
<1>1. Len(StationCalls) = 14
  BY DEF StationCalls
<1>2. StationAt("address") <=> stationCall = 12
  BY DEF StationCalls, StationAt
<1>3. StationAt("sntpSync") <=> stationCall = 14
  BY DEF StationCalls, StationAt
<1> QED BY <1>1, <1>2, <1>3

\* Every bridge starts in the invariant.
LEMMA InitInv == Init => IInv
<1> SUFFICES ASSUME Init PROVE IInv
  OBVIOUS
<1>1. platform \in {"linux", "espidf"} /\ (platform = "espidf" => far = "mqtt")
  BY ProcessAssumption DEF Init
<1>2. TypeInv
  BY <1>1 DEF Init, StationInit, MqttInit, TypeInv, Threads, ThreadStates
<1>3. PhaseInv
  BY <1>1 DEF Init, PhaseInv
<1>4. OwnerInv
  BY DEF Init, OwnerInv, Threads
<1>5. StationInv
  BY DEF Init, StationInit, StationInv
<1>6. LinkInv
  BY <1>1 DEF Init, MqttInit, LinkInv, FlAt
<1> QED BY <1>2, <1>3, <1>4, <1>5, <1>6 DEF IInv
------------------------------------------------------------------------------
\* Everything the invariant speaks of but the threads, the library and the station.
mainParts == <<platform, far, mainPc, built, handler, members, llNode, flNode>>

\* A step that leaves the main thread and the threads' owners alone keeps the phases.
LEMMA PhaseKept ==
  ASSUME PhaseInv, UNCHANGED mainParts
  PROVE  PhaseInv'
BY DEF PhaseInv, mainParts, Objects

\* The threads' calls keep the invariant: none of them starts the timer.
LEMMA CallInv ==
  ASSUME IInv, UNCHANGED <<processVars, layerVars>>,
         thread' \in [Threads -> ThreadStates],
         thread'["timer"] # "none" => thread["timer"] # "none"
  PROVE  IInv'
<1> USE DEF IInv
<1>1. UNCHANGED mainParts
  BY DEF processVars, mainVars, threadCtl, bridgeVars, mainParts
<1>2. TypeInv'
  BY DEF TypeInv, processVars, mainVars, layerVars, stationVars, mqttVars, bounds
<1>3. OwnerInv'
  BY <1>1 DEF OwnerInv, mainParts
<1>4. StationInv'
  BY <1>1 DEF StationInv, mainParts, layerVars, stationVars
<1>5. LinkInv'
  BY <1>1 DEF LinkInv, FlAt, mainParts, layerVars, mqttVars
<1> QED BY <1>1, <1>2, <1>3, <1>4, <1>5, PhaseKept
------------------------------------------------------------------------------
\* A step of the main thread keeps the invariant.
LEMMA MainInv == IInv /\ Main => IInv'
<1> SUFFICES ASSUME IInv, Main PROVE IInv'
  OBVIOUS
<1> USE DEF IInv, TypeInv, PhaseInv, OwnerInv, StationInv, LinkInv, FlAt,
        stationVars, bounds, mqttVars, layerVars, mainVars, threadCtl, bridgeVars, callVars
<1>1. platform' = platform /\ (far' = far => Objects' = Objects)
  BY DEF Main, Objects
<1>2. CASE ReadConfig
  BY <1>1, <1>2 DEF ReadConfig
<1>3. CASE ConfigRejected
  BY <1>1, <1>3 DEF ConfigRejected
<1>4. CASE BuildWifi
  <2> USE DEF BuildWifi, Finished
  <2>1. platform = "espidf" /\ built = 0
    BY <1>4, Order DEF Building
  <2>2. CASE StationBegins /\ UNCHANGED mainVars
    BY <1>1, <1>4, <2>1, <2>2 DEF StationBegins
  <2>3. CASE StationCallSucceeds /\ UNCHANGED mainVars
    <3>1. Len(StationCalls) = 14 /\ (StationAt("address") <=> stationCall = 12)
      BY Calls
    <3>2. stationCall \in 1..13 /\ stationCall # 12 /\ stationCall' = stationCall + 1
      BY <2>3, <3>1 DEF StationCallSucceeds
    <3>3. UNCHANGED <<wifiPromise, initialized, hadAddress, failures>>
      BY <2>3 DEF StationCallSucceeds
    <3>4. UNCHANGED <<platform, far, mainPc, built, handler, thread, bridgeVars, mqttVars>>
      BY <1>1, <1>4, <2>3
    <3> QED BY <1>1, <2>1, <3>2, <3>3, <3>4
  <2>4. CASE GetsAddress /\ UNCHANGED mainVars
    BY <1>1, <1>4, <2>1, <2>4, Calls DEF GetsAddress
  <2>5. CASE StationReady /\ Finished
    BY <1>1, <1>4, <2>5, Order, Calls DEF StationReady, Building
  <2> QED BY <1>4, <2>2, <2>3, <2>4, <2>5
<1>5. CASE BuildLlAdapter
  BY <1>1, <1>5, Order DEF BuildLlAdapter, Building, Finished
<1>6. CASE BuildLl
  BY <1>1, <1>6, Order DEF BuildLl, Building, Finished
<1>7. CASE BuildFlAdapter
  BY <1>1, <1>7, Order DEF BuildFlAdapter, Building, Finished, AdapterConnects
<1>8. CASE BuildFl
  <2> USE DEF BuildFl, Building, Finished
  <2>1. CASE far = "broker" /\ Finished /\ UNCHANGED mqttVars
    BY <1>1, <1>8, <2>1, Order
  <2>2. CASE SetConnectedCb /\ UNCHANGED mainVars
    BY <1>1, <1>8, <2>2, Order DEF SetConnectedCb
  <2>3. CASE Connected /\ Finished
    BY <1>1, <1>8, <2>3, Order DEF Connected
  <2> QED BY <1>8, <2>1, <2>2, <2>3
<1>9. CASE BuildBridge
  <2>1. CASE UNCHANGED <<members, run, thread, mainVars>>
    BY <1>1, <1>9, <2>1 DEF BuildBridge
  <2>2. CASE /\ members' = TRUE /\ llNode /\ flNode /\ UNCHANGED <<llNode, flNode>>
             /\ thread' = [thread EXCEPT !["timer"] = "idle"]
             /\ Finished
    <3>1. thread' \in [Threads -> ThreadStates]
      BY <2>2 DEF ThreadStates
    <3>2. far' = far /\ mainPc' = mainPc /\ built' = built + 1 /\ mainPc = "build"
      BY <1>9, <2>2 DEF BuildBridge, Building, Finished
    <3>3. UNCHANGED <<handler, layerVars>>
      BY <1>9 DEF BuildBridge
    <3>4. TypeInv' /\ PhaseInv' /\ OwnerInv'
      BY <1>1, <2>2, <3>1, <3>2, <3>3
    <3>5. far = "mqtt" /\ built' >= FlAt => built >= FlAt
      BY <1>9, <3>2, Order DEF BuildBridge, Building
    <3>6. StationInv'
      BY <1>1, <1>9, <3>2, <3>3, Order DEF BuildBridge, Building
    <3>7. LinkInv'
      BY <1>1, <3>2, <3>3, <3>5
    <3> QED BY <3>4, <3>6, <3>7
  <2> QED BY <1>9, <2>1, <2>2 DEF BuildBridge
<1>10. CASE ConstructorThrows
  <2>1. /\ mainPc' = "unwind" /\ UNCHANGED <<far, built, threadCtl, bridgeVars, thread, stationVars>>
        /\ failures' \in Nat /\ mainPc = "build"
    BY <1>10 DEF ConstructorThrows, Building, Fail
  <2>2. /\ UNCHANGED <<receiver, connects, mqttPromise>>
        /\ connectedCb' = "none" \/ far = "mqtt"
    BY <1>10 DEF ConstructorThrows, ConnectTimeout, LayerGone
  <2>3. TypeInv' /\ PhaseInv' /\ OwnerInv'
    BY <1>1, <2>1, <2>2
  <2>4. StationInv'
    BY <1>1, <2>1
  <2>5. LinkInv'
    BY <1>1, <2>1, <2>2
  <2> QED BY <2>3, <2>4, <2>5
<1>11. CASE AllBuilt
  BY <1>1, <1>11 DEF AllBuilt
<1>12. CASE ChecksFatal
  BY <1>1, <1>12 DEF ChecksFatal
<1>13. CASE Waits
  BY <1>1, <1>13 DEF Waits
<1>14. CASE StopTimer
  BY <1>1, <1>14, Order DEF StopTimer, Destroying
<1>15. CASE JoinTimer
  BY <1>1, <1>15, Order DEF JoinTimer, Destroying, Gone
<1>16. CASE DestroyFl
  BY <1>1, <1>16, Order DEF DestroyFl, Destroying, Gone, LayerGone
<1>17. CASE DestroyFlAdapter
  BY <1>1, <1>17, Order DEF DestroyFlAdapter, Destroying, Gone, AdapterGone
<1>18. CASE DestroyLl
  BY <1>1, <1>18, Order DEF DestroyLl, Destroying, Gone
<1>19. CASE StopHandler
  BY <1>1, <1>19, Order DEF StopHandler, Destroying
<1>20. CASE JoinHandler
  BY <1>1, <1>20, Order DEF JoinHandler, Destroying, Gone
<1>21. CASE Exits
  BY <1>1, <1>21 DEF Exits
<1> QED BY <1>2, <1>3, <1>4, <1>5, <1>6, <1>7, <1>8, <1>9, <1>10, <1>11, <1>12, <1>13,
   <1>14, <1>15, <1>16, <1>17, <1>18, <1>19, <1>20, <1>21 DEF Main
------------------------------------------------------------------------------
\* A call of the threads keeps the invariant.
LEMMA RunsInv ==
  ASSUME IInv, NEW th \in Threads, Runs(th)
  PROVE  IInv'
<1> USE DEF IInv, TypeInv
<1>1. UNCHANGED <<processVars, layerVars>>
  BY DEF Runs, Call
<1>2. /\ thread' \in [Threads -> ThreadStates]
      /\ thread'["timer"] # "none" => thread["timer"] # "none"
  <2>1. CASE th = "timer" /\ (TimerFires \/ TimerEnds)
    BY <2>1 DEF TimerFires, TimerEnds, Moves, Threads, ThreadStates
  <2>2. CASE th = "recv" /\ RecvRuns
    BY <2>2 DEF RecvRuns, Moves, Threads, ThreadStates
  <2>3. CASE th = "data" /\ DataRuns
    BY <2>3 DEF DataRuns, Moves, Threads, ThreadStates
  <2>4. CASE Lock(th)
    BY <2>4 DEF Lock, Threads, ThreadStates
  <2>5. CASE FarCall(th)
    BY <2>5 DEF FarCall, Moves, Threads, ThreadStates
  <2>6. CASE Unlock(th)
    BY <2>6 DEF Unlock, Threads, ThreadStates
  <2> QED BY <2>1, <2>2, <2>3, <2>4, <2>5, <2>6 DEF Runs, Call
<1> QED BY <1>1, <1>2, CallInv

\* A message that arrives keeps the invariant.
LEMMA ArrivesInv == IInv /\ Call(FrameArrives \/ DataArrives) => IInv'
<1> SUFFICES ASSUME IInv, Call(FrameArrives \/ DataArrives) PROVE IInv'
  OBVIOUS
<1>1. UNCHANGED <<processVars, layerVars>>
  BY DEF Call
<1>2. /\ thread' \in [Threads -> ThreadStates]
      /\ thread'["timer"] # "none" => thread["timer"] # "none"
  BY DEF Call, FrameArrives, DataArrives, Spawn, Threads, ThreadStates, IInv, TypeInv
<1> QED BY <1>1, <1>2, CallInv

\* The capture thread, and the world around it, keep the invariant.
LEMMA HandlerInv == IInv /\ (Handler \/ World) => IInv'
<1> SUFFICES ASSUME IInv, Handler \/ World PROVE IInv'
  OBVIOUS
<1>1. /\ UNCHANGED <<platform, mainVars, bridgeVars, thread, layerVars>>
      /\ handler = "poll" \/ handler' = handler
      /\ handler' \in {handler, "ended"}
  <2>1. CASE Handler
    BY <2>1 DEF Handler, HandlerFails, HandlerStops, bridgeVars, callVars
  <2>2. CASE World
    BY <2>2 DEF World, threadCtl, bridgeVars, callVars
  <2> QED BY <2>1, <2>2
<1>2. Objects' = Objects
  BY <1>1 DEF Objects, mainVars
<1>3. TypeInv'
  BY <1>1 DEF IInv, TypeInv, mainVars, layerVars, stationVars, mqttVars, bounds
<1>4. PhaseInv'
  BY <1>1, <1>2 DEF IInv, PhaseInv, mainVars, bridgeVars
<1>5. OwnerInv'
  BY <1>1 DEF IInv, OwnerInv, mainVars, bridgeVars
<1>6. StationInv'
  BY <1>1 DEF IInv, StationInv, mainVars, layerVars, stationVars
<1>7. LinkInv'
  BY <1>1 DEF IInv, LinkInv, FlAt, mainVars, layerVars, mqttVars
<1> QED BY <1>3, <1>4, <1>5, <1>6, <1>7 DEF IInv

\* The library's thread reports connections, and its report of one follows one.
LEMMA LibraryInv == IInv /\ Library => IInv'
<1> SUFFICES ASSUME IInv, Library PROVE IInv'
  OBVIOUS
<1>1. UNCHANGED <<mainParts, thread, stationVars, bounds>>
  BY DEF Library, processVars, mainVars, threadCtl, bridgeVars, callVars, mainParts
<1>2. TypeInv' /\ OwnerInv' /\ StationInv'
  <2>1. connects' = connects
    BY DEF Library, ReportMissed, ReportFirst, ReportAgain, Resubscribes, Resubscribed
  <2> QED BY <1>1, <2>1 DEF IInv, TypeInv, OwnerInv, StationInv, mainParts, stationVars, bounds
<1>3. LinkInv'
  <2>1. UNCHANGED <<platform, far, mainPc, built>>
    BY <1>1 DEF mainParts
  <2>2. UNCHANGED <<connects, connectedCb, initializing>> /\ receiver' # "connected"
    BY DEF Library, ReportMissed, ReportFirst, ReportAgain, Resubscribes, Resubscribed
  <2>3. mqttPromise' => mqttPromise \/ receiver = "connected"
    BY DEF Library, ReportMissed, ReportFirst, ReportAgain, Resubscribes, Resubscribed
  <2> QED BY <2>1, <2>2, <2>3 DEF IInv, LinkInv, FlAt
<1> QED BY <1>1, <1>2, <1>3, PhaseKept DEF IInv

\* The network makes, loses and refuses connections and associations.
LEMMA NetworkInv == IInv /\ Network => IInv'
<1> SUFFICES ASSUME IInv, Network PROVE IInv'
  OBVIOUS
<1>1. UNCHANGED <<mainParts, thread>>
  BY DEF Network, processVars, mainVars, threadCtl, bridgeVars, callVars, mainParts
<1>2. StationInv' /\ UNCHANGED <<stationCall, failures>>
  <2>1. /\ UNCHANGED <<stationCall, initialized, failures>> /\ (hadAddress => hadAddress')
        /\ wifiPromise' => wifiPromise \/ hadAddress'
    BY DEF Network, Associated, Disassociated, GotAddress, stationVars, bounds
  <2>2. link = "off" /\ addresses = {} => link' = "off" /\ addresses' = {}
    BY DEF Network, Associated, Disassociated, GotAddress, stationVars
  <2>3. UNCHANGED <<platform, built>>
    BY <1>1 DEF mainParts
  <2> QED BY <2>1, <2>2, <2>3 DEF IInv, StationInv
<1>3. LinkInv' /\ connects' \in Nat
  <2>1. /\ UNCHANGED <<connectedCb, initializing, mqttPromise>>
        /\ connects' \in {connects, connects + 1}
        /\ (receiver' = "connected" => receiver = "connected" \/ connects' = connects + 1)
    BY DEF Network, Connects, ConnectFails, ConnectionLost, mqttVars
  <2>2. UNCHANGED <<platform, far, mainPc, built>>
    BY <1>1 DEF mainParts
  <2> QED BY <2>1, <2>2 DEF IInv, TypeInv, LinkInv, FlAt
<1>4. TypeInv' /\ OwnerInv'
  BY <1>1, <1>2, <1>3 DEF IInv, TypeInv, OwnerInv, mainParts
<1> QED BY <1>1, <1>2, <1>3, <1>4, PhaseKept DEF IInv

\* The steps that end the program leave all of it but one callback as it was.
LEMMA AbortsInv == IInv /\ Aborts => IInv'
<1> SUFFICES ASSUME IInv, Aborts PROVE IInv'
  OBVIOUS
<1>1. UNCHANGED <<mainParts, thread>>
  BY DEF Aborts, mainVars, threadCtl, bridgeVars, callVars, mainParts
<1>2. UNCHANGED stationVars
  BY DEF Aborts, layerVars, LinkLocalRefused, AddressTwice, AddressTimeout, StationCallFails,
         ConstructorAborts, stationVars
<1>3. UNCHANGED <<platform, far, mainPc, built>> /\ failures' \in Nat
  BY <1>1 DEF mainParts, Aborts, Fail, LinkLocalRefused, AddressTwice, AddressTimeout,
     StationCallFails, ConstructorAborts, ReportFaults, layerVars, bounds, IInv, TypeInv
<1>4. CASE UNCHANGED mqttVars
  BY <1>1, <1>2, <1>3, <1>4, PhaseKept
  DEF IInv, TypeInv, OwnerInv, StationInv, LinkInv, FlAt, mainParts, stationVars, mqttVars
<1>5. CASE platform = "espidf" /\ Building("fl") /\ ConnectTimeout
  <2>1. built < FlAt
    <3>1. Objects[6] = "br" /\ Len(Objects) = 6
      BY <1>5, Order DEF IInv, TypeInv, PhaseInv
    <3>2. built \in 0..5 /\ Objects[built + 1] = "fl"
      BY <1>5, <3>1 DEF Building, IInv, TypeInv
    <3> QED BY <1>5, <3>1, <3>2 DEF FlAt
  <2>2. LinkInv' /\ connects' = connects
    BY <1>3, <1>5, <2>1 DEF ConnectTimeout, LayerGone, LinkInv, IInv, TypeInv, FlAt
  <2> QED
    BY <1>1, <1>2, <1>3, <2>2, PhaseKept DEF IInv, TypeInv, OwnerInv, StationInv, mainParts, stationVars
<1> QED
  BY <1>4, <1>5 DEF Aborts, ReportFaults, ConstructorAborts, layerVars, mqttVars

\* Every step keeps the invariant.
LEMMA NextInv == IInv /\ [Next]_vars => IInv'
<1> SUFFICES ASSUME IInv, [Next]_vars PROVE IInv'
  OBVIOUS
<1>1. CASE UNCHANGED vars
  <2>1. UNCHANGED <<processVars, layerVars, thread>>
    BY <1>1 DEF vars, callVars
  <2> QED BY <2>1, CallInv DEF IInv, TypeInv
<1> QED
  BY <1>1, MainInv, HandlerInv, LibraryInv, NetworkInv, AbortsInv, RunsInv, ArrivesInv DEF Next

\* The threads that an object owns end before the object does, and a bridge that
\* runs is connected: the invariant says so.
LEMMA InvImplies == IInv => NoOrphanThreads /\ StartedConnected
<1> SUFFICES ASSUME IInv PROVE NoOrphanThreads /\ StartedConnected
  OBVIOUS
<1> USE DEF IInv, TypeInv, PhaseInv
<1>1. platform = "linux" /\ handler = "poll" => Alive("llAdapter")
  <2> SUFFICES ASSUME platform = "linux", handler = "poll" PROVE Alive("llAdapter")
    OBVIOUS
  <2>1. 1 \in 1..built
    BY DEF OwnerInv
  <2> QED BY <2>1, Order DEF Alive
<1>2. NoOrphanThreads
  BY <1>1 DEF NoOrphanThreads, OwnerInv
<1>3. mainPc \in {"running", "waiting"} => built >= 1 /\ (far = "mqtt" => built >= FlAt)
  BY Order DEF FlAt
<1>4. StartedConnected
  BY <1>3 DEF StartedConnected, StationInv, LinkInv
<1> QED BY <1>2, <1>4

\* A bridge that runs has all its objects, and they know each other.
LEMMA Running ==
  ASSUME IInv, mainPc \in {"running", "waiting"}
  PROVE  /\ members /\ llNode /\ flNode /\ Alive("ll") /\ Alive("fl")
         /\ platform = "espidf" => initialized /\ stationCall = 14
         /\ connectedCb # "dead" /\ (connectedCb = "live" => ~initializing)
<1> USE DEF IInv, TypeInv, PhaseInv
<1>1. built = Len(Objects) /\ built >= 4 /\ members /\ llNode /\ flNode
  BY Order
<1>2. Alive("ll") /\ Alive("fl")
  <2>1. CASE platform = "espidf"
    <3>1. built = 6 /\ Objects[3] = "ll" /\ Objects[5] = "fl"
      BY <1>1, <2>1, Order
    <3> QED BY <3>1 DEF Alive
  <2>2. CASE platform = "linux" /\ far = "broker"
    <3>1. built = 4 /\ Objects[2] = "ll" /\ Objects[3] = "fl"
      BY <1>1, <2>2, Order
    <3> QED BY <3>1 DEF Alive
  <2>3. CASE platform = "linux" /\ far # "broker"
    <3>1. built = 5 /\ Objects[2] = "ll" /\ Objects[4] = "fl"
      BY <1>1, <2>3, Order
    <3> QED BY <3>1 DEF Alive
  <2> QED BY <2>1, <2>2, <2>3
<1>3. platform = "espidf" => initialized /\ stationCall = 14
  BY <1>1 DEF StationInv
<1>4. connectedCb # "dead" /\ (connectedCb = "live" => ~initializing)
  <2>1. CASE far = "mqtt"
    <3>1. built >= FlAt
      BY <1>1, <2>1, Order DEF FlAt
    <3> QED BY <2>1, <3>1 DEF LinkInv
  <2>2. CASE far # "mqtt"
    BY <2>2 DEF LinkInv
  <2> QED BY <2>1, <2>2
<1> QED BY <1>1, <1>2, <1>3, <1>4

\* The program of a bridge that runs ends only with its interface gone or by a
\* call of the system that fails: one case for each way it can end.
LEMMA RunningAborts ==
  ASSUME IInv, Aborts, mainPc \in {"running", "waiting"}, iface
  PROVE  failures' > failures
<1> USE Running
<1>1. failures \in Nat
  BY DEF IInv, TypeInv
<1>2. ~CallbackTooEarly
  BY DEF CallbackTooEarly, Building
<1>3. ~SendThrows
  BY DEF SendThrows
<1>4. ~ResubscribesTheDead
  BY DEF ResubscribesTheDead
<1>5. \A th \in Threads : ~CallsTheDead(th)
  BY DEF CallsTheDead
<1>6. ~ReportFaults
  BY DEF ReportFaults
<1>7. ~AddressTwice
  BY DEF AddressTwice, IInv, TypeInv, StationInv
<1>8. ~AddressTimeout
  <2>1. stationCall \in {0, 14}
    BY DEF IInv, TypeInv, StationInv
  <2> QED BY <2>1, Calls DEF AddressTimeout, StationAt
<1>9. ~ConstructorAborts
  BY DEF ConstructorAborts, Building
<1>10. LinkLocalRefused \/ StationCallFails
  BY <1>2, <1>3, <1>4, <1>5, <1>6, <1>7, <1>8, <1>9 DEF Aborts
<1> QED BY <1>1, <1>10 DEF LinkLocalRefused, StationCallFails, Fail

\* No other step ends the program.
LEMMA OnlyAborts ==
  ASSUME [Next]_vars, aborted' # aborted
  PROVE  Aborts
BY DEF Next, vars, processVars, Main, Handler, Library, Network, World, Call, Runs

\* The invariant holds in every state of every bridge.
THEOREM Invariant == Spec => []IInv
BY InitInv, NextInv, PTL DEF Spec

\* The sub DB timer and the capture thread never outlive what they work on: ~Timer()
\* and ~Adapter() tell their thread and wait for it before anything is taken down.
THEOREM NoOrphan == Spec => []NoOrphanThreads
BY Invariant, InvImplies, PTL

\* A bridge that runs has had its address and its connection to the broker.
THEOREM StartsConnected == Spec => []StartedConnected
BY Invariant, InvImplies, PTL

\* While the bridge runs and has its interface, no connection lost or made again, no
\* address and no message ends the program; a call of the system that fails can.
THEOREM AbortsAtEdges == Spec => AbortsOnlyAtEdges
<1>1. IInv /\ [Next]_vars =>
        [aborted' /\ ~aborted =>
           mainPc \notin {"running", "waiting"} \/ ~iface \/ failures' > failures]_vars
  BY RunningAborts, OnlyAborts
<1> QED BY <1>1, Invariant, PTL DEF Spec, AbortsOnlyAtEdges
------------------------------------------------------------------------------
(* The types *)

\* What a step does with the station.
StationStep ==
  \/ StationBegins \/ StationCallSucceeds \/ GetsAddress \/ StationReady
  \/ Associated \/ Disassociated \/ (\E address : GotAddress(address))
  \/ Fail /\ UNCHANGED <<stationVars, drops>>
  \/ UNCHANGED <<stationVars, bounds>>

\* What a step does with the MQTT layer.
LinkStep ==
  \/ AdapterConnects \/ SetConnectedCb \/ Connected \/ LayerGone \/ AdapterGone
  \/ Connects \/ ConnectFails \/ ConnectionLost
  \/ ReportMissed \/ ReportFirst \/ ReportAgain(flNode) \/ Resubscribed
  \/ UNCHANGED mqttVars

\* Every step of the process is one of these for each of the two.
LEMMA LayerSteps == [Next]_vars => StationStep /\ LinkStep
<1> SUFFICES ASSUME [Next]_vars PROVE StationStep /\ LinkStep
  OBVIOUS
<1> USE DEF StationStep, LinkStep
<1>1. CASE Main
  <2> USE DEF layerVars, bounds
  <2>1. CASE BuildWifi
    BY <2>1 DEF BuildWifi
  <2>2. CASE BuildFlAdapter
    BY <2>2 DEF BuildFlAdapter
  <2>3. CASE BuildFl
    BY <2>3 DEF BuildFl
  <2>4. CASE ConstructorThrows
    BY <2>4 DEF ConstructorThrows, ConnectTimeout
  <2>5. CASE DestroyFl \/ DestroyFlAdapter
    BY <2>5 DEF DestroyFl, DestroyFlAdapter
  <2>6. CASE \/ ReadConfig \/ ConfigRejected \/ BuildLlAdapter \/ BuildLl \/ BuildBridge
             \/ AllBuilt \/ ChecksFatal \/ Waits \/ StopTimer \/ JoinTimer \/ DestroyLl
             \/ StopHandler \/ JoinHandler \/ Exits
    <3>1. UNCHANGED layerVars
      BY <2>6 DEF ReadConfig, ConfigRejected, BuildLlAdapter, BuildLl, BuildBridge, AllBuilt,
         ChecksFatal, Waits, StopTimer, JoinTimer, DestroyLl, StopHandler, JoinHandler, Exits
    <3> QED BY <3>1
  <2> QED BY <1>1, <2>1, <2>2, <2>3, <2>4, <2>5, <2>6 DEF Main
<1>2. CASE Library
  BY <1>2 DEF Library, Resubscribes
<1>3. CASE Network
  BY <1>3 DEF Network
<1>4. CASE Aborts
  BY <1>4 DEF Aborts, ReportFaults, LinkLocalRefused, AddressTwice, AddressTimeout,
     StationCallFails, ConstructorAborts, ConnectTimeout, layerVars, bounds
<1>5. CASE UNCHANGED layerVars
  BY <1>5 DEF layerVars
<1> QED
  BY <1>1, <1>2, <1>3, <1>4, <1>5 DEF Next, Handler, World, Runs, Call, vars

\* The station keeps its types.
LEMMA StationType == StationTypeOK /\ StationStep => StationTypeOK'
<1> SUFFICES ASSUME StationTypeOK, StationStep PROVE StationTypeOK'
  OBVIOUS
<1> USE StationAssumption DEF StationTypeOK, stationVars, bounds
<1>1. Len(StationCalls) = 14 /\ stationCall \in 0..14 /\ (StationAt("address") <=> stationCall = 12)
  <2>1. Len(StationCalls) = 14
    BY DEF StationCalls
  <2> QED BY <2>1, Calls
<1>2. CASE StationBegins
  BY <1>1, <1>2 DEF StationBegins
<1>3. CASE StationCallSucceeds
  <2>1. stationCall' \in 0..14 /\ link' \in {"off", "connecting", "up"}
    BY <1>1, <1>3 DEF StationCallSucceeds
  <2> QED BY <1>1, <1>3, <2>1 DEF StationCallSucceeds
<1>4. CASE GetsAddress
  BY <1>1, <1>4 DEF GetsAddress
<1>5. CASE StationReady
  BY <1>5 DEF StationReady
<1>6. CASE Associated \/ Disassociated
  BY <1>6 DEF Associated, Disassociated
<1>7. CASE \E address : GotAddress(address)
  BY <1>7 DEF GotAddress
<1>8. CASE Fail /\ UNCHANGED <<stationVars, drops>>
  BY <1>8 DEF Fail
<1> QED BY <1>2, <1>3, <1>4, <1>5, <1>6, <1>7, <1>8 DEF StationStep

\* So does the MQTT layer.
LEMMA LinkType == MqttTypeOK /\ LinkStep => MqttTypeOK'
<1> SUFFICES ASSUME MqttTypeOK, LinkStep PROVE MqttTypeOK'
  OBVIOUS
<1> USE ReconnectAssumption DEF MqttTypeOK, mqttVars
<1>1. CASE AdapterConnects \/ SetConnectedCb \/ Connected \/ LayerGone \/ AdapterGone
  BY <1>1 DEF AdapterConnects, SetConnectedCb, Connected, LayerGone, AdapterGone
<1>2. CASE Connects \/ ConnectFails \/ ConnectionLost
  BY <1>2 DEF Connects, ConnectFails, ConnectionLost
<1>3. CASE ReportMissed \/ ReportFirst \/ ReportAgain(flNode) \/ Resubscribed
  BY <1>3 DEF ReportMissed, ReportFirst, ReportAgain, Resubscribed
<1> QED BY <1>1, <1>2, <1>3 DEF LinkStep

\* The types of the main thread and of the objects.
MainTypeOK ==
  /\ platform \in Platforms /\ far \in {"none", "mqtt", "broker"}
  /\ mainPc \in {"config", "build", "running", "waiting", "unwind", "exited"}
  /\ built \in 0..Len(Objects) /\ code \in {"none", "SUCCESS", "FAIL"}
  /\ handler \in {"none", "poll", "ended"}

FlagTypeOK ==
  /\ recvCb \in BOOLEAN /\ llNode \in BOOLEAN /\ flNode \in BOOLEAN
  /\ members \in BOOLEAN /\ run \in BOOLEAN /\ stopEvent \in BOOLEAN
  /\ iface \in BOOLEAN /\ fatal \in BOOLEAN /\ signal \in BOOLEAN /\ aborted \in BOOLEAN

ThreadTypeOK ==
  /\ thread \in [Threads -> ThreadStates] /\ tickStep \in 0..3
  /\ mutex \in Threads \cup {"none"} /\ calls \in 0..MaxCalls

\* How many objects there are is a number, also after a step.
LEMMA Count ==
  platform \in {"linux", "espidf"} /\ (platform = "espidf" => far = "mqtt") => Len(Objects) \in Nat
BY Order

\* The same for the next state.
LEMMA CountAfter ==
  (platform \in {"linux", "espidf"} /\ (platform = "espidf" => far = "mqtt") => Len(Objects) \in Nat)'
BY Count, PTL

\* The main thread builds no more than there is to build, and destroys no more
\* than there is.
LEMMA MainType == IInv /\ MainTypeOK /\ [Next]_vars => MainTypeOK'
<1> SUFFICES ASSUME IInv, MainTypeOK, [Next]_vars PROVE MainTypeOK'
  OBVIOUS
<1> USE DEF MainTypeOK
<1>1. CASE Main
  <2> USE DEF mainVars, threadCtl
  <2>1. platform' = platform /\ (far' = far => Objects' = Objects)
    BY <1>1 DEF Main, Objects
  <2>2. Len(Objects) \in Nat
    BY Order DEF IInv, TypeInv, PhaseInv
  <2>3. CASE Finished /\ mainPc = "build" /\ built < Len(Objects) /\ handler' \in {handler, "poll"}
    BY <2>1, <2>2, <2>3 DEF Finished
  <2>4. CASE Gone /\ built > 0 /\ UNCHANGED handler
    BY <2>1, <2>2, <2>4 DEF Gone
  <2>5. CASE UNCHANGED mainVars /\ handler' \in {handler, "poll"}
    BY <2>1, <2>5
  <2>6. CASE UNCHANGED <<far, built, handler>> /\ mainPc' \in {"running", "waiting", "unwind", "exited"}
             /\ code' \in {code, "SUCCESS", "FAIL"}
    BY <2>1, <2>6
  <2>7. CASE ReadConfig
    <3>1. built' = 0
      BY <2>7 DEF ReadConfig, IInv, PhaseInv
    <3>2. Len(Objects)' \in Nat
      <4>1. platform' \in {"linux", "espidf"} /\ (platform' = "espidf" => far' = "mqtt")
        BY <2>1, <2>7 DEF ReadConfig, IInv, TypeInv, PhaseInv
      <4> QED BY <4>1, CountAfter
    <3> QED BY <2>1, <2>7, <3>1, <3>2 DEF ReadConfig
  <2>8. CASE BuildWifi \/ BuildLlAdapter \/ BuildLl \/ BuildFlAdapter \/ BuildFl \/ BuildBridge
    BY <2>3, <2>5, <2>8 DEF BuildWifi, BuildLlAdapter, BuildLl, BuildFlAdapter, BuildFl,
       BuildBridge, Building
  <2>9. CASE ConfigRejected \/ ConstructorThrows \/ AllBuilt \/ ChecksFatal \/ Waits \/ Exits
    BY <2>6, <2>9 DEF ConfigRejected, ConstructorThrows, AllBuilt, ChecksFatal, Waits, Exits
  <2>10. CASE StopTimer \/ JoinTimer \/ DestroyFl \/ DestroyFlAdapter \/ DestroyLl
              \/ StopHandler \/ JoinHandler
    BY <2>4, <2>5, <2>10 DEF StopTimer, JoinTimer, DestroyFl, DestroyFlAdapter, DestroyLl,
       StopHandler, JoinHandler, Destroying
  <2> QED BY <1>1, <2>7, <2>8, <2>9, <2>10 DEF Main
<1>2. CASE UNCHANGED <<platform, mainVars>> /\ handler' \in {handler, "ended"}
  BY <1>2 DEF mainVars, Objects
<1>3. CASE Handler \/ Library \/ Network \/ World \/ Aborts \/ UNCHANGED vars
           \/ Call(FrameArrives \/ DataArrives) \/ \E th \in Threads : Runs(th)
  <2>1. UNCHANGED <<platform, mainVars>> /\ handler' \in {handler, "ended"}
    BY <1>3 DEF Handler, HandlerFails, HandlerStops, Library, Network, World, Aborts, Call, Runs,
       vars, processVars, threadCtl
  <2> QED BY <1>2, <2>1
<1> QED BY <1>1, <1>3 DEF Next

\* The flags stay flags.
LEMMA FlagType == FlagTypeOK /\ [Next]_vars => FlagTypeOK'
<1> SUFFICES ASSUME FlagTypeOK, [Next]_vars PROVE FlagTypeOK'
  OBVIOUS
<1> USE DEF FlagTypeOK, bridgeVars, threadCtl, systemVars, callVars
<1>1. CASE Main
  <2>1. UNCHANGED <<fatal, iface, signal, aborted>>
    BY <1>1 DEF Main
  <2>2. run' \in BOOLEAN /\ stopEvent' \in BOOLEAN
    BY <1>1 DEF Main, ReadConfig, ConfigRejected, BuildWifi, BuildLlAdapter, BuildLl,
       BuildFlAdapter, BuildFl, BuildBridge, ConstructorThrows, AllBuilt, ChecksFatal, Waits,
       StopTimer, JoinTimer, DestroyFl, DestroyFlAdapter, DestroyLl, StopHandler, JoinHandler, Exits
  <2>3. recvCb' \in BOOLEAN /\ llNode' \in BOOLEAN /\ flNode' \in BOOLEAN /\ members' \in BOOLEAN
    BY <1>1 DEF Main, ReadConfig, ConfigRejected, BuildWifi, BuildLlAdapter, BuildLl,
       BuildFlAdapter, BuildFl, BuildBridge, ConstructorThrows, AllBuilt, ChecksFatal, Waits,
       StopTimer, JoinTimer, DestroyFl, DestroyFlAdapter, DestroyLl, StopHandler, JoinHandler, Exits
  <2> QED BY <2>1, <2>2, <2>3
<1>2. CASE Handler \/ World
  BY <1>2 DEF Handler, HandlerFails, HandlerStops, World
<1>3. CASE Aborts
  BY <1>3 DEF Aborts
<1>4. CASE UNCHANGED processVars
  BY <1>4 DEF processVars
<1> QED BY <1>1, <1>2, <1>3, <1>4 DEF Next, Library, Network, Call, Runs, vars

\* The threads keep their types, and a tick has three steps.
LEMMA ThreadType == IInv /\ ThreadTypeOK /\ [Next]_vars => ThreadTypeOK'
<1> SUFFICES ASSUME IInv, ThreadTypeOK, [Next]_vars PROVE ThreadTypeOK'
  OBVIOUS
<1>1. thread' \in [Threads -> ThreadStates]
  BY NextInv DEF IInv, TypeInv
<1> USE ProcessAssumption DEF ThreadTypeOK
<1>2. CASE UNCHANGED <<mutex, tickStep, calls>>
  BY <1>1, <1>2
<1>3. CASE Call(FrameArrives \/ DataArrives)
  BY <1>1, <1>3 DEF Call, FrameArrives, DataArrives, Spawn
<1>4. ASSUME NEW th \in Threads, Runs(th) PROVE ThreadTypeOK'
  <2>1. CASE TimerFires \/ TimerEnds
    BY <1>1, <2>1 DEF TimerFires, TimerEnds, Moves
  <2>2. CASE RecvRuns \/ DataRuns \/ FarCall(th)
    BY <1>1, <2>2 DEF RecvRuns, DataRuns, FarCall, Moves
  <2>3. CASE Lock(th)
    BY <1>1, <2>3 DEF Lock
  <2>4. CASE Unlock(th)
    BY <1>1, <2>4 DEF Unlock
  <2> QED BY <1>4, <2>1, <2>2, <2>3, <2>4 DEF Runs, Call
<1>5. CASE Main
  <2>1. UNCHANGED <<mutex, tickStep, calls>>
    BY <1>5 DEF Main, ReadConfig, ConfigRejected, BuildWifi, BuildLlAdapter, BuildLl,
       BuildFlAdapter, BuildFl, BuildBridge, ConstructorThrows, AllBuilt, ChecksFatal, Waits,
       StopTimer, JoinTimer, DestroyFl, DestroyFlAdapter, DestroyLl, StopHandler, JoinHandler,
       Exits, callVars
  <2> QED BY <1>2, <2>1
<1>6. CASE Handler \/ Library \/ Network \/ World \/ Aborts \/ UNCHANGED vars
  BY <1>2, <1>6 DEF Handler, Library, Network, World, Aborts, vars, callVars
<1> QED BY <1>3, <1>4, <1>5, <1>6 DEF Next

\* The types of the initial states.
LEMMA TypeInit == Init => StationTypeOK /\ MqttTypeOK /\ MainTypeOK /\ FlagTypeOK /\ ThreadTypeOK
<1> SUFFICES ASSUME Init
             PROVE  StationTypeOK /\ MqttTypeOK /\ MainTypeOK /\ FlagTypeOK /\ ThreadTypeOK
  OBVIOUS
<1>1. StationTypeOK
  <2>1. Len(StationCalls) = 14
    BY DEF StationCalls
  <2>2. 0 \in 0..14 /\ 0 \in 0..MaxFailures /\ 0 \in 0..MaxDrops
    BY StationAssumption
  <2>3. StationInit
    BY DEF Init
  <2>4. addresses \subseteq {"IPv4", "IPv6"} /\ stationCall \in 0..Len(StationCalls)
    BY <2>1, <2>2, <2>3 DEF StationInit
  <2> QED BY <2>2, <2>3, <2>4 DEF StationInit, StationTypeOK
<1>2. MqttTypeOK
  <2>1. 0 \in 0..MaxReconnects
    BY ReconnectAssumption
  <2> QED BY <2>1 DEF Init, MqttInit, MqttTypeOK
<1>3. MainTypeOK
  <2>1. Len(Objects) \in Nat
    BY InitInv, Order DEF IInv, TypeInv, PhaseInv
  <2> QED BY <2>1 DEF Init, MainTypeOK
<1>4. FlagTypeOK
  BY DEF Init, FlagTypeOK
<1>5. ThreadTypeOK
  BY ProcessAssumption DEF Init, ThreadTypeOK, Threads, ThreadStates
<1> QED BY <1>1, <1>2, <1>3, <1>4, <1>5

\* Every variable of the process keeps its type: the main thread never has more
\* objects than its build has, nor the tick of the timer more than three steps.
THEOREM TypeCorrect == Spec => []TypeOK
<1> DEFINE Types == StationTypeOK /\ MqttTypeOK /\ MainTypeOK /\ FlagTypeOK /\ ThreadTypeOK
<1>1. Init => Types
  BY TypeInit
<1>2. IInv /\ Types /\ [Next]_vars => Types'
  BY LayerSteps, StationType, LinkType, MainType, FlagType, ThreadType
<1>3. Types => TypeOK
  BY DEF TypeOK, MainTypeOK, FlagTypeOK, ThreadTypeOK
<1> HIDE DEF Types
<1> QED BY <1>1, <1>2, <1>3, Invariant, PTL DEF Spec
==============================================================================
