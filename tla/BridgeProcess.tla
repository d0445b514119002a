---------------------------- MODULE BridgeProcess ----------------------------
(***************************************************************************)
(* A bridge from start to end: the daemon of linux/bridge_espnow.cpp, and  *)
(* the same objects on the ESP, where nothing takes them down. The main    *)
(* thread builds the adapters, the layers and the bridge in order and      *)
(* destroys them in reverse, while the capture thread, the sub DB timer,   *)
(* the library of the far layer and detached threads call into them. What  *)
(* the calls do with messages and topics is that of Bridge and Delivery.   *)
(* A call of an object that is gone or not built yet, and an exception     *)
(* that leaves a thread, may end the program (aborted).                    *)
(***************************************************************************)
EXTENDS WifiStation, MqttLink

CONSTANTS
  Platforms,        \* the platforms to look at, of "linux" and "espidf"
  PahoHoldsMutex,   \* Paho's callbacks run with the mutex of its calls held
  MaxCalls          \* bound: messages that come from the local or the far layer

ASSUME ProcessAssumption ==
  Platforms \subseteq {"linux", "espidf"} /\ PahoHoldsMutex \in BOOLEAN /\ MaxCalls \in Nat

VARIABLES
  platform, far,     \* the build, and the far layer: "mqtt" or "broker"
  mainPc,            \* "config", "build", "running", "waiting", "unwind" or "exited"
  built,             \* how many of Objects exist
  code,              \* the exit code, "none" before there is one
  handler,           \* the capture thread: "none", "poll" or "ended"
  recvCb,            \* the local adapter has a receive callback
  llNode, flNode,    \* the layers have their node; never reset
  members,           \* the members of Bridge exist
  run,               \* Timer::m_run
  tickStep,          \* which of the three steps of subDBTick() the timer is in
  thread,            \* what each thread does: see ThreadStates
  mutex,             \* the owner of Bridge::m_mutex, "none" if it is free
  iface, fatal,      \* the monitor interface exists; m_fatalError
  signal, stopEvent, \* a termination signal is pending; m_eventFd is written
  calls,             \* the counter behind MaxCalls
  aborted

bridgeVars == <<recvCb, llNode, flNode, members>>
callVars == <<thread, mutex, tickStep, calls>>
mainVars == <<far, mainPc, built, code>>
systemVars == <<iface, signal>>
threadCtl == <<handler, run, stopEvent>>
layerVars == <<stationVars, bounds, mqttVars>>
processVars == <<platform, mainVars, threadCtl, fatal, bridgeVars, systemVars, aborted>>
vars == <<processVars, callVars, layerVars>>

\* "timer" is m_subDBTimer's, "recv" a detached thread with a local message,
\* "data" one with a far message. "far" is in a call of the far layer that waits.
Threads == {"timer", "recv", "data"}
ThreadStates == {"none", "idle", "start", "want", "held", "far"}

Objects ==
  CASE platform = "espidf" -> <<"wifi", "llAdapter", "ll", "flAdapter", "fl", "br">>
    [] far = "broker" -> <<"llAdapter", "ll", "fl", "br">>
    [] OTHER -> <<"llAdapter", "ll", "flAdapter", "fl", "br">>

Alive(object) == \E i \in 1..built : Objects[i] = object
Building(object) == mainPc = "build" /\ built < Len(Objects) /\ Objects[built + 1] = object
Destroying(object) == mainPc = "unwind" /\ built > 0 /\ Objects[built] = object

TypeOK ==
  /\ StationTypeOK /\ MqttTypeOK
  /\ platform \in Platforms /\ far \in {"none", "mqtt", "broker"}
  /\ mainPc \in {"config", "build", "running", "waiting", "unwind", "exited"}
  /\ built \in 0..Len(Objects) /\ code \in {"none", "SUCCESS", "FAIL"}
  /\ handler \in {"none", "poll", "ended"}
  /\ recvCb \in BOOLEAN /\ llNode \in BOOLEAN /\ flNode \in BOOLEAN
  /\ members \in BOOLEAN /\ run \in BOOLEAN /\ stopEvent \in BOOLEAN
  /\ iface \in BOOLEAN /\ fatal \in BOOLEAN /\ signal \in BOOLEAN /\ aborted \in BOOLEAN
  /\ thread \in [Threads -> ThreadStates] /\ tickStep \in 0..3
  /\ mutex \in Threads \cup {"none"} /\ calls \in 0..MaxCalls

Init ==
  /\ StationInit /\ MqttInit
  /\ platform \in Platforms
  /\ IF platform = "linux" THEN far = "none" /\ mainPc = "config"
                           ELSE far = "mqtt" /\ mainPc = "build"
  /\ built = 0 /\ code = "none" /\ handler = "none"
  /\ recvCb = FALSE /\ llNode = FALSE /\ flNode = FALSE /\ members = FALSE
  /\ run = FALSE /\ tickStep = 0
  /\ thread = [th \in Threads |-> "none"] /\ mutex = "none" /\ calls = 0
  /\ iface = TRUE /\ fatal = FALSE /\ signal = FALSE /\ stopEvent = FALSE
  /\ aborted = FALSE
------------------------------------------------------------------------------
(* The main thread builds *)

ReadConfig ==
  /\ mainPc = "config" /\ mainPc' = "build"
  /\ far' \in {"mqtt", "broker"}
  /\ UNCHANGED <<built, code, threadCtl, bridgeVars, callVars, layerVars>>

\* No argument, no such file, or an option that is missing or not valid.
ConfigRejected ==
  /\ mainPc = "config"
  /\ mainPc' = "exited" /\ code' = "FAIL"
  /\ UNCHANGED <<far, built, threadCtl, bridgeVars, callVars, layerVars>>

Finished == built' = built + 1 /\ UNCHANGED <<far, mainPc, code>>

BuildWifi ==
  /\ Building("wifi")
  /\ \/ (StationBegins \/ StationCallSucceeds \/ GetsAddress) /\ UNCHANGED mainVars
     \/ StationReady /\ Finished
  /\ UNCHANGED <<threadCtl, bridgeVars, callVars, mqttVars>>

\* On the ESP the system may call back before the constructor is done.
BuildLlAdapter ==
  /\ Building("llAdapter")
  /\ \/ platform = "linux" /\ iface /\ handler' = "poll" /\ Finished
     \/ platform = "espidf" /\ handler = "none" /\ handler' = "poll" /\ UNCHANGED mainVars
     \/ platform = "espidf" /\ handler = "poll" /\ UNCHANGED handler /\ Finished
  /\ UNCHANGED <<run, stopEvent, bridgeVars, callVars, layerVars>>

BuildLl ==
  /\ Building("ll")
  /\ recvCb' = TRUE /\ Finished
  /\ UNCHANGED <<threadCtl, llNode, flNode, members, callVars, layerVars>>

BuildFlAdapter ==
  /\ Building("flAdapter")
  /\ AdapterConnects /\ Finished
  /\ UNCHANGED <<threadCtl, bridgeVars, callVars, stationVars, bounds>>

BuildFl ==
  /\ Building("fl")
  /\ \/ far = "broker" /\ Finished /\ UNCHANGED mqttVars
     \/ far = "mqtt" /\ SetConnectedCb /\ UNCHANGED mainVars
     \/ far = "mqtt" /\ Connected /\ Finished
  /\ UNCHANGED <<threadCtl, bridgeVars, callVars, stationVars, bounds>>

\* The base classes give the layers their node, then come the members, and the
\* timer's thread starts.
BuildBridge ==
  /\ Building("br")
  /\ \/ ~llNode /\ llNode' = TRUE /\ UNCHANGED <<flNode, members, run, thread, mainVars>>
     \/ /\ llNode /\ ~flNode /\ flNode' = TRUE
        /\ UNCHANGED <<llNode, members, run, thread, mainVars>>
     \/ /\ llNode /\ flNode
        /\ members' = TRUE /\ run' = TRUE
        /\ thread' = [thread EXCEPT !["timer"] = "idle"]
        /\ Finished
        /\ UNCHANGED <<llNode, flNode>>
  /\ UNCHANGED <<handler, stopEvent, recvCb, mutex, tickStep, calls, layerVars>>

AllBuilt ==
  /\ mainPc = "build" /\ built = Len(Objects)
  /\ mainPc' = "running"
  /\ UNCHANGED <<far, built, code, threadCtl, bridgeVars, callVars, layerVars>>

\* An adapter cannot be set up, or the broker does not answer in time. The
\* daemon's try block unwinds what is there.
ConstructorThrows ==
  /\ platform = "linux"
  /\ \/ Building("llAdapter") /\ ~iface /\ UNCHANGED <<failures, mqttVars>>
     \/ (Building("llAdapter") \/ Building("flAdapter")) /\ Fail /\ UNCHANGED mqttVars
     \/ Building("fl") /\ ConnectTimeout /\ UNCHANGED failures
  /\ mainPc' = "unwind" /\ code' = "FAIL"
  /\ UNCHANGED <<far, built, threadCtl, bridgeVars, callVars, stationVars, drops>>
------------------------------------------------------------------------------
(* The main thread waits: waitForTermination() *)

ChecksFatal ==
  /\ mainPc = "running" /\ platform = "linux"
  /\ IF fatal THEN mainPc' = "unwind" /\ code' = "FAIL"
              ELSE mainPc' = "waiting" /\ UNCHANGED code
  /\ UNCHANGED <<far, built, threadCtl, bridgeVars, callVars, layerVars>>

\* sigtimedwait() gets the pending signal, or a second goes by.
Waits ==
  /\ mainPc = "waiting"
  /\ IF signal THEN mainPc' = "unwind" /\ code' = "SUCCESS"
               ELSE mainPc' = "running" /\ UNCHANGED code
  /\ UNCHANGED <<far, built, threadCtl, bridgeVars, callVars, layerVars>>
------------------------------------------------------------------------------
(* The main thread destroys, the newest object first *)

Gone == built' = built - 1 /\ UNCHANGED <<far, mainPc, code>>

\* Mutant: the timer's thread is not told to stop.
StopTimer_Silent ==
  /\ Destroying("br") /\ run /\ UNCHANGED vars

\* ~Timer() tells its thread, and waits for it.
StopTimer ==
  /\ Destroying("br") /\ run
  /\ run' = FALSE
  /\ UNCHANGED <<mainVars, handler, stopEvent, bridgeVars, callVars, layerVars>>

\* Mutant: the timer's thread is not waited for.
JoinTimer_Not ==
  /\ Destroying("br") /\ ~run
  /\ members' = FALSE /\ Gone
  /\ UNCHANGED <<threadCtl, recvCb, llNode, flNode, callVars, layerVars>>

\* The timer is the last member, so the others go after it.
JoinTimer ==
  /\ Destroying("br") /\ ~run /\ thread["timer"] = "none"
  /\ members' = FALSE /\ Gone
  /\ UNCHANGED <<threadCtl, recvCb, llNode, flNode, callVars, layerVars>>

DestroyFl ==
  /\ Destroying("fl") /\ Gone
  /\ IF far = "mqtt" THEN LayerGone ELSE UNCHANGED mqttVars
  /\ UNCHANGED <<threadCtl, bridgeVars, callVars, stationVars, bounds>>

DestroyFlAdapter ==
  /\ Destroying("flAdapter") /\ Gone
  /\ AdapterGone
  /\ UNCHANGED <<threadCtl, bridgeVars, callVars, stationVars, bounds>>

\* The adapter keeps the callback.
DestroyLl ==
  /\ Destroying("ll") /\ Gone
  /\ UNCHANGED <<threadCtl, bridgeVars, callVars, layerVars>>

\* Mutant: the capture thread is detached.
JoinHandler_Detach ==
  /\ Destroying("llAdapter") /\ stopEvent /\ Gone
  /\ UNCHANGED <<threadCtl, bridgeVars, callVars, layerVars>>

StopHandler ==
  /\ Destroying("llAdapter") /\ ~stopEvent
  /\ stopEvent' = TRUE
  /\ UNCHANGED <<mainVars, handler, run, bridgeVars, callVars, layerVars>>

JoinHandler ==
  /\ Destroying("llAdapter") /\ stopEvent /\ handler = "ended" /\ Gone
  /\ UNCHANGED <<threadCtl, bridgeVars, callVars, layerVars>>

Exits ==
  /\ mainPc = "unwind" /\ built = 0
  /\ mainPc' = "exited"
  /\ UNCHANGED <<far, built, code, threadCtl, bridgeVars, callVars, layerVars>>

Main ==
  /\ \/ ReadConfig \/ ConfigRejected
     \/ BuildWifi \/ BuildLlAdapter \/ BuildLl \/ BuildFlAdapter \/ BuildFl \/ BuildBridge
     \/ ConstructorThrows \/ AllBuilt
     \/ ChecksFatal \/ Waits
     \/ StopTimer \/ JoinTimer \/ DestroyFl \/ DestroyFlAdapter \/ DestroyLl
     \/ StopHandler \/ JoinHandler \/ Exits
  /\ UNCHANGED <<platform, fatal, systemVars, aborted>>
------------------------------------------------------------------------------
(* The capture thread, in epoll_wait() *)

\* Mutant: the thread ends and says nothing.
HandlerFails_Silent ==
  /\ platform = "linux" /\ handler = "poll" /\ ~iface
  /\ handler' = "ended" /\ UNCHANGED fatal

\* EPOLLERR, EPOLLHUP, or a read that fails.
HandlerFails ==
  /\ platform = "linux" /\ handler = "poll" /\ ~iface
  /\ handler' = "ended" /\ fatal' = TRUE

HandlerStops ==
  /\ handler = "poll" /\ stopEvent
  /\ handler' = "ended" /\ UNCHANGED fatal

Handler ==
  /\ HandlerFails \/ HandlerStops
  /\ UNCHANGED <<platform, mainVars, run, stopEvent, bridgeVars, callVars, systemVars, aborted,
                 layerVars>>
------------------------------------------------------------------------------
(* Messages, each in a detached thread of its own *)

Spawn(th) ==
  /\ thread[th] = "none" /\ calls < MaxCalls
  /\ thread' = [thread EXCEPT ![th] = "start"]
  /\ calls' = calls + 1
  /\ UNCHANGED <<mutex, tickStep>>

FrameArrives ==
  /\ handler = "poll" /\ iface /\ recvCb
  /\ Spawn("recv")

\* From the broker, or from a client's PUB through the local broker.
DataArrives ==
  /\ \/ session = "up" /\ connectedCb # "none"
     \/ far = "broker" /\ thread["recv"] = "start" /\ llNode /\ members
  /\ Spawn("data")

Moves(th, state) ==
  thread' = [thread EXCEPT ![th] = state] /\ UNCHANGED <<mutex, tickStep, calls>>

\* The node, where there is one, takes its mutex for SUB_REQ and UNSUB. PUB and
\* the requests with an answer do without it, and so does what is no message.
RecvRuns ==
  /\ thread["recv"] = "start" /\ Alive("ll")
  /\ \/ Moves("recv", "none")
     \/ llNode /\ members /\ Moves("recv", "want")

DataRuns ==
  /\ thread["data"] = "start" /\ Alive("fl")
  /\ IF flNode THEN members /\ Moves("data", "want") ELSE Moves("data", "none")

Lock(th) ==
  /\ thread[th] = "want" /\ mutex = "none" /\ members
  /\ thread' = [thread EXCEPT ![th] = "held"] /\ mutex' = th
  /\ UNCHANGED <<tickStep, calls>>

\* unsubscribe() and subscribe() of the Linux adapter wait for the broker.
FarCall(th) ==
  /\ thread[th] = "held" /\ platform = "linux" /\ far = "mqtt"
  /\ \/ th = "recv"
     \/ th = "timer" /\ tickStep = 3
  /\ Moves(th, "far")

\* An answer or the timeout ends the wait, which needs the library's mutex.
Stuck(th) == thread[th] = "far" /\ PahoHoldsMutex /\ receiver = "resubscribe"

Unlock(th) ==
  /\ thread[th] \in {"held", "far"} /\ ~Stuck(th)
  /\ mutex' = "none"
  /\ IF th = "timer" /\ tickStep < 3
       THEN tickStep' = tickStep + 1 /\ thread' = [thread EXCEPT ![th] = "want"]
       ELSE /\ thread' = [thread EXCEPT ![th] = IF th = "timer" THEN "idle" ELSE "none"]
            /\ UNCHANGED tickStep
  /\ UNCHANGED calls

\* Mutant: the tick goes on counting its steps.
TimerFires_NoReset ==
  /\ thread["timer"] = "idle" /\ run
  /\ thread' = [thread EXCEPT !["timer"] = "want"] /\ tickStep' = tickStep + 1
  /\ UNCHANGED <<mutex, calls>>

TimerFires ==
  /\ thread["timer"] = "idle" /\ run
  /\ thread' = [thread EXCEPT !["timer"] = "want"] /\ tickStep' = 1
  /\ UNCHANGED <<mutex, calls>>

TimerEnds ==
  /\ thread["timer"] = "idle" /\ ~run
  /\ Moves("timer", "none")

Call(action) ==
  /\ action
  /\ UNCHANGED <<processVars, layerVars>>

Runs(th) ==
  Call(\/ th = "timer" /\ (TimerFires \/ TimerEnds)
       \/ th = "recv" /\ RecvRuns
       \/ th = "data" /\ DataRuns
       \/ Lock(th) \/ FarCall(th) \/ Unlock(th))
------------------------------------------------------------------------------
(* The far layer's library, the event task, and the world *)

Resubscribes == members /\ mutex = "none" /\ Resubscribed

Library ==
  /\ ReportMissed \/ ReportFirst \/ ReportAgain(flNode) \/ Resubscribes
  /\ UNCHANGED <<processVars, callVars, stationVars, bounds>>

Network ==
  /\ \/ Connects /\ (platform = "espidf" => link = "up") /\ UNCHANGED <<stationVars, bounds>>
     \/ platform = "linux" /\ ConnectFails /\ UNCHANGED <<stationVars, bounds>>
     \/ ConnectionLost /\ UNCHANGED <<stationVars, bounds>>
     \/ (Associated \/ Disassociated) /\ UNCHANGED mqttVars
     \/ (\E address \in addresses : GotAddress(address)) /\ UNCHANGED mqttVars
  /\ UNCHANGED <<processVars, callVars>>

World ==
  /\ platform = "linux"
  /\ \/ ~signal /\ signal' = TRUE /\ UNCHANGED iface
     \/ iface /\ iface' = FALSE /\ UNCHANGED signal
  /\ UNCHANGED <<platform, mainVars, threadCtl, fatal, bridgeVars, callVars, aborted,
                 layerVars>>
------------------------------------------------------------------------------
(* The ways the program ends without being asked to *)

\* A callback of the ESP's local adapter before it has its instance, or while
\* the layer sets it: the first call has nothing to go to.
CallbackTooEarly ==
  handler = "poll" /\ (Building("llAdapter") \/ Building("ll"))

\* A thread is in an object that is gone, or in a bridge that is not there yet.
CallsTheDead(th) ==
  \/ thread[th] = "start" /\ th = "recv" /\ (Alive("ll") => llNode /\ ~members)
  \/ thread[th] = "start" /\ th = "data" /\ (Alive("fl") => flNode /\ ~members)
  \/ thread[th] \in {"want", "held", "far"} /\ ~members

\* Adapter::send() throws, in a thread that nobody catches for.
SendThrows == ~iface /\ members /\ thread["recv"] = "start"

ResubscribesTheDead == receiver = "resubscribe" /\ ~members

\* The constructors of the ESP's layers throw, and nobody catches.
ConstructorAborts ==
  /\ platform = "espidf"
  /\ \/ /\ Building("llAdapter") \/ Building("flAdapter")
        /\ Fail /\ UNCHANGED <<drops, mqttVars>>
     \/ Building("fl") /\ ConnectTimeout /\ UNCHANGED bounds
  /\ UNCHANGED stationVars

Aborts ==
  /\ aborted' = TRUE
  /\ \/ CallbackTooEarly /\ UNCHANGED layerVars
     \/ SendThrows /\ UNCHANGED layerVars
     \/ ResubscribesTheDead /\ UNCHANGED layerVars
     \/ (\E th \in Threads : CallsTheDead(th)) /\ UNCHANGED layerVars
     \/ ReportFaults /\ UNCHANGED <<bounds, stationVars>>
     \/ /\ LinkLocalRefused \/ AddressTwice \/ AddressTimeout \/ StationCallFails
        /\ UNCHANGED mqttVars
     \/ ConstructorAborts
  /\ UNCHANGED <<platform, mainVars, threadCtl, fatal, bridgeVars, callVars, systemVars>>

Ended == aborted \/ mainPc = "exited"

Next ==
  /\ ~Ended
  /\ \/ Main \/ Handler \/ Library \/ Network \/ World \/ Aborts
     \/ Call(FrameArrives \/ DataArrives)
     \/ \E th \in Threads : Runs(th)

Spec == Init /\ [][Next]_vars

\* The threads run; the network, the world and messages come or do not.
FairSpec ==
  /\ Spec
  /\ WF_vars(~Ended /\ Main) /\ WF_vars(~Ended /\ Handler) /\ WF_vars(~Ended /\ Library)
  /\ \A th \in Threads : WF_vars(~Ended /\ Runs(th))
------------------------------------------------------------------------------
\* A bridge that runs has had its address (on the ESP) and its connection to the
\* broker: the constructors of the station and of the MQTT layer do not go on
\* without them, whatever comes before, between and after the waits.
StartedConnected ==
  mainPc \in {"running", "waiting"} =>
    /\ platform = "espidf" => initialized /\ hadAddress
    /\ far = "mqtt" => connectedCb = "live" /\ ~initializing /\ connects > 0

\* The threads that an object owns do not outlive it: the sub DB timer finds the
\* members of the bridge, and the capture thread finds its adapter.
NoOrphanThreads ==
  /\ thread["timer"] # "none" => members
  /\ platform = "linux" /\ handler = "poll" => Alive("llAdapter")

\* While the bridge runs and its interface is there, nothing of what the network
\* does ends the program: lost connections, reconnections, addresses that come
\* again, messages. (A call of the system that fails can.)
AbortsOnlyAtEdges ==
  [][aborted' /\ ~aborted =>
       mainPc \notin {"running", "waiting"} \/ ~iface \/ failures' > failures]_vars

\* SIGINT or SIGTERM ends the daemon, also when it comes while the daemon starts
\* or while the timer waits for the broker.
TerminationCompletes == signal ~> Ended

\* A daemon whose interface is gone does not live on deaf: it exits, and unless it
\* was told to stop, with the code that has it restarted.
FatalErrorRestarts ==
  ~iface /\ handler # "none" ~>
    aborted \/ (mainPc = "exited" /\ (code = "FAIL" \/ signal))

\* A callback of Paho never waits for a thread that waits for Paho.
CallbackNeverBlocked ==
  receiver = "resubscribe" /\ mutex # "none" => ~Stuck(mutex)
==============================================================================
