------------------------------- MODULE EspNow --------------------------------
(***************************************************************************)
(* The ESP-NOW local layer, src/common/espnow.cpp: threads of the node     *)
(* that send() messages, the application thread that calls                 *)
(* connectToBridge(), the adapter that reports the fate of every frame     *)
(* through sendCb(), and the probe responses that receive() handles, each  *)
(* on a thread of its own.                                                 *)
(*                                                                         *)
(* m_mutex serializes what touches the radio; a bucket of a mutex and a    *)
(* promise serializes the messages to the peers that hash to it.           *)
(***************************************************************************)
EXTENDS Integers, FiniteSets

CONSTANTS
  Sender,         \* the threads that call send()
  Connector,      \* the thread that calls connectToBridge()
  Peer,           \* unicast addresses
  Bridge,         \* the peers that are bridges
  Broadcast,      \* LocalAddrT::broadcast()
  Destination,    \* msg.addr of the messages sent: a client's is NoAddr, a bridge's a peer
  NoAddr,         \* LocalAddrT{}: as destination of a message, "the bridge"
  Bucket,         \* indices of m_sendingPromises and m_sendingMutexes
  BucketOf,       \* getBucketIdFromLocalAddr()
  LastChannel,    \* the channels the country allows are 1..LastChannel
  BridgeChannel,  \* the channel of each bridge
  Signal,         \* the signal strength each bridge is received with
  LateAnswers,    \* may a probe response be handled after its channel was left
  Free            \* the owner of an unlocked mutex

Thread == Sender \cup {Connector}
Addr == Peer \cup {Broadcast}
Channel == 1..LastChannel

ASSUME ThreadAssumption == Connector \notin Sender /\ Free \notin Thread
ASSUME AddrAssumption ==
  /\ Bridge \subseteq Peer
  /\ Broadcast \notin Peer
  /\ NoAddr \notin Addr
  /\ Destination \subseteq Peer \cup {NoAddr}
ASSUME BucketAssumption == BucketOf \in [Addr -> Bucket]
ASSUME RadioAssumption ==
  /\ LastChannel \in Nat \ {0}
  /\ BridgeChannel \in [Bridge -> Channel]
  /\ Signal \in [Bridge -> Nat \ {0}]
  /\ LateAnswers \in BOOLEAN

\* The hash of no peer falls into the bucket of the broadcast address.
BroadcastAlone == \A p \in Peer : BucketOf[p] # BucketOf[Broadcast]

VARIABLES
  mutex,        \* owner of m_mutex
  bucketMutex,  \* owners of m_sendingMutexes
  promise,      \* m_sendingPromises: see Promise
  failed,       \* an uncaught std::future_error or AdapterError ended the program
  registered,   \* the peers registered at the adapter
  air,          \* the frames whose sendCb() is still to come
  answers,      \* the probe responses received but not handled yet
  radio,        \* the channel the WiFi is on
  bestBridge,   \* m_bestBridge
  retained,     \* what the application keeps of the last connection
  pc, dst       \* where each thread is, and the address it sends to

vars == <<mutex, bucketMutex, promise, failed, registered, air, answers, radio,
          bestBridge, retained, pc, dst>>

\* "fresh": no future retrieved; "waited": retrieved, no value yet; else its value.
Promise == {"fresh", "waited", "delivered", "lost"}

\* Signal 0 stands for SIGNAL_MIN and channel 0 for the unset one.
NoBridge == [addr |-> NoAddr, rssi |-> 0, ch |-> 0]
BridgeInfo == [addr : Bridge, rssi : {Signal[b] : b \in Bridge} \cup {0}, ch : Channel]

Frame == [by : Thread, to : Addr]

\* A thread past get_future() is in one of these.
Sending == {"addPeer", "transmit", "removePeer", "wait"}

TypeOK ==
  /\ mutex \in Thread \cup {Free}
  /\ bucketMutex \in [Bucket -> Thread \cup {Free}]
  /\ promise \in [Bucket -> Promise]
  /\ failed \in BOOLEAN
  /\ registered \subseteq Addr
  /\ air \subseteq Frame
  /\ answers \subseteq Bridge
  /\ radio \in Channel
  /\ bestBridge \in BridgeInfo \cup {NoBridge}
  /\ retained \in BridgeInfo \cup {NoBridge}
  /\ pc \in [Thread -> Sending \cup {"idle", "lock", "listen", "resubscribe"}]
  /\ dst \in [Thread -> Addr \cup {NoAddr}]

Init ==
  /\ mutex = Free
  /\ bucketMutex = [b \in Bucket |-> Free]
  /\ promise = [b \in Bucket |-> "fresh"]
  /\ failed = FALSE
  /\ registered = {} /\ air = {} /\ answers = {}
  /\ radio = 1
  /\ bestBridge = NoBridge /\ retained = NoBridge
  /\ pc = [t \in Thread |-> "idle"]
  /\ dst = [t \in Thread |-> NoAddr]

Goto(t, label) == pc' = [pc EXCEPT ![t] = label]
BucketAt(t) == BucketOf[dst[t]]
Scanning == pc[Connector] # "idle" /\ dst[Connector] = Broadcast
------------------------------------------------------------------------------
(* What send() and connectToBridge() share. *)

\* promise::get_future() throws when the future was already retrieved.
GetFuture(b) ==
  IF promise[b] = "fresh"
    THEN promise' = [promise EXCEPT ![b] = "waited"] /\ UNCHANGED failed
    ELSE failed' = TRUE /\ UNCHANGED promise

\* sendRaw() registers the peer; the adapter throws when it is registered.
AddPeer(t) ==
  /\ pc[t] = "addPeer"
  /\ registered' = registered \cup {dst[t]}
  /\ IF dst[t] \in registered THEN failed' = TRUE ELSE UNCHANGED failed
  /\ Goto(t, "transmit")
  /\ UNCHANGED <<mutex, bucketMutex, promise, air, answers, radio, bestBridge, retained, dst>>

\* A probe request is answered by some of the bridges on the channel.
Transmit(t) ==
  /\ pc[t] = "transmit"
  /\ air' = air \cup {[by |-> t, to |-> dst[t]]}
  /\ \E heard \in SUBSET {b \in Bridge : BridgeChannel[b] = radio} :
       answers' = IF dst[t] = Broadcast THEN answers \cup heard ELSE answers
  /\ Goto(t, "removePeer")
  /\ UNCHANGED <<mutex, bucketMutex, promise, failed, registered, radio, bestBridge,
                 retained, dst>>

\* send() unlocks m_mutex here, the scan keeps it.
RemovePeer(t) ==
  /\ pc[t] = "removePeer"
  /\ registered' = registered \ {dst[t]}
  /\ mutex' = IF dst[t] = Broadcast THEN mutex ELSE Free
  /\ Goto(t, "wait")
  /\ UNCHANGED <<bucketMutex, promise, failed, air, answers, radio, bestBridge, retained, dst>>

\* future.get() returned: the promise is replaced by a fresh one.
Answered(t) ==
  /\ pc[t] = "wait"
  /\ promise[BucketAt(t)] \in {"delivered", "lost"}
  /\ promise' = [promise EXCEPT ![BucketAt(t)] = "fresh"]
------------------------------------------------------------------------------
(* send() *)

\* An empty destination is the bridge: without one the call fails, nothing changes.
\* The code reads m_bestBridge without a lock, first to see that there is one and then
\* for its address. Here the two reads are one: a scan that clears or sets the bridge
\* between or during them, a data race, is left out.
Send(t, to) ==
  /\ pc[t] = "idle"
  /\ dst' = [dst EXCEPT ![t] = IF to = NoAddr THEN bestBridge.addr ELSE to]
  /\ dst'[t] # NoAddr
  /\ Goto(t, "lock")
  /\ UNCHANGED <<mutex, bucketMutex, promise, failed, registered, air, answers, radio,
                 bestBridge, retained>>

\* Mutant: send() locks only the bucket.
Lock_BucketOnly(t) ==
  /\ pc[t] = "lock"
  /\ bucketMutex[BucketAt(t)] = Free
  /\ bucketMutex' = [bucketMutex EXCEPT ![BucketAt(t)] = t]
  /\ GetFuture(BucketAt(t))
  /\ Goto(t, "addPeer")
  /\ UNCHANGED <<mutex, registered, air, answers, radio, bestBridge, retained, dst>>

\* Mutant: send() locks only m_mutex, the bucket is whoever's.
Lock_MutexOnly(t) ==
  /\ pc[t] = "lock"
  /\ mutex = Free
  /\ mutex' = t
  /\ GetFuture(BucketAt(t))
  /\ Goto(t, "addPeer")
  /\ UNCHANGED <<bucketMutex, registered, air, answers, radio, bestBridge, retained, dst>>

\* std::lock() takes both mutexes or none.
Lock(t) ==
  /\ pc[t] = "lock"
  /\ mutex = Free /\ bucketMutex[BucketAt(t)] = Free
  /\ mutex' = t
  /\ bucketMutex' = [bucketMutex EXCEPT ![BucketAt(t)] = t]
  /\ GetFuture(BucketAt(t))
  /\ Goto(t, "addPeer")
  /\ UNCHANGED <<registered, air, answers, radio, bestBridge, retained, dst>>

\* Mutant: the bucket stays locked when the message was not delivered.
SendReturns_KeepsBucket(t) ==
  /\ dst[t] # Broadcast
  /\ Answered(t)
  /\ bucketMutex' = IF promise[BucketAt(t)] = "lost" THEN bucketMutex
                    ELSE [bucketMutex EXCEPT ![BucketAt(t)] = Free]
  /\ Goto(t, "idle")
  /\ UNCHANGED <<mutex, failed, registered, air, answers, radio, bestBridge, retained, dst>>

\* Mutant: send() gives up waiting for the callback.
SendReturns_GivesUp(t) ==
  /\ dst[t] # Broadcast
  /\ pc[t] = "wait"
  /\ promise' = [promise EXCEPT ![BucketAt(t)] = "fresh"]
  /\ bucketMutex' = [bucketMutex EXCEPT ![BucketAt(t)] = Free]
  /\ Goto(t, "idle")
  /\ UNCHANGED <<mutex, failed, registered, air, answers, radio, bestBridge, retained, dst>>

SendReturns(t) ==
  /\ dst[t] # Broadcast
  /\ Answered(t)
  /\ bucketMutex' = [bucketMutex EXCEPT ![BucketAt(t)] = Free]
  /\ Goto(t, "idle")
  /\ UNCHANGED <<mutex, failed, registered, air, answers, radio, bestBridge, retained, dst>>
------------------------------------------------------------------------------
(* connectToBridge() *)

\* A retained bridge is taken as it is; its signal is not retained.
Reconnect ==
  /\ pc[Connector] = "idle" /\ mutex = Free
  /\ retained # NoBridge
  /\ bestBridge' = [retained EXCEPT !.rssi = 0]
  /\ radio' = retained.ch
  /\ UNCHANGED <<mutex, bucketMutex, promise, failed, registered, air, answers, retained, pc, dst>>

\* Getting the future and moving to a channel open each round of the scan.
ProbeChannel(ch) ==
  /\ GetFuture(BucketOf[Broadcast])
  /\ radio' = ch
  /\ Goto(Connector, "addPeer")

StartScan ==
  /\ pc[Connector] = "idle" /\ mutex = Free
  /\ mutex' = Connector
  /\ bestBridge' = NoBridge
  /\ dst' = [dst EXCEPT ![Connector] = Broadcast]
  /\ ProbeChannel(1)
  /\ UNCHANGED <<bucketMutex, registered, air, answers, retained>>

\* Then connectToBridge() sleeps on the channel to let bridges answer.
ProbeSent ==
  /\ Scanning
  /\ Answered(Connector)
  /\ Goto(Connector, "listen")
  /\ UNCHANGED <<mutex, bucketMutex, failed, registered, air, answers, radio, bestBridge,
                 retained, dst>>

Listened == pc[Connector] = "listen" /\ (LateAnswers \/ answers = {})

\* Mutant: the scan goes one channel too far.
NextChannel_OneMore ==
  /\ Listened /\ radio <= LastChannel
  /\ ProbeChannel(radio + 1)
  /\ UNCHANGED <<mutex, bucketMutex, registered, air, answers, bestBridge, retained, dst>>

NextChannel ==
  /\ Listened /\ radio < LastChannel
  /\ ProbeChannel(radio + 1)
  /\ UNCHANGED <<mutex, bucketMutex, registered, air, answers, bestBridge, retained, dst>>

\* Mutant: the radio stays where the scan ended.
ScanEnds_NoSwitch ==
  /\ Listened /\ radio = LastChannel
  /\ mutex' = Free
  /\ dst' = [dst EXCEPT ![Connector] = NoAddr]
  /\ IF bestBridge = NoBridge
       THEN Goto(Connector, "idle") /\ UNCHANGED retained
       ELSE Goto(Connector, "resubscribe") /\ retained' = bestBridge
  /\ UNCHANGED <<bucketMutex, promise, failed, registered, air, answers, radio, bestBridge>>

ScanEnds ==
  /\ Listened /\ radio = LastChannel
  /\ mutex' = Free
  /\ dst' = [dst EXCEPT ![Connector] = NoAddr]
  /\ IF bestBridge = NoBridge
       THEN Goto(Connector, "idle") /\ UNCHANGED <<radio, retained>>
       ELSE /\ Goto(Connector, "resubscribe")
            /\ radio' = bestBridge.ch
            /\ retained' = bestBridge
  /\ UNCHANGED <<bucketMutex, promise, failed, registered, air, answers, bestBridge>>

\* The node resubscribes with messages for the bridge: one stands for them all.
Resubscribe ==
  /\ pc[Connector] = "resubscribe"
  /\ Goto(Connector, "lock")
  /\ dst' = [dst EXCEPT ![Connector] = bestBridge.addr]
  /\ UNCHANGED <<mutex, bucketMutex, promise, failed, registered, air, answers, radio,
                 bestBridge, retained>>
------------------------------------------------------------------------------
(* Callbacks. *)

\* promise::set_value() throws when the promise has its value.
SendCb(f) ==
  LET b == BucketOf[f.to] IN
  /\ air' = air \ {f}
  /\ IF promise[b] \in {"fresh", "waited"}
       THEN /\ \E fate \in {"delivered", "lost"} : promise' = [promise EXCEPT ![b] = fate]
            /\ UNCHANGED failed
       ELSE failed' = TRUE /\ UNCHANGED promise
  /\ UNCHANGED <<mutex, bucketMutex, registered, answers, radio, bestBridge, retained, pc, dst>>

\* receive() of a PROBE_RES: m_bestBridge keeps the strongest signal.
ReceiveProbeRes(b) ==
  /\ answers' = answers \ {b}
  /\ bestBridge' = IF bestBridge.rssi < Signal[b]
                     THEN [addr |-> b, rssi |-> Signal[b], ch |-> radio]
                   ELSE bestBridge
  /\ UNCHANGED <<mutex, bucketMutex, promise, failed, registered, air, radio, retained, pc, dst>>
------------------------------------------------------------------------------
ThreadStep(t) ==
  Lock(t) \/ AddPeer(t) \/ Transmit(t) \/ RemovePeer(t) \/ SendReturns(t)

ScanStep == ProbeSent \/ NextChannel \/ ScanEnds \/ Resubscribe

Next ==
  /\ ~failed
  /\ \/ \E t \in Sender, to \in Destination : Send(t, to)
     \/ \E t \in Thread : ThreadStep(t)
     \/ Reconnect \/ StartScan \/ ScanStep
     \/ \E f \in air : SendCb(f)
     \/ \E b \in answers : ReceiveProbeRes(b)

Spec == Init /\ [][Next]_vars

\* Scheduling: a thread that can go on does, the adapter reports every frame it
\* took. Nothing is assumed of who gets a contended lock.
FairSpec ==
  /\ Spec
  /\ \A t \in Thread : WF_vars(~failed /\ ThreadStep(t))
  /\ WF_vars(~failed /\ ScanStep)
  /\ \A f \in Frame : WF_vars(~failed /\ f \in air /\ SendCb(f))
  /\ \A b \in Bridge : WF_vars(~failed /\ b \in answers /\ ReceiveProbeRes(b))
------------------------------------------------------------------------------
(* Properties. *)

\* "We need only one thread waiting for message status per bucket": no thread
\* asks for the status of a bucket somebody else waits for, no status comes
\* twice, no peer is registered twice. Each would end the program.
OneWaiterPerBucket == ~failed

\* The status a thread waits for is that of its own frame: a frame in the air has
\* its sender waiting in its bucket, and is the only one there.
FrameHasItsWaiter ==
  \A f \in air :
    /\ pc[f.by] \in {"removePeer", "wait"} /\ dst[f.by] = f.to
    /\ promise[BucketOf[f.to]] = "waited"
    /\ \A g \in air : BucketOf[g.to] = BucketOf[f.to] => g = f

\* "switch to it's channel": outside a scan the radio is on the channel of the
\* bridge the node sends to, by what was noted when the bridge was heard.
RadioFollowsBridge ==
  ~Scanning /\ bestBridge # NoBridge =>
    radio = bestBridge.ch /\ bestBridge.ch = BridgeChannel[bestBridge.addr]

\* The radio leaves the bridge's channel for a scan only: no message is sent then.
ScanUndisturbed == [][Scanning => \A f \in air' \ air : f.to = Broadcast]_vars

\* Neither m_mutex nor a bucket stays locked: send() and the scan come to an end.
LocksReleased ==
  /\ mutex # Free ~> mutex = Free
  /\ \A b \in Bucket : bucketMutex[b] # Free ~> bucketMutex[b] = Free
------------------------------------------------------------------------------
(* The inductive invariant behind the safety properties. *)

\* Who uses the radio holds m_mutex, and the scan holds it throughout.
HoldsMutex(t) == pc[t] \in {"addPeer", "transmit", "removePeer"} \/ dst[t] = Broadcast
MutexInv == \A t \in Thread : mutex = t <=> HoldsMutex(t)

\* Only the scan broadcasts, and who sends knows where to.
DstInv ==
  /\ \A t \in Thread :
       /\ dst[t] = Broadcast => t = Connector /\ pc[t] \in Sending \cup {"listen"}
       /\ pc[t] \in Sending \cup {"lock"} => dst[t] # NoAddr
       /\ pc[t] = "listen" => dst[t] = Broadcast
       /\ pc[t] = "resubscribe" => t = Connector
  /\ pc[Connector] = "resubscribe" => bestBridge # NoBridge

\* A bucket is locked by the send() that uses its promise. The scan does not lock
\* it, and relies on the bucket being its own.
BucketInv ==
  \A t \in Thread :
    pc[t] \in Sending /\ dst[t] # Broadcast => bucketMutex[BucketAt(t)] = t

\* A future is retrieved exactly while some thread sends through the bucket, and
\* has no value before the frame is handed to the adapter.
PromiseInv ==
  /\ \A b \in Bucket :
       promise[b] # "fresh" => \E t \in Thread : pc[t] \in Sending /\ BucketAt(t) = b
  /\ \A t \in Thread :
       /\ pc[t] \in Sending => promise[BucketAt(t)] # "fresh"
       /\ pc[t] \in {"addPeer", "transmit"} => promise[BucketAt(t)] = "waited"

\* A peer is registered only around its transmission.
PeerInv ==
  \A a \in registered : \E t \in Thread : pc[t] \in {"transmit", "removePeer"} /\ dst[t] = a

\* Unless responses are handled late, they are handled on the channel they came
\* from, and a bridge is noted with its own channel.
ChannelInv ==
  ~LateAnswers =>
    /\ \A b \in answers : Scanning /\ BridgeChannel[b] = radio
    /\ \A b \in answers : pc[Connector] \notin {"addPeer", "transmit"}
    /\ \A info \in {bestBridge, retained} \ {NoBridge} : info.ch = BridgeChannel[info.addr]
    /\ ~Scanning /\ bestBridge # NoBridge => radio = bestBridge.ch

IInv ==
  /\ TypeOK /\ MutexInv /\ DstInv /\ BucketInv /\ PromiseInv /\ PeerInv /\ ChannelInv
  /\ OneWaiterPerBucket /\ FrameHasItsWaiter
==============================================================================
