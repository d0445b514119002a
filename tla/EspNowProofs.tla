----------------------------- MODULE EspNowProofs -----------------------------
(***************************************************************************)
(* Proofs about EspNow for any threads, addresses, buckets and channels.   *)
(* What is safe about send() and the scan rests on one assumption that the *)
(* code does not enforce, BroadcastAlone: no peer shares the bucket of the *)
(* broadcast address. The theorems name it.                                *)
(***************************************************************************)
EXTENDS EspNow, TLAPS

USE ThreadAssumption, AddrAssumption, BucketAssumption, RadioAssumption

\* The constructor's state satisfies the invariant.
LEMMA InitInv == Init => IInv
<1> SUFFICES ASSUME Init PROVE IInv
  OBVIOUS
<1> USE DEF Init
<1>1. TypeOK
  <2>1. radio \in Channel
    BY DEF Channel
  <2>2. promise \in [Bucket -> Promise] /\ bucketMutex \in [Bucket -> Thread \cup {Free}]
    BY DEF Promise
  <2> QED
    BY <2>1, <2>2 DEF TypeOK
<1>2. MutexInv /\ DstInv /\ BucketInv
  BY DEF MutexInv, HoldsMutex, DstInv, BucketInv, Sending, Thread, Addr
<1>3. PromiseInv /\ PeerInv /\ ChannelInv
  BY DEF PromiseInv, PeerInv, ChannelInv, Sending
<1>4. OneWaiterPerBucket /\ FrameHasItsWaiter
  BY DEF OneWaiterPerBucket, FrameHasItsWaiter
<1> QED
  BY <1>1, <1>2, <1>3, <1>4 DEF IInv

\* A thread that sends knows the address, which has a bucket.
LEMMA SendingFacts ==
  ASSUME IInv, NEW t \in Thread, pc[t] \in Sending \cup {"lock"}
  PROVE  /\ dst[t] \in Addr
         /\ BucketAt(t) \in Bucket
BY DEF IInv, DstInv, TypeOK, BucketAt

\* A bucket serves one thread at a time: the mutex of the bucket keeps send()s
\* apart, and the scan has its bucket for itself.
LEMMA SoleUser ==
  ASSUME BroadcastAlone, IInv, NEW t \in Thread, NEW u \in Thread,
         pc[t] \in Sending, pc[u] \in Sending, BucketAt(t) = BucketAt(u)
  PROVE  t = u
<1>1. dst[t] \in Addr /\ dst[u] \in Addr
  BY SendingFacts
<1>2. CASE dst[t] # Broadcast /\ dst[u] # Broadcast
  BY <1>2 DEF IInv, BucketInv
<1>3. CASE dst[t] = Broadcast \/ dst[u] = Broadcast
  <2>1. dst[t] = Broadcast /\ dst[u] = Broadcast
    BY <1>1, <1>3 DEF BroadcastAlone, BucketAt, Addr
  <2> QED
    BY <2>1 DEF IInv, DstInv
<1> QED
  BY <1>2, <1>3

\* The bridges that the node may be connected to are peers.
LEMMA BestBridgeFacts ==
  ASSUME IInv, bestBridge # NoBridge
  PROVE  bestBridge.addr \in Bridge /\ bestBridge.addr \in Peer
BY DEF IInv, TypeOK, BridgeInfo

\* A bucket nobody has locked has a fresh promise, unless it is the scan's.
LEMMA FreshWhenFree ==
  ASSUME BroadcastAlone, IInv, NEW t \in Thread,
         pc[t] = "lock", bucketMutex[BucketAt(t)] = Free
  PROVE  promise[BucketAt(t)] = "fresh"
<1> SUFFICES ASSUME promise[BucketAt(t)] # "fresh" PROVE FALSE
  OBVIOUS
<1>1. dst[t] \in Addr /\ BucketAt(t) \in Bucket
  BY SendingFacts
<1>2. dst[t] \in Peer
  BY <1>1 DEF Addr, IInv, DstInv, Sending
<1>3. PICK u \in Thread : pc[u] \in Sending /\ BucketAt(u) = BucketAt(t)
  BY <1>1 DEF IInv, PromiseInv
<1>4. dst[u] # Broadcast
  BY <1>2, <1>3 DEF BroadcastAlone, BucketAt
<1>5. bucketMutex[BucketAt(u)] = u
  BY <1>3, <1>4 DEF IInv, BucketInv
<1> QED
  BY <1>3, <1>5

\* The scan's bucket has a fresh promise between its rounds.
LEMMA FreshForScan ==
  ASSUME BroadcastAlone, IInv, pc[Connector] \notin Sending
  PROVE  promise[BucketOf[Broadcast]] = "fresh"
<1> SUFFICES ASSUME promise[BucketOf[Broadcast]] # "fresh" PROVE FALSE
  OBVIOUS
<1>1. PICK u \in Thread : pc[u] \in Sending /\ BucketAt(u) = BucketOf[Broadcast]
  BY DEF IInv, PromiseInv, Addr
<1>2. dst[u] = Broadcast
  BY <1>1, SendingFacts DEF BroadcastAlone, BucketAt, Addr
<1> QED
  BY <1>1, <1>2 DEF IInv, DstInv

\* A call of send() only fixes its destination.
LEMMA SendInv ==
  ASSUME IInv, NEW t \in Sender, NEW to \in Destination, Send(t, to)
  PROVE  IInv'
<1> USE DEF IInv, Send, Goto
<1>0. dst' = [dst EXCEPT ![t] = dst'[t]] /\ dst'[t] \in Addr \ {Broadcast, NoAddr}
  <2>1. CASE to = NoAddr
    BY <2>1, BestBridgeFacts DEF TypeOK, Thread, Addr, NoBridge
  <2>2. CASE to # NoAddr
    BY <2>2 DEF TypeOK, Thread, Addr
  <2> QED
    BY <2>1, <2>2
<1>1. TypeOK'
  BY <1>0 DEF TypeOK, Thread, Addr
<1>2. MutexInv'
  BY <1>0 DEF TypeOK, MutexInv, HoldsMutex, DstInv, Sending, Thread, Addr
<1>3. DstInv'
  BY <1>0 DEF TypeOK, DstInv, Sending, Thread
<1>4. BucketInv'
  BY DEF TypeOK, DstInv, BucketInv, BucketAt, Sending
<1>5. PromiseInv'
  BY DEF TypeOK, DstInv, PromiseInv, BucketAt, Sending
<1>6. PeerInv'
  BY DEF TypeOK, PeerInv, MutexInv, HoldsMutex
<1>7. ChannelInv'
  BY DEF TypeOK, ChannelInv, Scanning, MutexInv, HoldsMutex, DstInv, Sending
<1>8. OneWaiterPerBucket'
  BY DEF OneWaiterPerBucket
<1>9. FrameHasItsWaiter'
  BY DEF TypeOK, FrameHasItsWaiter, BucketAt, Sending, Frame
<1> QED
  BY <1>1, <1>2, <1>3, <1>4, <1>5, <1>6, <1>7, <1>8, <1>9

\* send() gets its bucket when the last one is done with it: the promise is fresh.
LEMMA LockInv ==
  ASSUME BroadcastAlone, IInv, NEW t \in Thread, Lock(t)
  PROVE  IInv'
<1> USE DEF IInv, Lock, GetFuture, Goto
<1>1. TypeOK'
  BY DEF TypeOK, Promise, Sending
<1>2. MutexInv'
  BY DEF TypeOK, MutexInv, HoldsMutex, DstInv, Sending
<1>3. DstInv'
  BY DEF TypeOK, DstInv, Sending, Thread, Addr
<1>4. BucketInv'
  BY DEF TypeOK, DstInv, BucketInv, BucketAt, Sending
<1>5. PromiseInv'
  BY FreshWhenFree, SendingFacts DEF TypeOK, DstInv, PromiseInv, BucketAt, Sending
<1>6. PeerInv'
  BY DEF TypeOK, PeerInv, MutexInv, HoldsMutex
<1>7. ChannelInv'
  BY DEF TypeOK, ChannelInv, Scanning, MutexInv, HoldsMutex, DstInv, Sending
<1>8. OneWaiterPerBucket'
  BY FreshWhenFree DEF OneWaiterPerBucket
<1>9. FrameHasItsWaiter'
  BY FreshWhenFree, SendingFacts DEF TypeOK, FrameHasItsWaiter, BucketAt, Sending, Frame
<1> QED
  BY <1>1, <1>2, <1>3, <1>4, <1>5, <1>6, <1>7, <1>8, <1>9

\* No peer is registered when the next one comes, as m_mutex is held meanwhile.
LEMMA AddPeerInv ==
  ASSUME IInv, NEW t \in Thread, AddPeer(t)
  PROVE  IInv'
<1> USE DEF IInv, AddPeer, Goto
<1>0. failed' = failed
  <2>1. dst[t] \notin registered
    BY DEF PeerInv, MutexInv, HoldsMutex
  <2> QED
    BY <2>1
<1>1. TypeOK'
  BY <1>0, SendingFacts DEF TypeOK, Sending
<1>2. MutexInv'
  BY DEF TypeOK, MutexInv, HoldsMutex, DstInv, Sending
<1>3. DstInv'
  BY DEF TypeOK, DstInv, Sending, Thread, Addr
<1>4. BucketInv'
  BY DEF TypeOK, DstInv, BucketInv, BucketAt, Sending
<1>5. PromiseInv'
  BY DEF TypeOK, DstInv, PromiseInv, BucketAt, Sending
<1>6. PeerInv'
  BY DEF TypeOK, PeerInv, MutexInv, HoldsMutex
<1>7. ChannelInv'
  BY DEF TypeOK, ChannelInv, Scanning, MutexInv, HoldsMutex, DstInv, Sending
<1>8. OneWaiterPerBucket'
  BY <1>0 DEF OneWaiterPerBucket
<1>9. FrameHasItsWaiter'
  BY DEF TypeOK, FrameHasItsWaiter, BucketAt, Sending, Frame
<1> QED
  BY <1>1, <1>2, <1>3, <1>4, <1>5, <1>6, <1>7, <1>8, <1>9

\* The frame in the air is the only one of its bucket.
LEMMA TransmitInv ==
  ASSUME BroadcastAlone, IInv, NEW t \in Thread, Transmit(t)
  PROVE  IInv'
<1> USE DEF IInv, Transmit, Goto
<1>1. TypeOK'
  <2>1. dst[t] \in Addr
    BY SendingFacts DEF Sending
  <2>2. air' \subseteq Frame
    BY <2>1 DEF TypeOK, Frame
  <2> QED
    BY <2>2 DEF TypeOK, Sending
<1>2. MutexInv'
  BY DEF TypeOK, MutexInv, HoldsMutex, DstInv, Sending
<1>3. DstInv'
  BY DEF TypeOK, DstInv, Sending, Thread, Addr
<1>4. BucketInv'
  BY DEF TypeOK, DstInv, BucketInv, BucketAt, Sending
<1>5. PromiseInv'
  BY DEF TypeOK, DstInv, PromiseInv, BucketAt, Sending
<1>6. PeerInv'
  BY DEF TypeOK, PeerInv, MutexInv, HoldsMutex
<1>7. ChannelInv'
  BY DEF TypeOK, ChannelInv, Scanning, MutexInv, HoldsMutex, DstInv, Sending
<1>8. OneWaiterPerBucket'
  BY DEF OneWaiterPerBucket
<1>9. FrameHasItsWaiter'
  <2> DEFINE new == [by |-> t, to |-> dst[t]]
  <2>1. ASSUME NEW f \in air
        PROVE  f.by \in Thread /\ f.by # t /\ BucketOf[f.to] # BucketAt(t)
    <3>1. f.by \in Thread /\ pc[f.by] \in {"removePeer", "wait"} /\ dst[f.by] = f.to
      BY DEF TypeOK, Frame, FrameHasItsWaiter
    <3> QED
      BY <3>1, SoleUser DEF Sending, BucketAt
  <2>2. promise[BucketAt(t)] = "waited"
    BY DEF PromiseInv
  <2>3. ASSUME NEW f \in air'
        PROVE  /\ pc'[f.by] \in {"removePeer", "wait"} /\ dst'[f.by] = f.to
               /\ promise'[BucketOf[f.to]] = "waited"
    BY <2>1, <2>2 DEF TypeOK, FrameHasItsWaiter, BucketAt
  <2>4. ASSUME NEW f \in air', NEW g \in air', BucketOf[g.to] = BucketOf[f.to]
        PROVE  g = f
    BY <2>1, <2>4 DEF FrameHasItsWaiter, BucketAt
  <2> QED
    BY <2>3, <2>4 DEF FrameHasItsWaiter
<1> QED
  BY <1>1, <1>2, <1>3, <1>4, <1>5, <1>6, <1>7, <1>8, <1>9

\* send() gives up m_mutex with the peer, and the scan keeps it.
LEMMA RemovePeerInv ==
  ASSUME IInv, NEW t \in Thread, RemovePeer(t)
  PROVE  IInv'
<1> USE DEF IInv, RemovePeer, Goto
<1>1. TypeOK'
  BY DEF TypeOK, Sending
<1>2. MutexInv'
  BY DEF TypeOK, MutexInv, HoldsMutex, DstInv, Sending
<1>3. DstInv'
  BY DEF TypeOK, DstInv, Sending, Thread, Addr
<1>4. BucketInv'
  BY DEF TypeOK, DstInv, BucketInv, BucketAt, Sending
<1>5. PromiseInv'
  BY DEF TypeOK, DstInv, PromiseInv, BucketAt, Sending
<1>6. PeerInv'
  BY DEF TypeOK, PeerInv, MutexInv, HoldsMutex
<1>7. ChannelInv'
  BY DEF TypeOK, ChannelInv, Scanning, MutexInv, HoldsMutex, DstInv, Sending
<1>8. OneWaiterPerBucket'
  BY DEF OneWaiterPerBucket
<1>9. FrameHasItsWaiter'
  BY DEF TypeOK, FrameHasItsWaiter, BucketAt, Sending, Frame
<1> QED
  BY <1>1, <1>2, <1>3, <1>4, <1>5, <1>6, <1>7, <1>8, <1>9

\* The promise is replaced before anybody else may use it.
LEMMA SendReturnsInv ==
  ASSUME BroadcastAlone, IInv, NEW t \in Thread, SendReturns(t)
  PROVE  IInv'
<1> USE DEF IInv, SendReturns, Answered, Goto
<1>1. TypeOK'
  BY DEF TypeOK, Promise
<1>2. MutexInv'
  BY DEF TypeOK, MutexInv, HoldsMutex, DstInv, Sending
<1>3. DstInv'
  BY DEF TypeOK, DstInv, Sending, Thread, Addr
<1>4. BucketInv'
  BY DEF TypeOK, DstInv, BucketInv, BucketAt, Sending
<1>5. PromiseInv'
  BY SoleUser, SendingFacts DEF TypeOK, DstInv, PromiseInv, BucketAt, Sending
<1>6. PeerInv'
  BY DEF TypeOK, PeerInv, MutexInv, HoldsMutex
<1>7. ChannelInv'
  BY DEF TypeOK, ChannelInv, Scanning, MutexInv, HoldsMutex, DstInv, Sending
<1>8. OneWaiterPerBucket'
  BY DEF OneWaiterPerBucket
<1>9. FrameHasItsWaiter'
  BY DEF TypeOK, FrameHasItsWaiter, BucketAt, Sending, Frame
<1> QED
  BY <1>1, <1>2, <1>3, <1>4, <1>5, <1>6, <1>7, <1>8, <1>9

\* A retained bridge brings its channel.
LEMMA ReconnectInv ==
  ASSUME IInv, Reconnect
  PROVE  IInv'
<1> USE DEF IInv, Reconnect
<1>0. /\ bestBridge' \in BridgeInfo /\ bestBridge' # NoBridge /\ retained \in BridgeInfo
      /\ bestBridge'.addr = retained.addr /\ bestBridge'.ch = retained.ch
  <2>1. retained \in BridgeInfo
    BY DEF TypeOK
  <2> QED
    BY <2>1 DEF BridgeInfo, NoBridge, Addr
<1>1. TypeOK'
  BY <1>0 DEF TypeOK, BridgeInfo
<1>2. MutexInv'
  BY DEF TypeOK, MutexInv, HoldsMutex, DstInv, Sending
<1>3. DstInv'
  BY <1>0 DEF DstInv, Thread
<1>4. BucketInv'
  BY DEF TypeOK, DstInv, BucketInv, BucketAt, Sending
<1>5. PromiseInv'
  BY DEF TypeOK, DstInv, PromiseInv, BucketAt, Sending
<1>6. PeerInv'
  BY DEF TypeOK, PeerInv, MutexInv, HoldsMutex
<1>7. ChannelInv'
  BY <1>0 DEF TypeOK, ChannelInv, Scanning, DstInv, Thread, Sending
<1>8. OneWaiterPerBucket'
  BY DEF OneWaiterPerBucket
<1>9. FrameHasItsWaiter'
  BY DEF TypeOK, FrameHasItsWaiter, BucketAt, Sending, Frame
<1> QED
  BY <1>1, <1>2, <1>3, <1>4, <1>5, <1>6, <1>7, <1>8, <1>9

\* The scan finds the promise of its bucket fresh, since the bucket is its own.
LEMMA StartScanInv ==
  ASSUME BroadcastAlone, IInv, StartScan
  PROVE  IInv'
<1> USE DEF IInv, StartScan, ProbeChannel, Goto
<1>0. /\ promise' = [promise EXCEPT ![BucketOf[Broadcast]] = "waited"]
      /\ failed' = failed
  BY FreshForScan DEF Sending, GetFuture
<1>1. TypeOK'
  <2>1. radio' \in Channel
    BY DEF Channel
  <2> QED
    BY <1>0, <2>1 DEF TypeOK, Promise, Thread, Addr, Sending
<1>2. MutexInv'
  BY DEF TypeOK, MutexInv, HoldsMutex, Thread
<1>3. DstInv'
  BY DEF TypeOK, DstInv, Sending, Thread, Addr
<1>4. BucketInv'
  BY DEF TypeOK, DstInv, BucketInv, BucketAt, Sending
<1>5. PromiseInv'
  <2>1. pc'[Connector] = "addPeer" /\ BucketAt(Connector)' = BucketOf[Broadcast]
    BY DEF TypeOK, BucketAt, Thread, DstInv
  <2>2. \A t \in Thread \ {Connector} : pc'[t] = pc[t] /\ BucketAt(t)' = BucketAt(t)
    BY DEF TypeOK, BucketAt
  <2>3. ASSUME NEW b \in Bucket, promise'[b] # "fresh"
        PROVE  \E t \in Thread : pc'[t] \in Sending /\ BucketAt(t)' = b
    <3>1. CASE b = BucketOf[Broadcast]
      BY <2>1, <3>1 DEF Thread, Sending
    <3>2. CASE b # BucketOf[Broadcast]
      BY <1>0, <2>2, <2>3, <3>2 DEF TypeOK, PromiseInv, Sending
    <3> QED
      BY <3>1, <3>2
  <2>4. ASSUME NEW t \in Thread, pc'[t] \in Sending
        PROVE  /\ promise'[BucketAt(t)'] # "fresh"
               /\ pc'[t] \in {"addPeer", "transmit"} => promise'[BucketAt(t)'] = "waited"
    <3>1. BucketOf[Broadcast] \in Bucket
      BY DEF Addr
    <3>2. CASE t = Connector
      BY <1>0, <2>1, <3>1, <3>2 DEF TypeOK
    <3>3. CASE t # Connector
      BY <1>0, <2>2, <2>4, <3>1, <3>3, SendingFacts DEF TypeOK, PromiseInv
    <3> QED
      BY <3>2, <3>3
  <2> QED
    BY <2>3, <2>4 DEF PromiseInv, Sending
<1>6. PeerInv'
  BY DEF TypeOK, PeerInv, MutexInv, HoldsMutex
<1>7. ChannelInv'
  BY DEF TypeOK, ChannelInv, Scanning, Thread
<1>8. OneWaiterPerBucket'
  BY <1>0 DEF OneWaiterPerBucket
<1>9. FrameHasItsWaiter'
  BY <1>0, FreshForScan DEF TypeOK, FrameHasItsWaiter, Sending, Frame
<1> QED
  BY <1>1, <1>2, <1>3, <1>4, <1>5, <1>6, <1>7, <1>8, <1>9

\* The scan replaces its promise in every round.
LEMMA ProbeSentInv ==
  ASSUME BroadcastAlone, IInv, ProbeSent
  PROVE  IInv'
<1> USE DEF IInv, ProbeSent, Answered, Scanning, Goto
<1>1. TypeOK'
  BY DEF TypeOK, Promise
<1>2. MutexInv'
  BY DEF TypeOK, MutexInv, HoldsMutex, Thread
<1>3. DstInv'
  BY DEF TypeOK, DstInv, Sending, Thread, Addr
<1>4. BucketInv'
  BY DEF TypeOK, DstInv, BucketInv, BucketAt, Sending
<1>5. PromiseInv'
  BY SoleUser DEF TypeOK, DstInv, PromiseInv, BucketAt, Sending, Thread
<1>6. PeerInv'
  BY DEF TypeOK, PeerInv, MutexInv, HoldsMutex
<1>7. ChannelInv'
  BY DEF TypeOK, ChannelInv, Scanning, MutexInv, HoldsMutex, DstInv, Sending
<1>8. OneWaiterPerBucket'
  BY DEF OneWaiterPerBucket
<1>9. FrameHasItsWaiter'
  BY DEF TypeOK, FrameHasItsWaiter, BucketAt, Sending, Frame
<1> QED
  BY <1>1, <1>2, <1>3, <1>4, <1>5, <1>6, <1>7, <1>8, <1>9

\* So it finds a fresh one in the next.
LEMMA NextChannelInv ==
  ASSUME BroadcastAlone, IInv, NextChannel
  PROVE  IInv'
<1> USE DEF IInv, NextChannel, Listened, ProbeChannel, Goto
<1>0. /\ promise' = [promise EXCEPT ![BucketOf[Broadcast]] = "waited"]
      /\ failed' = failed
  BY FreshForScan DEF Sending, GetFuture
<1>1. TypeOK'
  <2>1. radio' \in Channel
    BY DEF TypeOK, Channel
  <2> QED
    BY <1>0, <2>1 DEF TypeOK, Promise, Sending
<1>2. MutexInv'
  BY DEF TypeOK, MutexInv, HoldsMutex, DstInv, Thread
<1>3. DstInv'
  BY DEF TypeOK, DstInv, Sending, Thread, Addr
<1>4. BucketInv'
  BY DEF TypeOK, DstInv, BucketInv, BucketAt, Sending
<1>5. PromiseInv'
  <2>1. pc'[Connector] = "addPeer" /\ BucketAt(Connector)' = BucketOf[Broadcast]
    BY DEF TypeOK, BucketAt, Thread, DstInv
  <2>2. \A t \in Thread \ {Connector} : pc'[t] = pc[t] /\ BucketAt(t)' = BucketAt(t)
    BY DEF TypeOK, BucketAt
  <2>3. ASSUME NEW b \in Bucket, promise'[b] # "fresh"
        PROVE  \E t \in Thread : pc'[t] \in Sending /\ BucketAt(t)' = b
    <3>1. CASE b = BucketOf[Broadcast]
      BY <2>1, <3>1 DEF Thread, Sending
    <3>2. CASE b # BucketOf[Broadcast]
      BY <1>0, <2>2, <2>3, <3>2 DEF TypeOK, PromiseInv, Sending
    <3> QED
      BY <3>1, <3>2
  <2>4. ASSUME NEW t \in Thread, pc'[t] \in Sending
        PROVE  /\ promise'[BucketAt(t)'] # "fresh"
               /\ pc'[t] \in {"addPeer", "transmit"} => promise'[BucketAt(t)'] = "waited"
    <3>1. BucketOf[Broadcast] \in Bucket
      BY DEF Addr
    <3>2. CASE t = Connector
      BY <1>0, <2>1, <3>1, <3>2 DEF TypeOK
    <3>3. CASE t # Connector
      BY <1>0, <2>2, <2>4, <3>1, <3>3, SendingFacts DEF TypeOK, PromiseInv
    <3> QED
      BY <3>2, <3>3
  <2> QED
    BY <2>3, <2>4 DEF PromiseInv, Sending
<1>6. PeerInv'
  BY DEF TypeOK, PeerInv, MutexInv, HoldsMutex
<1>7. ChannelInv'
  BY DEF TypeOK, ChannelInv, Scanning, DstInv, Thread
<1>8. OneWaiterPerBucket'
  BY <1>0 DEF OneWaiterPerBucket
<1>9. FrameHasItsWaiter'
  BY <1>0, FreshForScan DEF TypeOK, FrameHasItsWaiter, Sending, Frame
<1> QED
  BY <1>1, <1>2, <1>3, <1>4, <1>5, <1>6, <1>7, <1>8, <1>9

\* The scan ends on the channel of the bridge it found.
LEMMA ScanEndsInv ==
  ASSUME IInv, ScanEnds
  PROVE  IInv'
<1> USE DEF IInv, ScanEnds, Listened, Goto
<1>1. TypeOK'
  <2>1. radio' \in Channel
    BY DEF TypeOK, BridgeInfo
  <2> QED
    BY <2>1 DEF TypeOK
<1>2. MutexInv'
  BY DEF TypeOK, MutexInv, HoldsMutex, DstInv, Thread, Addr
<1>3. DstInv'
  BY DEF TypeOK, DstInv, Sending, Thread, Addr
<1>4. BucketInv'
  BY DEF TypeOK, DstInv, BucketInv, BucketAt, Sending
<1>5. PromiseInv'
  BY DEF TypeOK, DstInv, PromiseInv, BucketAt, Sending
<1>6. PeerInv'
  BY DEF TypeOK, PeerInv, MutexInv, HoldsMutex
<1>7. ChannelInv'
  BY DEF TypeOK, ChannelInv, Scanning, DstInv, Thread, Addr
<1>8. OneWaiterPerBucket'
  BY DEF OneWaiterPerBucket
<1>9. FrameHasItsWaiter'
  BY DEF TypeOK, FrameHasItsWaiter, BucketAt, Sending, Frame
<1> QED
  BY <1>1, <1>2, <1>3, <1>4, <1>5, <1>6, <1>7, <1>8, <1>9

\* The node resubscribes at the bridge it is connected to.
LEMMA ResubscribeInv ==
  ASSUME IInv, Resubscribe
  PROVE  IInv'
<1> USE DEF IInv, Resubscribe, Goto
<1>0. bestBridge.addr \in Peer
  BY BestBridgeFacts DEF DstInv
<1>1. TypeOK'
  BY <1>0 DEF TypeOK, Addr
<1>2. MutexInv'
  BY <1>0 DEF TypeOK, MutexInv, HoldsMutex, DstInv, Sending, Thread
<1>3. DstInv'
  BY <1>0 DEF TypeOK, DstInv, Sending, Thread, Addr
<1>4. BucketInv'
  BY DEF TypeOK, DstInv, BucketInv, BucketAt, Sending
<1>5. PromiseInv'
  BY DEF TypeOK, DstInv, PromiseInv, BucketAt, Sending
<1>6. PeerInv'
  BY DEF TypeOK, PeerInv, MutexInv, HoldsMutex
<1>7. ChannelInv'
  BY <1>0 DEF TypeOK, ChannelInv, Scanning, DstInv, Sending, Thread
<1>8. OneWaiterPerBucket'
  BY DEF OneWaiterPerBucket
<1>9. FrameHasItsWaiter'
  BY DEF TypeOK, FrameHasItsWaiter, BucketAt, Sending, Frame
<1> QED
  BY <1>1, <1>2, <1>3, <1>4, <1>5, <1>6, <1>7, <1>8, <1>9

\* The status of a frame reaches the promise its sender waits for, and only once.
LEMMA SendCbInv ==
  ASSUME BroadcastAlone, IInv, NEW f \in air, SendCb(f)
  PROVE  IInv'
<1> USE DEF IInv, SendCb
<1>0. /\ f.by \in Thread /\ pc[f.by] \in {"removePeer", "wait"} /\ dst[f.by] = f.to
      /\ f.to \in Addr
      /\ promise[BucketOf[f.to]] = "waited"
      /\ failed' = failed
      /\ \E fate \in {"delivered", "lost"} : promise' = [promise EXCEPT ![BucketOf[f.to]] = fate]
  <2>1. f.by \in Thread /\ f.to \in Addr
    BY DEF TypeOK, Frame
  <2>2. /\ pc[f.by] \in {"removePeer", "wait"} /\ dst[f.by] = f.to
        /\ promise[BucketOf[f.to]] = "waited"
    BY DEF FrameHasItsWaiter
  <2>3. failed' = failed
    BY <2>2
  <2>4. \E fate \in {"delivered", "lost"} : promise' = [promise EXCEPT ![BucketOf[f.to]] = fate]
    BY <2>2
  <2> QED
    BY <2>1, <2>2, <2>3, <2>4
<1>1. TypeOK'
  BY <1>0 DEF TypeOK, Promise
<1>2. MutexInv'
  BY DEF TypeOK, MutexInv, HoldsMutex, DstInv, Sending
<1>3. DstInv'
  BY DEF TypeOK, DstInv, Sending, Thread, Addr
<1>4. BucketInv'
  BY DEF TypeOK, DstInv, BucketInv, BucketAt, Sending
<1>5. PromiseInv'
  BY <1>0, SoleUser DEF TypeOK, PromiseInv, BucketAt, Sending
<1>6. PeerInv'
  BY DEF TypeOK, PeerInv, MutexInv, HoldsMutex
<1>7. ChannelInv'
  BY DEF TypeOK, ChannelInv, Scanning, MutexInv, HoldsMutex, DstInv, Sending
<1>8. OneWaiterPerBucket'
  BY <1>0 DEF OneWaiterPerBucket
<1>9. FrameHasItsWaiter'
  BY <1>0 DEF TypeOK, FrameHasItsWaiter, Frame
<1> QED
  BY <1>1, <1>2, <1>3, <1>4, <1>5, <1>6, <1>7, <1>8, <1>9

\* A response is noted with the channel the WiFi is on.
LEMMA ReceiveProbeResInv ==
  ASSUME IInv, NEW b \in answers, ReceiveProbeRes(b)
  PROVE  IInv'
<1> USE DEF IInv, ReceiveProbeRes
<1>0. \/ bestBridge' = bestBridge
      \/ /\ bestBridge' \in BridgeInfo /\ bestBridge' # NoBridge
         /\ bestBridge'.addr = b /\ bestBridge'.ch = radio
  BY DEF TypeOK, BridgeInfo, NoBridge, Addr
<1>1. TypeOK'
  BY <1>0 DEF TypeOK
<1>2. MutexInv'
  BY DEF TypeOK, MutexInv, HoldsMutex, DstInv, Sending
<1>3. DstInv'
  BY <1>0 DEF DstInv
<1>4. BucketInv'
  BY DEF TypeOK, DstInv, BucketInv, BucketAt, Sending
<1>5. PromiseInv'
  BY DEF TypeOK, DstInv, PromiseInv, BucketAt, Sending
<1>6. PeerInv'
  BY DEF TypeOK, PeerInv, MutexInv, HoldsMutex
<1>7. ChannelInv'
  BY <1>0 DEF ChannelInv, Scanning
<1>8. OneWaiterPerBucket'
  BY DEF OneWaiterPerBucket
<1>9. FrameHasItsWaiter'
  BY DEF TypeOK, FrameHasItsWaiter, BucketAt, Sending, Frame
<1> QED
  BY <1>1, <1>2, <1>3, <1>4, <1>5, <1>6, <1>7, <1>8, <1>9
------------------------------------------------------------------------------

\* The inductive invariant: one case per action.
THEOREM InductiveInvariant ==
  ASSUME BroadcastAlone
  PROVE  Spec => []IInv
<1>1. Init => IInv
  BY InitInv
<1>2. IInv /\ [Next]_vars => IInv'
  <2> SUFFICES ASSUME IInv, [Next]_vars PROVE IInv'
    OBVIOUS
  <2>1. ASSUME NEW t \in Sender, NEW to \in Destination, Send(t, to) PROVE IInv'
    BY <2>1, SendInv
  <2>2. ASSUME NEW t \in Thread, ThreadStep(t) PROVE IInv'
    BY <2>2, LockInv, AddPeerInv, TransmitInv, RemovePeerInv, SendReturnsInv DEF ThreadStep
  <2>3. CASE Reconnect \/ StartScan
    BY <2>3, ReconnectInv, StartScanInv
  <2>4. CASE ScanStep
    BY <2>4, ProbeSentInv, NextChannelInv, ScanEndsInv, ResubscribeInv DEF ScanStep
  <2>5. ASSUME NEW f \in air, SendCb(f) PROVE IInv'
    BY <2>5, SendCbInv
  <2>6. ASSUME NEW b \in answers, ReceiveProbeRes(b) PROVE IInv'
    BY <2>6, ReceiveProbeResInv
  <2>7. CASE UNCHANGED vars
    <3> USE <2>7 DEF vars
    <3>1. TypeOK' /\ MutexInv' /\ DstInv' /\ BucketInv'
      BY DEF IInv, TypeOK, MutexInv, HoldsMutex, DstInv, BucketInv, BucketAt
    <3>2. PromiseInv' /\ PeerInv' /\ ChannelInv'
      BY DEF IInv, PromiseInv, PeerInv, ChannelInv, BucketAt, Scanning
    <3>3. OneWaiterPerBucket' /\ FrameHasItsWaiter'
      BY DEF IInv, OneWaiterPerBucket, FrameHasItsWaiter
    <3> QED
      BY <3>1, <3>2, <3>3 DEF IInv
  <2> QED
    BY <2>1, <2>2, <2>3, <2>4, <2>5, <2>6, <2>7 DEF Next
<1> QED
  BY <1>1, <1>2, PTL DEF Spec

\* Every variable of the layer keeps its type.
THEOREM TypeCorrect ==
  ASSUME BroadcastAlone
  PROVE  Spec => []TypeOK
BY InductiveInvariant, PTL DEF IInv

\* Only one thread waits for a status per bucket: neither send(), the scan, sendCb()
\* nor the adapter ever throws.
THEOREM BucketsServeOne ==
  ASSUME BroadcastAlone
  PROVE  Spec => []OneWaiterPerBucket
BY InductiveInvariant, PTL DEF IInv

\* send() returns the fate of its own frame.
THEOREM StatusIsOwn ==
  ASSUME BroadcastAlone
  PROVE  Spec => []FrameHasItsWaiter
BY InductiveInvariant, PTL DEF IInv

\* If responses are handled in time, the radio is on the channel of the bridge
\* whenever no scan is going on.
THEOREM RadioIsRight ==
  ASSUME BroadcastAlone, ~LateAnswers
  PROVE  Spec => []RadioFollowsBridge
<1>1. IInv => RadioFollowsBridge
  <2> SUFFICES ASSUME IInv, ~Scanning, bestBridge # NoBridge
               PROVE  radio = bestBridge.ch /\ bestBridge.ch = BridgeChannel[bestBridge.addr]
    BY DEF RadioFollowsBridge
  <2> QED
    BY DEF IInv, ChannelInv
<1> QED
  BY <1>1, InductiveInvariant, PTL

\* Nothing but probe requests is sent during a scan: m_mutex is held throughout.
THEOREM ScanIsUndisturbed ==
  ASSUME BroadcastAlone
  PROVE  Spec => ScanUndisturbed
<1> DEFINE Undisturbed == Scanning => \A f \in air' \ air : f.to = Broadcast
<1>1. IInv /\ [Next]_vars => [Undisturbed]_vars
  <2> SUFFICES ASSUME IInv, Next, Scanning, NEW f \in air' \ air PROVE f.to = Broadcast
    OBVIOUS
  <2>1. PICK t \in Thread : Transmit(t)
    BY DEF Next, Send, ThreadStep, Lock, AddPeer, RemovePeer, SendReturns, Reconnect, StartScan,
           ScanStep, ProbeSent, NextChannel, ScanEnds, Resubscribe, SendCb, ReceiveProbeRes
  <2>2. mutex = t /\ mutex = Connector
    BY <2>1 DEF IInv, MutexInv, HoldsMutex, Transmit, Scanning, Thread
  <2> QED
    BY <2>1, <2>2 DEF Transmit, Scanning
<1> QED
  BY <1>1, InductiveInvariant, PTL DEF Spec, ScanUndisturbed
------------------------------------------------------------------------------
(* Nobody who holds a lock waits for another one.                          *)

\* The status of a frame is still to come as long as its sender has none.
ReportInv ==
  \A t \in Thread :
    pc[t] \in {"removePeer", "wait"} /\ promise[BucketAt(t)] = "waited" =>
      [by |-> t, to |-> dst[t]] \in air

\* A bucket is locked by a send() through it and by nobody else.
OwnerInv ==
  \A t \in Thread, b \in Bucket :
    bucketMutex[b] = t => pc[t] \in Sending /\ BucketAt(t) = b /\ dst[t] # Broadcast

\* A promise whose future is retrieved has nobody else sending through its bucket.
LEMMA RetrievedOnce ==
  ASSUME IInv, NEW b \in Bucket, GetFuture(b), NEW t \in Thread, pc[t] \in Sending
  PROVE  promise'[BucketAt(t)] = promise[BucketAt(t)]
<1>1. promise[BucketAt(t)] # "fresh"
  BY DEF IInv, PromiseInv
<1>2. promise \in [Bucket -> Promise] /\ BucketAt(t) \in Bucket
  BY SendingFacts DEF IInv, TypeOK
<1> DEFINE c == BucketAt(t)
<1> HIDE DEF c
<1>3. CASE c = b
  BY <1>1, <1>3 DEF GetFuture, c
<1>4. CASE c # b
  BY <1>2, <1>4 DEF GetFuture, c
<1> QED
  BY <1>3, <1>4 DEF c

\* Every step keeps the report of a frame coming.
LEMMA ReportStep ==
  ASSUME IInv, ReportInv, Next
  PROVE  ReportInv'
<1> SUFFICES ASSUME NEW u \in Thread, pc'[u] \in {"removePeer", "wait"},
                    (promise[BucketAt(u)])' = "waited"
             PROVE  [by |-> u, to |-> dst'[u]] \in air'
  BY DEF ReportInv
<1> USE DEF Goto
<1>0. pc \in [Thread -> Sending \cup {"idle", "lock", "listen", "resubscribe"}] /\ dst \in [Thread -> Addr \cup {NoAddr}]
  BY DEF IInv, TypeOK
<1>00. promise \in [Bucket -> Promise]
  BY DEF IInv, TypeOK
<1>1. ASSUME NEW t \in Sender, NEW to \in Destination, Send(t, to)
      PROVE  [by |-> u, to |-> dst'[u]] \in air'
  BY <1>0, <1>1 DEF Send, ReportInv, BucketAt, Thread
<1>2. ASSUME NEW t \in Thread, Lock(t) PROVE [by |-> u, to |-> dst'[u]] \in air'
  <2>1. u # t /\ pc'[u] = pc[u] /\ dst' = dst /\ air' = air
    BY <1>0, <1>2 DEF Lock
  <2>2. BucketAt(t) \in Bucket /\ GetFuture(BucketAt(t))
    BY <1>2, SendingFacts DEF Lock
  <2>3. promise'[BucketAt(u)] = promise[BucketAt(u)]
    BY <2>1, <2>2, RetrievedOnce DEF Sending
  <2> QED
    BY <2>1, <2>3 DEF ReportInv, BucketAt
<1>3. ASSUME NEW t \in Thread, AddPeer(t) PROVE [by |-> u, to |-> dst'[u]] \in air'
  BY <1>0, <1>3 DEF AddPeer, ReportInv, BucketAt
<1>4. ASSUME NEW t \in Thread, Transmit(t) PROVE [by |-> u, to |-> dst'[u]] \in air'
  BY <1>0, <1>4 DEF Transmit, ReportInv, BucketAt
<1>5. ASSUME NEW t \in Thread, RemovePeer(t) PROVE [by |-> u, to |-> dst'[u]] \in air'
  BY <1>0, <1>5 DEF RemovePeer, ReportInv, BucketAt
<1>6. ASSUME NEW t \in Thread, Answered(t), u # t, pc'[u] = pc[u], dst' = dst, air' = air
      PROVE  [by |-> u, to |-> dst'[u]] \in air'
  <2>1. BucketAt(t) \in Bucket
    BY <1>6, SendingFacts DEF Answered, Sending
  <2>2. promise'[BucketAt(u)] = promise[BucketAt(u)]
    BY <1>00, <1>6, <2>1 DEF Answered, BucketAt
  <2> QED
    BY <1>6, <2>2 DEF ReportInv, BucketAt
<1>7. ASSUME NEW t \in Thread, SendReturns(t) PROVE [by |-> u, to |-> dst'[u]] \in air'
  BY <1>0, <1>6, <1>7 DEF SendReturns
<1>8. CASE Reconnect
  BY <1>8 DEF Reconnect, ReportInv, BucketAt
<1>9. CASE StartScan \/ NextChannel
  <2>1. GetFuture(BucketOf[Broadcast]) /\ BucketOf[Broadcast] \in Bucket /\ pc' = [pc EXCEPT ![Connector] = "addPeer"] /\ air' = air
    BY <1>9 DEF StartScan, NextChannel, ProbeChannel, Addr
  <2>2. u # Connector /\ pc'[u] = pc[u]
    BY <1>0, <2>1
  <2>3. dst'[u] = dst[u]
    BY <1>0, <1>9, <2>2 DEF StartScan, NextChannel
  <2>4. promise'[BucketAt(u)] = promise[BucketAt(u)]
    BY <2>1, <2>2, RetrievedOnce DEF Sending
  <2> QED
    BY <2>1, <2>2, <2>3, <2>4 DEF ReportInv, BucketAt
<1>10. CASE ProbeSent
  <2>1. Connector \in Thread
    BY DEF Thread
  <2> QED
    BY <1>0, <1>6, <1>10, <2>1 DEF ProbeSent
<1>11. CASE ScanEnds
  BY <1>0, <1>11 DEF ScanEnds, Listened, ReportInv, BucketAt
<1>12. CASE Resubscribe
  BY <1>0, <1>12 DEF Resubscribe, ReportInv, BucketAt
<1>13. ASSUME NEW f \in air, SendCb(f) PROVE [by |-> u, to |-> dst'[u]] \in air'
  <2>1. dst'[u] = dst[u] /\ pc'[u] = pc[u] /\ air' = air \ {f}
    BY <1>13 DEF SendCb
  <2>2. f.to \in Addr /\ BucketOf[f.to] \in Bucket
    BY DEF IInv, TypeOK, Frame
  <2> DEFINE b == BucketOf[f.to]
             c == BucketOf[dst[u]]
  <2>4. promise'[c] = "waited"
    BY <2>1 DEF BucketAt
  <2>5. promise' = promise \/ \E fate \in {"delivered", "lost"} : promise' = [promise EXCEPT ![b] = fate]
    BY <1>13 DEF SendCb
  <2>8. c \in Bucket
    BY <2>1, SendingFacts DEF BucketAt, Sending
  <2>6. promise' = promise => promise[b] # "waited"
    BY <1>00, <1>13, <2>2 DEF SendCb
  <2> HIDE DEF b, c
  <2>7. c # b
    BY <1>00, <2>2, <2>4, <2>5, <2>6 DEF b
  <2>3. promise[BucketAt(u)] = "waited" /\ BucketOf[f.to] # BucketAt(u)
    BY <1>00, <2>4, <2>5, <2>7, <2>8 DEF b, c, BucketAt
  <2> QED
    BY <2>1, <2>3 DEF ReportInv, BucketAt
<1>14. ASSUME NEW b \in answers, ReceiveProbeRes(b) PROVE [by |-> u, to |-> dst'[u]] \in air'
  BY <1>14 DEF ReceiveProbeRes, ReportInv, BucketAt
<1> QED
  BY <1>1, <1>2, <1>3, <1>4, <1>5, <1>7, <1>8, <1>9, <1>10, <1>11, <1>12, <1>13, <1>14
  DEF Next, ThreadStep, ScanStep

\* Every step keeps the buckets with those who use them.
LEMMA OwnerStep ==
  ASSUME IInv, OwnerInv, Next
  PROVE  OwnerInv'
<1> SUFFICES ASSUME NEW u \in Thread, NEW c \in Bucket, bucketMutex'[c] = u
             PROVE  pc'[u] \in Sending /\ BucketOf[dst'[u]] = c /\ dst'[u] # Broadcast
  BY DEF OwnerInv, BucketAt
<1> DEFINE Holds == pc'[u] \in Sending /\ BucketOf[dst'[u]] = c /\ dst'[u] # Broadcast
<1> USE DEF Goto
<1>0. /\ pc \in [Thread -> Sending \cup {"idle", "lock", "listen", "resubscribe"}]
      /\ dst \in [Thread -> Addr \cup {NoAddr}]
      /\ bucketMutex \in [Bucket -> Thread \cup {Free}]
  BY DEF IInv, TypeOK
<1>00. \A b \in Bucket : bucketMutex[b] = u =>
         pc[u] \in Sending /\ BucketOf[dst[u]] = b /\ dst[u] # Broadcast
  BY DEF OwnerInv, BucketAt
<1>1. ASSUME NEW t \in Sender, NEW to \in Destination, Send(t, to) PROVE Holds
  BY <1>0, <1>00, <1>1 DEF Send, Sending, Thread
<1>2. ASSUME NEW t \in Thread, Lock(t) PROVE Holds
  <2>1. BucketAt(t) \in Bucket /\ dst[t] # Broadcast
    BY <1>2, SendingFacts DEF Lock, IInv, DstInv, Sending
  <2>2. CASE u = t
    BY <1>0, <1>00, <1>2, <2>1, <2>2 DEF Lock, Sending, BucketAt
  <2>3. CASE u # t
    BY <1>0, <1>00, <1>2, <2>1, <2>3 DEF Lock, Sending
  <2> QED
    BY <2>2, <2>3
<1>3. ASSUME NEW t \in Thread, AddPeer(t) \/ Transmit(t) \/ RemovePeer(t) PROVE Holds
  BY <1>0, <1>00, <1>3 DEF AddPeer, Transmit, RemovePeer, Sending
<1>4. ASSUME NEW t \in Thread, SendReturns(t) PROVE Holds
  <2>1. u # t
    BY <1>0, <1>00, <1>4 DEF SendReturns, BucketAt
  <2> QED
    BY <1>0, <1>00, <1>4, <2>1 DEF SendReturns
<1>5. CASE StartScan \/ ScanStep
  <2>1. bucketMutex' = bucketMutex /\ Connector \in Thread
    BY <1>5 DEF StartScan, ScanStep, ProbeSent, NextChannel, ScanEnds, Resubscribe, Thread
  <2>2. pc[Connector] \in {"idle", "listen", "resubscribe"} \/ dst[Connector] = Broadcast
    BY <1>5 DEF StartScan, ScanStep, ProbeSent, NextChannel, ScanEnds, Resubscribe, Scanning, Listened
  <2>3. u # Connector
    BY <1>00, <2>1, <2>2 DEF Sending
  <2>4. pc'[u] = pc[u] /\ dst'[u] = dst[u]
    BY <1>0, <1>5, <2>3 DEF StartScan, ScanStep, ProbeSent, NextChannel, ScanEnds, Resubscribe, ProbeChannel
  <2> QED
    BY <1>00, <2>1, <2>4
<1>6. CASE Reconnect \/ (\E f \in air : SendCb(f)) \/ (\E b \in answers : ReceiveProbeRes(b))
  BY <1>00, <1>6 DEF Reconnect, SendCb, ReceiveProbeRes
<1> QED
  BY <1>1, <1>2, <1>3, <1>4, <1>5, <1>6 DEF Next, ThreadStep

\* The thread is at a step that waits for nothing, or the status of its frame is
\* there or still to come.
GoesOn(t) ==
  \/ pc[t] \in {"addPeer", "transmit", "removePeer", "listen"}
  \/ /\ pc[t] = "wait"
     /\ promise[BucketAt(t)] \in {"delivered", "lost"} \/ [by |-> t, to |-> dst[t]] \in air

\* No owner of m_mutex or of a bucket waits for somebody else.
HolderGoesOn ==
  /\ mutex # Free => GoesOn(mutex)
  /\ \A b \in Bucket : bucketMutex[b] # Free => GoesOn(bucketMutex[b])

\* What is safe about LocksReleased: no owner of m_mutex or of a bucket waits for a
\* lock, or for a status that will not come. So however many threads send and
\* whatever the buckets of their addresses, they never all wait for one another.
THEOREM LocksHaveWorkers ==
  ASSUME BroadcastAlone
  PROVE  Spec => []HolderGoesOn
<1>1. Init => ReportInv /\ OwnerInv
  BY DEF Init, ReportInv, OwnerInv
<1>2. IInv /\ ReportInv /\ OwnerInv /\ [Next]_vars => ReportInv' /\ OwnerInv'
  <2>1. CASE UNCHANGED vars
    BY <2>1 DEF vars, ReportInv, OwnerInv, BucketAt
  <2> QED
    BY <2>1, ReportStep, OwnerStep
<1>3. IInv /\ ReportInv /\ OwnerInv => HolderGoesOn
  <2> SUFFICES ASSUME IInv, ReportInv, OwnerInv PROVE HolderGoesOn
    OBVIOUS
  <2>1. ASSUME NEW t \in Thread, pc[t] \in Sending PROVE GoesOn(t)
    <3>1. promise[BucketAt(t)] \in Promise /\ promise[BucketAt(t)] # "fresh"
      BY <2>1, SendingFacts DEF IInv, TypeOK, PromiseInv
    <3>2. CASE pc[t] = "wait"
      BY <3>1, <3>2 DEF ReportInv, GoesOn, Promise
    <3>3. CASE pc[t] # "wait"
      BY <2>1, <3>3 DEF GoesOn, Sending
    <3> QED
      BY <3>2, <3>3
  <2>2. ASSUME mutex # Free PROVE GoesOn(mutex)
    <3>1. mutex \in Thread /\ HoldsMutex(mutex)
      BY <2>2 DEF IInv, TypeOK, MutexInv
    <3>2. pc[mutex] \in Sending \cup {"listen"}
      BY <3>1 DEF HoldsMutex, IInv, DstInv, Sending
    <3>3. CASE pc[mutex] = "listen"
      BY <3>3 DEF GoesOn
    <3> QED
      BY <2>1, <3>1, <3>2, <3>3
  <2>3. ASSUME NEW b \in Bucket, bucketMutex[b] # Free PROVE GoesOn(bucketMutex[b])
    <3>1. bucketMutex[b] \in Thread
      BY <2>3 DEF IInv, TypeOK
    <3> QED
      BY <2>1, <3>1 DEF OwnerInv
  <2> QED
    BY <2>2, <2>3 DEF HolderGoesOn
<1> QED
  BY <1>1, <1>2, <1>3, InductiveInvariant, PTL DEF Spec
==============================================================================
