------------------------------ MODULE LeaseProofs ------------------------------
(***************************************************************************)
(* Proofs about Lease for any topics, application threads, lifetimes,      *)
(* interval and bounds. That a client renews in time rests on the relation *)
(* between the lifetimes, Margin, which the defaults of ClientConfig and   *)
(* BridgeConfig satisfy for three losses in a row.                         *)
(***************************************************************************)
EXTENDS Lease, TLAPS

USE ThreadAssumption, LifetimeAssumption, BoundAssumption, BridgeAssumption

\* Ticks take their time.
LEMMA TimeFacts ==
  /\ \A k \in Nat : Time(k) \in Nat /\ Time(k + 1) = Time(k) + Interval
  /\ Time(0) = 0 /\ Time(1) = Interval /\ Time(2) = 2 * Interval
BY DEF Time

\* More ticks take longer.
LEMMA TimeGrows ==
  ASSUME NEW k \in Nat, NEW m \in Nat, k <= m
  PROVE  Time(k) <= Time(m)
BY DEF Time

\* A client that just started and a bridge without entries satisfy the invariant.
LEMMA InitInv == Init => IInv
<1> SUFFICES ASSUME Init PROVE IInv
  OBVIOUS
<1> USE DEF Init, ClientInit
<1>1. TypeOK
  <2>1. /\ entry \in [Topic -> 0..SubLifetime \cup {NoEntry}]
        /\ lease \in [Topic -> 1..BridgeLifetime \cup {NoEntry}]
    OBVIOUS
  <2>2. pc \in [Thread -> {"idle", "subscribing", "unsubscribing", "renew", "renewing"}]
    OBVIOUS
  <2>3. /\ topic \in [Thread -> Topic \cup {NoTopic}] /\ ack \in [Thread -> BOOLEAN]
    OBVIOUS
  <2>4. inbox \in [Message -> 0..MaxInbox] /\ lost \in [Topic -> 0..MaxLosses]
    OBVIOUS
  <2> QED
    BY <2>1, <2>2, <2>3, <2>4 DEF TypeOK, ClientTypeOK
<1>2. RoleInv
  BY DEF RoleInv, Thread
<1>3. AckInv /\ TimeInv
  BY DEF AckInv, TimeInv, Thread
<1> QED
  BY <1>1, <1>2, <1>3 DEF IInv

\* A request is a message.
LEMMA MessageFacts ==
  ASSUME NEW t \in Topic
  PROVE  SubReq(t) \in Message /\ Unsub(t) \in Message /\ SubReq(t) # Unsub(t)
BY DEF SubReq, Unsub, Message

\* What a transmission does: its acknowledgement means that it has arrived, and the
\* loss of a request is counted.
LEMMA TransmitFacts ==
  ASSUME TypeOK, NEW th \in Thread, NEW m \in Message, Transmit(th, m)
  PROVE  /\ inbox' \in [Message -> 0..MaxInbox]
         /\ ack' \in [Thread -> BOOLEAN]
         /\ lost' \in [Topic -> 0..MaxLosses]
         /\ \A n \in Message : inbox'[n] >= inbox[n]
         /\ \A u \in Thread : u # th => (ack'[u] <=> ack[u])
         /\ ack'[th] => inbox'[m] > 0
         /\ \A t \in Topic :
              \/ lost'[t] = lost[t] /\ m # SubReq(t)
              \/ m = SubReq(t) /\ (inbox'[m] > 0 \/ lost'[t] = lost[t] + 1)
<1>1. PICK received \in BOOLEAN, reported \in BOOLEAN :
        /\ reported => received
        /\ IF received
             THEN inbox[m] < MaxInbox /\ inbox' = [inbox EXCEPT ![m] = @ + 1]
             ELSE UNCHANGED inbox
        /\ ack' = [ack EXCEPT ![th] = reported]
        /\ \/ m.type = "UNSUB" /\ UNCHANGED lost
           \/ m.type = "SUB_REQ" /\ received /\ lost' = [lost EXCEPT ![m.topic] = 0]
           \/ /\ m.type = "SUB_REQ" /\ ~received
              /\ lost[m.topic] < MaxLosses /\ lost' = [lost EXCEPT ![m.topic] = @ + 1]
  BY DEF Transmit
<1>2. /\ inbox \in [Message -> 0..MaxInbox]
      /\ ack \in [Thread -> BOOLEAN] /\ lost \in [Topic -> 0..MaxLosses]
  BY DEF TypeOK, ClientTypeOK
<1>3. inbox' \in [Message -> 0..MaxInbox] /\ \A n \in Message : inbox'[n] >= inbox[n]
  BY <1>1, <1>2
<1>4. ack' \in [Thread -> BOOLEAN] /\ \A u \in Thread : u # th => (ack'[u] <=> ack[u])
  BY <1>1, <1>2
<1>5. received => inbox'[m] > 0
  BY <1>1, <1>2
<1>6. ack'[th] => inbox'[m] > 0
  BY <1>1, <1>2, <1>5
<1>7. m.topic \in Topic /\ (m.type = "SUB_REQ" => m = SubReq(m.topic))
  BY DEF Message, SubReq
<1>8. lost' \in [Topic -> 0..MaxLosses]
  BY <1>1, <1>2, <1>7
<1>9. ASSUME NEW t \in Topic
      PROVE  \/ lost'[t] = lost[t] /\ m # SubReq(t)
             \/ m = SubReq(t) /\ (inbox'[m] > 0 \/ lost'[t] = lost[t] + 1)
  BY <1>1, <1>2, <1>5, <1>7 DEF SubReq
<1> QED
  BY <1>3, <1>4, <1>6, <1>8, <1>9

\* The elapsed time is a number.
LEMMA ElapsedNat ==
  ASSUME TypeOK, NEW t \in Topic, entry[t] # NoEntry
  PROVE  Elapsed(t) \in Nat
<1>1. entry[t] \in 0..SubLifetime /\ lost[t] \in Nat
  BY DEF TypeOK, ClientTypeOK
<1>2. Time(lost[t]) \in Nat
  BY <1>1, TimeFacts
<1> QED
  BY <1>1, <1>2 DEF Elapsed

\* A lost request may be the pending one: its tick is counted as a loss then.
LEMMA ElapsedGrows ==
  ASSUME TypeOK, NEW t \in Topic, entry[t] # NoEntry, entry'[t] = entry[t],
         \/ lost'[t] = lost[t] /\ (Pending(t)' <=> Pending(t))
         \/ lost'[t] = lost[t] + 1
  PROVE  Elapsed(t)' >= Elapsed(t)
<1>1. entry[t] \in 0..SubLifetime /\ lost[t] \in Nat
  BY DEF TypeOK, ClientTypeOK
<1>2. /\ Time(lost[t]) \in Nat /\ Time(lost[t] + 1) = Time(lost[t]) + Interval
      /\ Time(lost[t])' = Time(lost'[t])
  BY <1>1, TimeFacts DEF Time
<1>3. CASE lost'[t] = lost[t] /\ (Pending(t)' <=> Pending(t))
  BY <1>1, <1>2, <1>3 DEF Elapsed
<1>4. CASE lost'[t] = lost[t] + 1
  BY <1>1, <1>2, <1>4 DEF Elapsed
<1> QED
  BY <1>3, <1>4

\* Between ticks, TimeInv is kept for a topic whose elapsed time does not shrink,
\* and holds for one whose lease was just started.
LEMMA TimeKept ==
  ASSUME IInv, TypeOK', phase' = phase, slow' = slow,
         \A t \in Topic :
           ~slow /\ entry'[t] # NoEntry /\ lease'[t] # NoEntry /\ inbox'[SubReq(t)] = 0 =>
             \/ lease'[t] = BridgeLifetime
             \/ /\ lease'[t] = lease[t] /\ entry[t] # NoEntry /\ inbox[SubReq(t)] = 0
                /\ Elapsed(t)' >= Elapsed(t)
  PROVE  TimeInv'
<1> SUFFICES ASSUME ~slow, NEW t \in Topic,
                    entry'[t] # NoEntry, lease'[t] # NoEntry, inbox'[SubReq(t)] = 0
             PROVE  lease'[t] + Elapsed(t)' + Time(1 - phase) >= BridgeLifetime
  BY DEF TimeInv, Time
<1>1. Elapsed(t)' \in Nat
  <2>1. entry'[t] \in 0..SubLifetime /\ lost'[t] \in Nat
    BY DEF TypeOK, ClientTypeOK
  <2>2. Time(lost'[t]) \in Nat
    BY <2>1, TimeFacts
  <2> QED
    BY <2>1, <2>2 DEF Elapsed, Time
<1>2. Time(1 - phase) \in Nat
  BY TimeFacts DEF IInv, TypeOK
<1>3. CASE lease'[t] = BridgeLifetime
  BY <1>1, <1>2, <1>3
<1>4. CASE lease'[t] = lease[t] /\ entry[t] # NoEntry /\ inbox[SubReq(t)] = 0 /\ Elapsed(t)' >= Elapsed(t)
  <2>1. lease[t] + Elapsed(t) + Time(1 - phase) >= BridgeLifetime
    BY <1>4 DEF IInv, TimeInv
  <2>2. lease[t] \in Nat /\ Elapsed(t) \in Nat
    BY <1>4, ElapsedNat DEF IInv, TypeOK
  <2> QED
    BY <1>1, <1>2, <1>4, <2>1, <2>2
<1> QED
  BY <1>3, <1>4

\* Without transmissions, an acknowledgement is known as long as its thread waits.
LEMMA AckKept ==
  ASSUME AckInv, UNCHANGED <<inbox, ack, lease, slow>>,
         \A u \in Thread :
           pc'[u] \in {"subscribing", "renewing"} => pc'[u] = pc[u] /\ topic'[u] = topic[u]
  PROVE  AckInv'
BY DEF AckInv, SubReq

\* A transmission leaves what is known of acknowledged requests as it is, and its
\* own acknowledgement means that the request waits to be handled.
LEMMA TransmitAck ==
  ASSUME IInv, NEW th \in Thread, NEW m \in Message, Transmit(th, m),
         lease' = lease, slow' = slow,
         \A u \in Thread : u # th => pc'[u] = pc[u] /\ topic'[u] = topic[u],
         pc'[th] \in {"subscribing", "renewing"} => m = SubReq(topic'[th])
  PROVE  AckInv'
<1> SUFFICES ASSUME ~slow, NEW u \in Thread, pc'[u] \in {"subscribing", "renewing"}, ack'[u]
             PROVE  inbox'[SubReq(topic'[u])] > 0 \/ lease[topic'[u]] \in {BridgeLifetime, NoEntry}
  BY DEF AckInv, SubReq
<1>1. TypeOK
  BY DEF IInv
<1>2. CASE u = th
  BY <1>1, <1>2, TransmitFacts
<1>3. CASE u # th
  <2>1. ack[u] /\ pc[u] = pc'[u] /\ topic'[u] = topic[u] /\ topic[u] \in Topic
    BY <1>1, <1>3, TransmitFacts DEF IInv, RoleInv
  <2>2. inbox'[SubReq(topic[u])] >= inbox[SubReq(topic[u])]
    BY <1>1, <2>1, TransmitFacts, MessageFacts
  <2>3. inbox[SubReq(topic[u])] > 0 \/ lease[topic[u]] \in {BridgeLifetime, NoEntry}
    BY <2>1 DEF IInv, AckInv
  <2>4. inbox[SubReq(topic[u])] \in Nat /\ inbox'[SubReq(topic[u])] \in Nat
    BY <1>1, <2>1, TransmitFacts, MessageFacts DEF TypeOK, ClientTypeOK
  <2> QED
    BY <2>1, <2>2, <2>3, <2>4
<1> QED
  BY <1>2, <1>3

\* A transmission keeps TimeInv: what arrives is about to start the lease again,
\* what gets lost is counted.
LEMMA TransmitTime ==
  ASSUME IInv, TypeOK', NEW th \in Thread, NEW m \in Message, Transmit(th, m),
         entry' = entry, lease' = lease, phase' = phase, slow' = slow,
         \A t \in Topic : m # SubReq(t) => (Pending(t)' <=> Pending(t))
  PROVE  TimeInv'
<1> SUFFICES ASSUME NEW t \in Topic, ~slow, entry[t] # NoEntry, lease[t] # NoEntry,
                    inbox'[SubReq(t)] = 0
             PROVE  inbox[SubReq(t)] = 0 /\ Elapsed(t)' >= Elapsed(t)
  BY TimeKept
<1>1. TypeOK
  BY DEF IInv
<1>2. inbox[SubReq(t)] = 0
  BY <1>1, TransmitFacts, MessageFacts DEF TypeOK, ClientTypeOK
<1>3. \/ lost'[t] = lost[t] /\ m # SubReq(t)
      \/ lost'[t] = lost[t] + 1
  BY <1>1, TransmitFacts
<1>4. Elapsed(t)' >= Elapsed(t)
  BY <1>1, <1>3, ElapsedGrows
<1> QED
  BY <1>2, <1>4

\* subscribe() transmits its request: delivered, it waits to be handled; lost, it is counted.
LEMMA SubscribeInv ==
  ASSUME IInv, NEW a \in App, NEW t \in Topic, Subscribe(a, t),
         UNCHANGED <<lease, phase, slow, restarts>>
  PROVE  IInv'
<1> USE DEF IInv, Subscribe, At
<1>1. TypeOK'
  <2>1. /\ inbox' \in [Message -> 0..MaxInbox]
        /\ ack' \in [Thread -> BOOLEAN] /\ lost' \in [Topic -> 0..MaxLosses]
    BY TransmitFacts, MessageFacts DEF Thread
  <2>2. /\ pc' \in [Thread -> {"idle", "subscribing", "unsubscribing", "renew", "renewing"}]
        /\ topic' \in [Thread -> Topic \cup {NoTopic}]
    BY DEF TypeOK, ClientTypeOK
  <2> QED
    BY <2>1, <2>2 DEF TypeOK, ClientTypeOK
<1>2. RoleInv'
  BY DEF TypeOK, ClientTypeOK, RoleInv, Thread
<1>3. AckInv'
  BY TransmitAck, MessageFacts DEF TypeOK, ClientTypeOK, Thread
<1>4. TimeInv'
  BY <1>1, TransmitTime, MessageFacts DEF TypeOK, ClientTypeOK, Thread, Pending
<1> QED
  BY <1>1, <1>2, <1>3, <1>4

\* A request without acknowledgement leaves no trace at the client.
LEMMA SubscribeFailsInv ==
  ASSUME IInv, NEW a \in App, SubscribeFails(a),
         UNCHANGED <<lease, phase, slow, restarts>>
  PROVE  IInv'
<1> USE DEF IInv, SubscribeFails, At
<1>1. TypeOK'
  BY DEF TypeOK, ClientTypeOK
<1>2. RoleInv'
  BY DEF TypeOK, ClientTypeOK, RoleInv, Thread
<1>3. AckInv'
  <2>1. ASSUME NEW u \in Thread, pc'[u] \in {"subscribing", "renewing"}
        PROVE  pc'[u] = pc[u] /\ topic'[u] = topic[u]
    BY <2>1 DEF TypeOK, ClientTypeOK, Thread
  <2> QED
    BY <2>1, AckKept
<1>4. TimeInv'
  BY DEF TypeOK, ClientTypeOK, RoleInv, TimeInv, Elapsed, Pending, SubReq, Message, Thread
<1> QED
  BY <1>1, <1>2, <1>3, <1>4

\* An acknowledged request has reached the bridge in this tick: the new entry is covered.
LEMMA SubscribeSucceedsInv ==
  ASSUME IInv, NEW a \in App, SubscribeSucceeds(a),
         UNCHANGED <<lease, phase, slow, restarts>>
  PROVE  IInv'
<1> USE DEF IInv, SubscribeSucceeds, At
<1>1. TypeOK'
  <2>1. /\ pc' \in [Thread -> {"idle", "subscribing", "unsubscribing", "renew", "renewing"}]
        /\ topic' \in [Thread -> Topic \cup {NoTopic}]
    BY DEF TypeOK, ClientTypeOK
  <2>2. /\ entry \in [Topic -> 0..SubLifetime \cup {NoEntry}]
        /\ SubLifetime \in 0..SubLifetime
    BY DEF TypeOK, ClientTypeOK
  <2>3. entry' \in [Topic -> 0..SubLifetime \cup {NoEntry}]
    BY <2>2
  <2> QED
    BY <2>1, <2>2, <2>3 DEF TypeOK, ClientTypeOK
<1>2. RoleInv'
  BY DEF TypeOK, ClientTypeOK, RoleInv, Thread
<1>3. AckInv'
  <2>1. ASSUME NEW u \in Thread, pc'[u] \in {"subscribing", "renewing"}
        PROVE  pc'[u] = pc[u] /\ topic'[u] = topic[u]
    BY <2>1 DEF TypeOK, ClientTypeOK, Thread
  <2> QED
    BY <2>1, AckKept
<1>4. TimeInv'
  <2> SUFFICES ASSUME NEW t \in Topic, ~slow, entry'[t] # NoEntry, lease'[t] # NoEntry,
                      inbox'[SubReq(t)] = 0
               PROVE  \/ lease'[t] = BridgeLifetime
                      \/ /\ lease'[t] = lease[t] /\ entry[t] # NoEntry /\ inbox[SubReq(t)] = 0
                         /\ Elapsed(t)' >= Elapsed(t)
    BY <1>1, TimeKept
  <2>1. CASE t = topic[a]
    BY <2>1 DEF AckInv, Thread, TypeOK, ClientTypeOK
  <2>2. CASE t # topic[a]
    <3>1. entry'[t] = entry[t]
      BY <2>2 DEF TypeOK, ClientTypeOK
    <3>2. Pending(t)' <=> Pending(t)
      BY DEF Pending, TypeOK, ClientTypeOK, Thread
    <3> QED
      BY <3>1, <3>2, ElapsedGrows
  <2> QED
    BY <2>1, <2>2
<1> QED
  BY <1>1, <1>2, <1>3, <1>4

\* unsubscribe() removes the entry.
LEMMA UnsubscribeInv ==
  ASSUME IInv, NEW a \in App, NEW t \in Topic, Unsubscribe(a, t),
         UNCHANGED <<lease, phase, slow, restarts>>
  PROVE  IInv'
<1> USE DEF IInv, Unsubscribe, At
<1>1. TypeOK'
  <2>1. /\ pc' \in [Thread -> {"idle", "subscribing", "unsubscribing", "renew", "renewing"}]
        /\ topic' \in [Thread -> Topic \cup {NoTopic}]
    BY DEF TypeOK, ClientTypeOK
  <2>2. /\ entry \in [Topic -> 0..SubLifetime \cup {NoEntry}]
        /\ SubLifetime \in 0..SubLifetime
    BY DEF TypeOK, ClientTypeOK
  <2>3. entry' \in [Topic -> 0..SubLifetime \cup {NoEntry}]
    BY <2>2
  <2> QED
    BY <2>1, <2>2, <2>3 DEF TypeOK, ClientTypeOK
<1>2. RoleInv'
  BY DEF TypeOK, ClientTypeOK, RoleInv, Thread
<1>3. AckInv'
  <2>1. ASSUME NEW u \in Thread, pc'[u] \in {"subscribing", "renewing"}
        PROVE  pc'[u] = pc[u] /\ topic'[u] = topic[u]
    BY <2>1 DEF TypeOK, ClientTypeOK, Thread
  <2> QED
    BY <2>1, AckKept
<1>4. TimeInv'
  BY DEF TypeOK, ClientTypeOK, RoleInv, TimeInv, Elapsed, Pending, SubReq, Message, Thread
<1> QED
  BY <1>1, <1>2, <1>3, <1>4

\* An UNSUB under way has no influence yet.
LEMMA SendUnsubInv ==
  ASSUME IInv, NEW a \in App, SendUnsub(a), UNCHANGED <<lease, phase, slow, restarts>>
  PROVE  IInv'
<1> USE DEF IInv, SendUnsub, At
<1>1. TypeOK'
  <2>1. topic[a] \in Topic
    BY DEF RoleInv, Thread
  <2>2. /\ inbox' \in [Message -> 0..MaxInbox]
        /\ ack' \in [Thread -> BOOLEAN] /\ lost' \in [Topic -> 0..MaxLosses]
    BY <2>1, TransmitFacts, MessageFacts DEF Thread
  <2>3. /\ pc' \in [Thread -> {"idle", "subscribing", "unsubscribing", "renew", "renewing"}]
        /\ topic' \in [Thread -> Topic \cup {NoTopic}]
    BY DEF TypeOK, ClientTypeOK
  <2> QED
    BY <2>1, <2>2, <2>3 DEF TypeOK, ClientTypeOK
<1>2. RoleInv'
  BY DEF TypeOK, ClientTypeOK, RoleInv, Thread
<1>3. AckInv'
  <2>1. topic[a] \in Topic
    BY DEF RoleInv, Thread
  <2> QED
    BY <2>1, TransmitAck, MessageFacts DEF TypeOK, ClientTypeOK, Thread
<1>4. TimeInv'
  <2>1. topic[a] \in Topic
    BY DEF RoleInv, Thread
  <2>2. \A t \in Topic : Pending(t)' <=> Pending(t)
    BY DEF Pending, TypeOK, ClientTypeOK, Thread
  <2> QED
    BY <1>1, <2>1, <2>2, TransmitTime, MessageFacts DEF Thread
<1> QED
  BY <1>1, <1>2, <1>3, <1>4

\* Resubscribing begins with the mutex.
LEMMA ResubscribeAllInv ==
  ASSUME IInv, ResubscribeAll, UNCHANGED <<lease, phase, slow, restarts>>
  PROVE  IInv'
<1> USE DEF IInv, ResubscribeAll, SendAll, At
<1>1. TypeOK'
  <2>1. /\ pc' \in [Thread -> {"idle", "subscribing", "unsubscribing", "renew", "renewing"}]
        /\ topic' \in [Thread -> Topic \cup {NoTopic}]
    BY DEF TypeOK, ClientTypeOK
  <2>2. mutex' \in {Free, Ticker, Connector} /\ todo' \subseteq Topic
    BY DEF TypeOK, ClientTypeOK, Subscribed
  <2> QED
    BY <2>1, <2>2 DEF TypeOK, ClientTypeOK
<1>2. RoleInv'
  BY DEF TypeOK, ClientTypeOK, RoleInv, Thread
<1>3. AckInv'
  <2>1. ASSUME NEW u \in Thread, pc'[u] \in {"subscribing", "renewing"}
        PROVE  pc'[u] = pc[u] /\ topic'[u] = topic[u]
    BY <2>1 DEF TypeOK, ClientTypeOK, Thread
  <2> QED
    BY <2>1, AckKept
<1>4. TimeInv'
  BY DEF TypeOK, ClientTypeOK, RoleInv, TimeInv, Elapsed, Pending, SubReq, Message, Thread
<1> QED
  BY <1>1, <1>2, <1>3, <1>4

\* The renewal of a topic is not pending any more: delivered, it waits to be handled;
\* lost, it has used up the tick and is counted.
LEMMA SendNextInv ==
  ASSUME IInv, NEW th \in {Ticker, Connector}, NEW t \in Topic, SendNext(th, t),
         UNCHANGED <<lease, phase, slow, restarts>>
  PROVE  IInv'
<1> USE DEF IInv, SendNext, At
<1>1. TypeOK'
  <2>1. /\ inbox' \in [Message -> 0..MaxInbox]
        /\ ack' \in [Thread -> BOOLEAN] /\ lost' \in [Topic -> 0..MaxLosses]
    BY TransmitFacts, MessageFacts DEF Thread
  <2>2. /\ pc' \in [Thread -> {"idle", "subscribing", "unsubscribing", "renew", "renewing"}]
        /\ topic' \in [Thread -> Topic \cup {NoTopic}]
    BY DEF TypeOK, ClientTypeOK
  <2> QED
    BY <2>1, <2>2 DEF TypeOK, ClientTypeOK
<1>2. RoleInv'
  BY DEF TypeOK, ClientTypeOK, RoleInv, Thread
<1>3. AckInv'
  BY TransmitAck, MessageFacts DEF TypeOK, ClientTypeOK, Thread
<1>4. TimeInv'
  <2>1. \A s \in Topic : SubReq(t) # SubReq(s) => (Pending(s)' <=> Pending(s))
    BY DEF Pending, TypeOK, ClientTypeOK, Thread, RoleInv
  <2> QED
    BY <1>1, <2>1, TransmitTime, MessageFacts DEF Thread
<1> QED
  BY <1>1, <1>2, <1>3, <1>4

\* The lifetime is extended only if the request reached the bridge in this tick.
LEMMA SentInv ==
  ASSUME IInv, NEW th \in {Ticker, Connector}, Sent(th),
         UNCHANGED <<lease, phase, slow, restarts>>
  PROVE  IInv'
<1> USE DEF IInv, Sent, Renewed, At
<1>1. TypeOK'
  <2>1. /\ pc' \in [Thread -> {"idle", "subscribing", "unsubscribing", "renew", "renewing"}]
        /\ topic' \in [Thread -> Topic \cup {NoTopic}]
    BY DEF TypeOK, ClientTypeOK
  <2>2. /\ entry \in [Topic -> 0..SubLifetime \cup {NoEntry}]
        /\ SubLifetime \in 0..SubLifetime
    BY DEF TypeOK, ClientTypeOK
  <2>3. entry' \in [Topic -> 0..SubLifetime \cup {NoEntry}]
    BY <2>2
  <2>4. mutex' \in {Free, Ticker, Connector} /\ todo' \subseteq Topic
    BY DEF TypeOK, ClientTypeOK
  <2> QED
    BY <2>1, <2>2, <2>3, <2>4 DEF TypeOK, ClientTypeOK
<1>2. RoleInv'
  BY DEF TypeOK, ClientTypeOK, RoleInv, Thread
<1>3. AckInv'
  <2>1. ASSUME NEW u \in Thread, pc'[u] \in {"subscribing", "renewing"}
        PROVE  pc'[u] = pc[u] /\ topic'[u] = topic[u]
    BY <2>1 DEF TypeOK, ClientTypeOK, Thread
  <2> QED
    BY <2>1, AckKept
<1>4. TimeInv'
  <2> SUFFICES ASSUME NEW t \in Topic, ~slow, entry'[t] # NoEntry, lease'[t] # NoEntry,
                      inbox'[SubReq(t)] = 0
               PROVE  \/ lease'[t] = BridgeLifetime
                      \/ /\ lease'[t] = lease[t] /\ entry[t] # NoEntry /\ inbox[SubReq(t)] = 0
                         /\ Elapsed(t)' >= Elapsed(t)
    BY <1>1, TimeKept
  <2>1. CASE t = topic[th] /\ th = Ticker /\ ack[th]
    BY <2>1 DEF AckInv, Thread
  <2>2. CASE ~(t = topic[th] /\ th = Ticker /\ ack[th])
    <3>1. entry'[t] = entry[t]
      BY <2>2 DEF TypeOK, ClientTypeOK
    <3>2. Pending(t)' <=> Pending(t)
      BY DEF Pending, TypeOK, ClientTypeOK, Thread, RoleInv
    <3> QED
      BY <3>1, <3>2, ElapsedGrows
  <2> QED
    BY <2>1, <2>2
<1> QED
  BY <1>1, <1>2, <1>3, <1>4

\* A tick of the client: time passes, and what is due becomes pending.
LEMMA ClientTickInv ==
  ASSUME IInv, ClientTick
  PROVE  IInv'
<1> USE DEF IInv, ClientTick, Tick, SendAll, At
<1>1. TypeOK'
  <2>1. /\ pc' \in [Thread -> {"idle", "subscribing", "unsubscribing", "renew", "renewing"}]
        /\ topic' \in [Thread -> Topic \cup {NoTopic}]
    BY DEF TypeOK, ClientTypeOK
  <2>2. entry' \in [Topic -> 0..SubLifetime \cup {NoEntry}]
    BY DEF TypeOK, ClientTypeOK, Decremented
  <2>3. mutex' \in {Free, Ticker, Connector} /\ todo' \subseteq Topic
    BY DEF TypeOK, ClientTypeOK
  <2> QED
    BY <2>1, <2>2, <2>3 DEF TypeOK, ClientTypeOK
<1>2. RoleInv'
  BY DEF TypeOK, ClientTypeOK, RoleInv, Thread
<1>3. AckInv'
  <2>1. ASSUME NEW u \in Thread, ~slow' PROVE pc'[u] \in {"idle", "renew"}
    BY <2>1 DEF Busy, TypeOK, ClientTypeOK
  <2> QED
    BY <2>1 DEF AckInv
<1>4. TimeInv'
  <2> SUFFICES ASSUME ~slow', NEW t \in Topic, entry'[t] # NoEntry, lease'[t] # NoEntry,
                      inbox'[SubReq(t)] = 0
               PROVE  lease'[t] + Elapsed(t)' + Time(1 - phase') >= BridgeLifetime
    BY DEF TimeInv, Time
  <2>1. ~slow /\ ~Busy /\ mutex = Free
    BY DEF Busy, RoleInv, Thread, TypeOK, ClientTypeOK
  <2>2. /\ entry[t] \in 0..SubLifetime /\ lost[t] \in Nat /\ lost'[t] = lost[t]
        /\ lease[t] \in 1..BridgeLifetime
        /\ phase \in -1..1
    BY DEF TypeOK, ClientTypeOK, Decremented
  <2>3. lease[t] + Elapsed(t) + Time(1 - phase) >= BridgeLifetime
    BY <2>1, <2>2 DEF TimeInv
  <2>4. ~Pending(t)
    BY <2>1 DEF Pending, Thread
  <2>5. /\ Time(lost[t]) \in Nat /\ Time(lost[t])' = Time(lost[t])
        /\ lost[t] # 0 => Time(lost[t]) >= Interval
    <3>1. Time(lost[t]) \in Nat /\ Time(1) = Interval
      BY <2>2, TimeFacts
    <3>2. Time(lost[t])' = Time(lost[t])
      BY <2>2 DEF Time
    <3>3. ASSUME lost[t] # 0 PROVE Time(1) <= Time(lost[t])
      <4>1. 1 \in Nat /\ 1 <= lost[t]
        BY <2>2, <3>3
      <4> QED
        BY <2>2, <4>1, TimeGrows
    <3> QED
      BY <3>1, <3>2, <3>3
  <2>6. Time(1 - phase) = Time(1 - phase') + Interval /\ Time(1 - phase') \in Nat
    BY <2>2, TimeFacts
  <2>7. Elapsed(t)' >= Elapsed(t) + Interval
    <3>1. CASE entry[t] > Interval
      <4>1. entry'[t] = entry[t] - Interval /\ entry'[t] > 0
        BY <2>2, <3>1 DEF Decremented
      <4> QED
        BY <2>2, <4>1 DEF Elapsed
    <3>2. CASE entry[t] <= Interval
      <4>1. entry'[t] = 0
        BY <2>2, <3>2 DEF Decremented
      <4>2. Pending(t)'
        BY <4>1 DEF Pending, Due, TypeOK, ClientTypeOK, Thread
      <4>3. Elapsed(t)' = SubLifetime + Interval - 1 + Time(lost[t])
        BY <2>2, <2>5, <4>1, <4>2 DEF Elapsed
      <4> QED
        BY <2>2, <2>4, <2>5, <3>2, <4>3 DEF Elapsed
    <3> QED
      BY <2>2, <3>1, <3>2
  <2>8. Elapsed(t) \in Nat /\ Elapsed(t)' \in Int
    <3>1. entry'[t] \in 0..SubLifetime
      BY <1>1 DEF TypeOK, ClientTypeOK
    <3> QED
      BY <2>2, <2>5, <3>1, ElapsedNat DEF Elapsed
  <2> QED
    BY <2>2, <2>3, <2>6, <2>7, <2>8
<1> QED
  BY <1>1, <1>2, <1>3, <1>4

\* A tick of the bridge: leases lose what its timer gains on the client's.
LEMMA BridgeTickInv ==
  ASSUME IInv, BridgeTick
  PROVE  IInv'
<1> USE DEF IInv, BridgeTick, LeaseLeft, clientVars
<1>1. TypeOK'
  BY DEF TypeOK, ClientTypeOK
<1>2. RoleInv'
  BY DEF TypeOK, ClientTypeOK, RoleInv, Thread
<1>3. AckInv'
  BY DEF AckInv, Busy
<1>4. TimeInv'
  <2> SUFFICES ASSUME ~slow', NEW t \in Topic, entry'[t] # NoEntry, lease'[t] # NoEntry,
                      inbox'[SubReq(t)] = 0
               PROVE  lease'[t] + Elapsed(t)' + Time(1 - phase') >= BridgeLifetime
    BY DEF TimeInv, Time
  <2>1. ~slow /\ ~Busy /\ mutex = Free
    BY DEF Busy, RoleInv, Thread, TypeOK, ClientTypeOK
  <2>2. /\ entry[t] \in 0..SubLifetime /\ lost[t] \in Nat /\ lost'[t] = lost[t]
        /\ lease[t] \in 1..BridgeLifetime
        /\ phase \in -1..1
    BY DEF TypeOK, ClientTypeOK
  <2>3. lease[t] + Elapsed(t) + Time(1 - phase) >= BridgeLifetime
    BY <2>1, <2>2 DEF TimeInv
  <2>4. ~Pending(t)
    BY <2>1 DEF Pending, Thread
  <2>5. /\ Time(lost[t]) \in Nat /\ Time(lost[t])' = Time(lost[t])
        /\ lost[t] # 0 => Time(lost[t]) >= Interval
    <3>1. Time(lost[t]) \in Nat /\ Time(1) = Interval
      BY <2>2, TimeFacts
    <3>2. Time(lost[t])' = Time(lost[t])
      BY <2>2 DEF Time
    <3>3. ASSUME lost[t] # 0 PROVE Time(1) <= Time(lost[t])
      <4>1. 1 \in Nat /\ 1 <= lost[t]
        BY <2>2, <3>3
      <4> QED
        BY <2>2, <4>1, TimeGrows
    <3> QED
      BY <3>1, <3>2, <3>3
  <2>6. Time(1 - phase') = Time(1 - phase) + Interval /\ Time(1 - phase) \in Nat
    BY <2>2, TimeFacts
  <2>7. lease'[t] = lease[t] - Interval
    BY <2>2
  <2>8. Elapsed(t)' = Elapsed(t)
    BY <2>5 DEF Elapsed, Pending
  <2>9. Elapsed(t) \in Nat
    BY ElapsedNat
  <2> QED
    BY <2>2, <2>3, <2>6, <2>7, <2>8, <2>9
<1> QED
  BY <1>1, <1>2, <1>3, <1>4

\* A handled request starts the lease again, or is refused where there is no lease; an
\* UNSUB ends the lease.
LEMMA HandleInv ==
  ASSUME IInv, NEW m \in Message, Handle(m)
  PROVE  IInv'
<1> USE DEF IInv, Handle
<1>0. /\ lease' \in [Topic -> 1..BridgeLifetime \cup {NoEntry}]
      /\ m.topic \in Topic
      /\ lease'[m.topic] \in {BridgeLifetime, NoEntry}
      /\ \A t \in Topic : t # m.topic => lease'[t] = lease[t]
  <2>1. lease \in [Topic -> 1..BridgeLifetime \cup {NoEntry}] /\ BridgeLifetime \in 1..BridgeLifetime
    BY DEF TypeOK
  <2>2. m.topic \in Topic
    BY DEF Message
  <2>3. \/ lease' = [lease EXCEPT ![m.topic] = BridgeLifetime]
        \/ lease' = [lease EXCEPT ![m.topic] = NoEntry]
        \/ lease' = lease /\ lease[m.topic] = NoEntry
    BY DEF Stored
  <2> QED
    BY <2>1, <2>2, <2>3
<1>1. TypeOK'
  <2>1. inbox' \in [Message -> 0..MaxInbox]
    BY DEF TypeOK, ClientTypeOK
  <2> QED
    BY <1>0, <2>1 DEF TypeOK, ClientTypeOK
<1>2. RoleInv'
  BY DEF TypeOK, ClientTypeOK, RoleInv, Thread
<1>3. AckInv'
  <2> SUFFICES ASSUME ~slow, NEW th \in Thread, pc[th] \in {"subscribing", "renewing"}, ack[th]
               PROVE  inbox'[SubReq(topic[th])] > 0 \/ lease'[topic[th]] \in {BridgeLifetime, NoEntry}
    BY DEF AckInv, SubReq
  <2>1. topic[th] \in Topic /\ SubReq(topic[th]) \in Message
    BY MessageFacts DEF RoleInv
  <2>2. inbox[SubReq(topic[th])] > 0 \/ lease[topic[th]] \in {BridgeLifetime, NoEntry}
    BY DEF AckInv
  <2>3. CASE m.topic = topic[th]
    BY <1>0, <2>3
  <2>4. CASE m.topic # topic[th]
    <3>1. lease'[topic[th]] = lease[topic[th]] /\ m # SubReq(topic[th])
      BY <1>0, <2>1, <2>4 DEF SubReq
    <3>2. inbox'[SubReq(topic[th])] = inbox[SubReq(topic[th])]
      BY <2>1, <3>1 DEF TypeOK, ClientTypeOK
    <3> QED
      BY <2>2, <3>1, <3>2
  <2> QED
    BY <2>3, <2>4
<1>4. TimeInv'
  <2> SUFFICES ASSUME NEW t \in Topic, ~slow, entry'[t] # NoEntry, lease'[t] # NoEntry,
                      inbox'[SubReq(t)] = 0
               PROVE  \/ lease'[t] = BridgeLifetime
                      \/ /\ lease'[t] = lease[t] /\ entry[t] # NoEntry /\ inbox[SubReq(t)] = 0
                         /\ Elapsed(t)' >= Elapsed(t)
    BY <1>1, TimeKept
  <2>2. CASE m.topic = t
    BY <1>0, <2>2
  <2>3. CASE m.topic # t
    <3>1. SubReq(t) # m /\ SubReq(t) \in Message
      BY <2>3, MessageFacts DEF SubReq
    <3>2. lease'[t] = lease[t] /\ inbox[SubReq(t)] = 0
      BY <1>0, <2>3, <3>1 DEF TypeOK, ClientTypeOK
    <3>3. Pending(t)' <=> Pending(t)
      BY DEF Pending
    <3> QED
      BY <3>2, <3>3, ElapsedGrows
  <2> QED
    BY <2>2, <2>3
<1> QED
  BY <1>1, <1>2, <1>3, <1>4

\* A restarted bridge has no leases.
LEMMA RestartInv ==
  ASSUME IInv, Restart
  PROVE  IInv'
<1> USE DEF IInv, Restart
<1>1. TypeOK'
  BY DEF TypeOK, ClientTypeOK
<1>2. RoleInv'
  BY DEF TypeOK, ClientTypeOK, RoleInv, Thread
<1>3. AckInv'
  BY DEF AckInv, RoleInv
<1>4. TimeInv'
  BY DEF TypeOK, ClientTypeOK, RoleInv, TimeInv, Elapsed, Pending, SubReq, Message, Thread
<1> QED
  BY <1>1, <1>2, <1>3, <1>4
------------------------------------------------------------------------------

\* The inductive invariant: one case per action.
THEOREM InductiveInvariant == Spec => []IInv
<1>1. Init => IInv
  BY InitInv
<1>2. IInv /\ [Next]_vars => IInv'
  <2> SUFFICES ASSUME IInv, [Next]_vars PROVE IInv'
    OBVIOUS
  <2>1. CASE ClientStep
    <3>1. CASE AppStart
      BY <2>1, <3>1, SubscribeInv, UnsubscribeInv DEF ClientStep, AppStart
    <3>2. CASE ResubscribeAll
      BY <2>1, <3>2, ResubscribeAllInv DEF ClientStep
    <3>3. ASSUME NEW a \in App, AppStep(a) PROVE IInv'
      BY <2>1, <3>3, SubscribeFailsInv, SubscribeSucceedsInv, SendUnsubInv DEF ClientStep, AppStep
    <3>4. ASSUME NEW th \in Thread, SendStep(th) PROVE IInv'
      <4>1. th \in {Ticker, Connector}
        BY <3>4 DEF IInv, RoleInv, Thread, SendStep, Sent, SendNext
      <4> QED
        BY <2>1, <3>4, <4>1, SentInv, SendNextInv DEF ClientStep, SendStep
    <3> QED
      BY <2>1, <3>1, <3>2, <3>3, <3>4 DEF ClientStep
  <2>2. CASE ClientTick \/ BridgeTick
    BY <2>2, ClientTickInv, BridgeTickInv
  <2>3. ASSUME NEW m \in Message, Handle(m) PROVE IInv'
    BY <2>3, HandleInv
  <2>4. CASE Restart
    BY <2>4, RestartInv
  <2>5. CASE UNCHANGED vars
    <3> USE <2>5 DEF vars, clientVars
    <3>1. TypeOK' /\ RoleInv'
      BY DEF IInv, TypeOK, ClientTypeOK, RoleInv
    <3>2. AckInv' /\ TimeInv'
      BY DEF IInv, AckInv, TimeInv, Elapsed, Pending
    <3> QED
      BY <3>1, <3>2 DEF IInv
  <2> QED
    BY <2>1, <2>2, <2>3, <2>4, <2>5 DEF Next
<1> QED
  BY <1>1, <1>2, PTL DEF Spec

\* Every variable of client and bridge keeps its type.
THEOREM TypeCorrect == Spec => []TypeOK
BY InductiveInvariant, PTL DEF IInv

\* The client renews in time: with the margin between the lifetimes, the bridge's
\* timer ends no lease the client has not given up, unless a call or message took
\* longer than a tick.
THEOREM RenewedInTime ==
  ASSUME Margin
  PROVE  Spec => ExpiresOnlyIfGivenUp
<1> DEFINE OnlyIfGivenUp ==
      \A t \in Topic :
        phase' < phase /\ lease[t] # NoEntry /\ lease'[t] = NoEntry =>
          entry[t] = NoEntry \/ slow'
<1>1. IInv /\ [Next]_vars => [OnlyIfGivenUp]_vars
  <2> SUFFICES ASSUME IInv, Next, NEW t \in Topic,
                      phase' < phase, lease[t] # NoEntry, lease'[t] = NoEntry,
                      entry[t] # NoEntry, ~slow'
               PROVE  FALSE
    OBVIOUS
  <2>1. BridgeTick
    BY DEF Next, ClientStep, ClientTick, Handle, Restart, IInv, TypeOK
  <2>2. ~slow /\ ~Busy
    BY <2>1 DEF BridgeTick
  <2>3. lease[t] \in 1..Interval
    BY <2>1 DEF BridgeTick, LeaseLeft, IInv, TypeOK
  <2>4. lease[t] + Elapsed(t) + Time(1 - phase) >= BridgeLifetime
    <3>1. inbox[SubReq(t)] = 0
      BY <2>2, MessageFacts DEF Busy, IInv, TypeOK, ClientTypeOK
    <3> QED
      BY <2>2, <3>1 DEF IInv, TimeInv
  <2>5. Time(1 - phase) <= Interval /\ Time(1 - phase) \in Nat
    BY <2>1, TimeFacts DEF BridgeTick, IInv, TypeOK
  <2>6. ~Pending(t)
    BY <2>2 DEF Busy, Pending, IInv, RoleInv, Thread
  <2>7. Elapsed(t) <= SubLifetime - 1 + Time(MaxLosses)
    <3>1. lost[t] \in Nat /\ lost[t] <= MaxLosses /\ entry[t] \in 0..SubLifetime
      BY DEF IInv, TypeOK, ClientTypeOK
    <3>2. Time(lost[t]) <= Time(MaxLosses) /\ Time(lost[t]) \in Nat /\ Time(MaxLosses) \in Nat
      BY <3>1, TimeGrows, TimeFacts
    <3> QED
      BY <2>6, <3>1, <3>2 DEF Elapsed
  <2>8. Time(MaxLosses) + 2 * Interval = (MaxLosses + 2) * Interval
    BY DEF Time
  <2>9. Elapsed(t) \in Int /\ Time(MaxLosses) \in Nat /\ (MaxLosses + 2) * Interval \in Nat
    BY TimeFacts DEF Elapsed, IInv, TypeOK, ClientTypeOK
  <2> HIDE DEF IInv
  <2> QED
    BY <2>3, <2>4, <2>5, <2>7, <2>8, <2>9 DEF Margin
<1> QED
  BY <1>1, InductiveInvariant, PTL DEF Spec, ExpiresOnlyIfGivenUp
------------------------------------------------------------------------------
(* What is safe about the liveness properties.                             *)

\* Whoever holds m_mutex has requests left to send, all of them for topics that the
\* client is subscribed to; what it is sending is one of them.
WorkInv ==
  mutex # Free =>
    /\ todo # {} /\ todo \subseteq Subscribed
    /\ pc[mutex] = "renewing" => topic[mutex] \in todo

\* Requests are sent again by the timer and after a connection only.
LEMMA SendersOnly ==
  ASSUME IInv, NEW th \in Thread, SendStep(th)
  PROVE  /\ th \in {Ticker, Connector}
         /\ Sent(th) \/ \E t \in Topic : SendNext(th, t)
BY DEF IInv, RoleInv, SendStep, Sent, SendNext, Thread

\* Every step keeps that: under the mutex entries are only extended.
LEMMA WorkStep ==
  ASSUME IInv, WorkInv, Next
  PROVE  WorkInv'
<1> USE DEF At
<1>0. /\ mutex \in {Free, Ticker, Connector} /\ Free \notin {Ticker, Connector}
      /\ entry \in [Topic -> 0..SubLifetime \cup {NoEntry}]
      /\ pc \in [Thread -> {"idle", "subscribing", "unsubscribing", "renew", "renewing"}]
      /\ topic \in [Thread -> Topic \cup {NoTopic}]
      /\ App \subseteq Thread /\ {Ticker, Connector} \subseteq Thread
      /\ {Ticker, Connector} \cap App = {}
  BY DEF IInv, TypeOK, ClientTypeOK, Thread
<1>00. /\ NoEntry \notin 0..SubLifetime /\ SubLifetime \in 0..SubLifetime
       /\ \A th \in {Ticker, Connector} : mutex = th <=> pc[th] # "idle"
  BY DEF IInv, RoleInv
<1>1. ASSUME NEW a \in App, NEW t \in Topic, Subscribe(a, t) PROVE WorkInv'
  BY <1>0, <1>1 DEF Subscribe, WorkInv, Subscribed
<1>2. ASSUME NEW a \in App, SubscribeFails(a) \/ SendUnsub(a) PROVE WorkInv'
  BY <1>0, <1>2 DEF SubscribeFails, SendUnsub, WorkInv, Subscribed
<1>3. CASE mutex' = Free
  BY <1>3 DEF WorkInv
<1>4. ASSUME NEW a \in App, SubscribeSucceeds(a) \/ \E t \in Topic : Unsubscribe(a, t)
      PROVE  WorkInv'
  BY <1>3, <1>4 DEF SubscribeSucceeds, Unsubscribe
<1>5. ASSUME NEW th \in {Ticker, Connector}, SendAll(th, todo'), todo' \subseteq Subscribed'
      PROVE  WorkInv'
  BY <1>0, <1>3, <1>5 DEF SendAll, WorkInv
<1>6. CASE ResubscribeAll
  BY <1>5, <1>6 DEF ResubscribeAll, SendAll, Subscribed
<1>7. CASE ClientTick
  <2>1. SendAll(Ticker, {t \in Topic : Due(t)}) /\ todo' = {t \in Topic : Due(t)}
    BY <1>7 DEF ClientTick, Tick, SendAll
  <2>2. 0 # NoEntry
    BY <1>00
  <2> QED
    BY <1>5, <2>1, <2>2 DEF Subscribed, Due
<1>8. ASSUME NEW th \in {Ticker, Connector}, NEW t \in Topic, SendNext(th, t) PROVE WorkInv'
  BY <1>0, <1>00, <1>8 DEF SendNext, WorkInv, Subscribed
<1>9. ASSUME NEW th \in {Ticker, Connector}, Sent(th) PROVE WorkInv'
  <2>1. mutex = th /\ todo' \subseteq todo
    BY <1>00, <1>9 DEF Sent
  <2>2. Subscribed \subseteq Subscribed'
    BY <1>0, <1>00, <1>9 DEF Sent, Renewed, Subscribed
  <2>3. CASE todo' # {}
    <3>1. mutex' = th /\ pc'[th] = "renew"
      BY <1>0, <1>9, <2>1, <2>3 DEF Sent
    <3> QED
      BY <1>0, <2>1, <2>2, <2>3, <3>1 DEF WorkInv
  <2> QED
    BY <1>3, <1>9, <2>3 DEF Sent
<1>10. CASE BridgeTick \/ Restart \/ \E m \in Message : Handle(m)
  BY <1>10 DEF BridgeTick, Restart, Handle, clientVars, WorkInv, Subscribed
<1>11. ASSUME NEW th \in Thread, SendStep(th) PROVE WorkInv'
  BY <1>8, <1>9, <1>11, SendersOnly
<1> QED
  BY <1>1, <1>2, <1>4, <1>6, <1>7, <1>10, <1>11
  DEF Next, ClientStep, AppStart, AppStep

\* Nobody keeps m_mutex without work to do, and requests are sent again only for topics
\* the client is subscribed to: subscribe() and unsubscribe(), which wait for the mutex,
\* get it after one request per topic, and no lease is renewed that was given up.
THEOREM SubscribedAreRenewed == Spec => []WorkInv
<1>1. Init => WorkInv
  BY DEF Init, ClientInit, WorkInv
<1>2. IInv /\ WorkInv /\ [Next]_vars => WorkInv'
  <2>1. UNCHANGED vars /\ WorkInv => WorkInv'
    BY DEF vars, clientVars, WorkInv, Subscribed
  <2> QED
    BY <2>1, WorkStep
<1> QED
  BY <1>1, <1>2, InductiveInvariant, PTL DEF Spec

\* Only a subscribe() whose request was acknowledged brings back a topic: neither the
\* tick nor the resubscription does, whatever unsubscribe() removed while they were
\* under way.
NothingRevived ==
  [][\A t \in Topic :
       entry[t] = NoEntry /\ entry'[t] # NoEntry =>
         \E a \in App : pc[a] = "subscribing" /\ ack[a] /\ topic[a] = t]_vars

\* A renewal under way never brings back what unsubscribe() has removed.
THEOREM UnsubscribedStaysSo == Spec => NothingRevived
<1> DEFINE Asked ==
      \A t \in Topic :
        entry[t] = NoEntry /\ entry'[t] # NoEntry =>
          \E a \in App : pc[a] = "subscribing" /\ ack[a] /\ topic[a] = t
<1>1. IInv /\ WorkInv /\ [Next]_vars => [Asked]_vars
  <2> SUFFICES ASSUME IInv, WorkInv, Next, NEW t \in Topic,
                      entry[t] = NoEntry, entry'[t] # NoEntry
               PROVE  \E a \in App : pc[a] = "subscribing" /\ ack[a] /\ topic[a] = t
    OBVIOUS
  <2>0. entry \in [Topic -> 0..SubLifetime \cup {NoEntry}]
    BY DEF IInv, TypeOK, ClientTypeOK
  <2>1. ASSUME NEW th \in {Ticker, Connector}, Sent(th) PROVE FALSE
    <3>1. mutex = th /\ mutex # Free /\ pc[th] = "renewing"
      BY <2>1 DEF IInv, RoleInv, Sent, Thread
    <3>2. topic[th] # t
      BY <3>1 DEF WorkInv, Subscribed
    <3> QED
      BY <2>0, <2>1, <3>2 DEF Sent, Renewed
  <2>2. ASSUME NEW a \in App, SubscribeSucceeds(a)
        PROVE  pc[a] = "subscribing" /\ ack[a] /\ topic[a] = t
    BY <2>0, <2>2 DEF SubscribeSucceeds
  <2>3. ASSUME NEW a \in App, NEW s \in Topic, Unsubscribe(a, s) PROVE FALSE
    BY <2>0, <2>3 DEF Unsubscribe
  <2>4. ~ClientTick
    BY <2>0 DEF ClientTick, Tick, Decremented
  <2>5. ASSUME NEW th \in Thread, SendStep(th) PROVE FALSE
    BY <2>1, <2>5, SendersOnly DEF SendStep, SendNext
  <2> QED
    BY <2>2, <2>3, <2>4, <2>5
    DEF Next, ClientStep, AppStart, AppStep, Subscribe, SubscribeFails, SendUnsub,
        ResubscribeAll, BridgeTick, Handle, Restart, clientVars
<1>2. Init => WorkInv
  BY DEF Init, ClientInit, WorkInv
<1>3. IInv /\ WorkInv /\ [Next]_vars => WorkInv'
  <2>1. UNCHANGED vars /\ WorkInv => WorkInv'
    BY DEF vars, clientVars, WorkInv, Subscribed
  <2> QED
    BY <2>1, WorkStep
<1> QED
  BY <1>1, <1>2, <1>3, InductiveInvariant, PTL DEF Spec, NothingRevived
==============================================================================
