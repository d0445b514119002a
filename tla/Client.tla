-------------------------------- MODULE Client --------------------------------
(***************************************************************************)
(* The subscriptions of a client node, include/common/spsp/client.hpp:     *)
(* application threads that subscribe and unsubscribe, the timer thread    *)
(* that renews what expires, and the thread that resubscribes after a new  *)
(* connection to a bridge.                                                 *)
(*                                                                         *)
(* A message takes two steps: it is transmitted, and later sendLocal()     *)
(* returns what the radio knows of its delivery. A message that reached    *)
(* the bridge waits in the inbox for the thread that will handle it.       *)
(***************************************************************************)
EXTENDS Integers, FiniteSets

CONSTANTS
  Topic,
  App,          \* threads calling subscribe() and unsubscribe()
  Ticker,       \* thread of m_subDBTimer
  Connector,    \* thread that calls resubscribeAll()
  SubLifetime,  \* ClientConfig::SubDB::subLifetime
  Interval,     \* ClientConfig::SubDB::interval
  NoEntry,      \* not in m_subDB
  NoTopic,
  Free,         \* the owner of the unlocked mutex
  MaxLosses,    \* bound: how many subscribe requests for a topic get lost in a row
  MaxInbox      \* bound: how many copies of a message wait at the bridge

Thread == App \cup {Ticker, Connector}
Message == [type : {"SUB_REQ", "UNSUB"}, topic : Topic]

ASSUME ThreadAssumption ==
  /\ Ticker # Connector /\ {Ticker, Connector} \cap App = {}
  /\ Free \notin Thread /\ NoTopic \notin Topic
ASSUME LifetimeAssumption ==
  /\ SubLifetime \in Nat \ {0} /\ Interval \in Nat \ {0}
  /\ NoEntry \notin Int
ASSUME BoundAssumption == MaxLosses \in Nat /\ MaxInbox \in Nat \ {0}

VARIABLES
  mutex,   \* owner of m_mutex
  entry,   \* m_subDB: what is left of each topic's lifetime
  pc,      \* where each thread is
  topic,   \* the topic of its call
  todo,    \* the topics the owner of the mutex has still to send a request for
  ack,     \* what the last sendLocal() of each thread will return
  inbox,   \* the copies of each message that reached the bridge, to be handled
  lost     \* the subscribe requests for each topic lost in a row

clientVars == <<mutex, entry, pc, topic, todo, ack, inbox, lost>>

ClientTypeOK ==
  /\ mutex \in {Free, Ticker, Connector}
  /\ entry \in [Topic -> 0..SubLifetime \cup {NoEntry}]
  /\ pc \in [Thread -> {"idle", "subscribing", "unsubscribing", "renew", "renewing"}]
  /\ topic \in [Thread -> Topic \cup {NoTopic}]
  /\ todo \subseteq Topic
  /\ ack \in [Thread -> BOOLEAN]
  /\ inbox \in [Message -> 0..MaxInbox]
  /\ lost \in [Topic -> 0..MaxLosses]

ClientInit ==
  /\ mutex = Free
  /\ entry = [t \in Topic |-> NoEntry]
  /\ pc = [th \in Thread |-> "idle"]
  /\ topic = [th \in Thread |-> NoTopic]
  /\ todo = {}
  /\ ack = [th \in Thread |-> FALSE]
  /\ inbox = [m \in Message |-> 0]
  /\ lost = [t \in Topic |-> 0]

Subscribed == {t \in Topic : entry[t] # NoEntry}

SubReq(t) == [type |-> "SUB_REQ", topic |-> t]
Unsub(t) == [type |-> "UNSUB", topic |-> t]

At(th, label, t) ==
  pc' = [pc EXCEPT ![th] = label] /\ topic' = [topic EXCEPT ![th] = t]

\* The radio may lose the message, or the acknowledgement of one it delivered.
Transmit(th, m) ==
  \E received, reported \in BOOLEAN :
    /\ reported => received
    /\ IF received
         THEN inbox[m] < MaxInbox /\ inbox' = [inbox EXCEPT ![m] = @ + 1]
         ELSE UNCHANGED inbox
    /\ ack' = [ack EXCEPT ![th] = reported]
    /\ \/ m.type = "UNSUB" /\ UNCHANGED lost
       \/ m.type = "SUB_REQ" /\ received /\ lost' = [lost EXCEPT ![m.topic] = 0]
       \/ /\ m.type = "SUB_REQ" /\ ~received
          /\ lost[m.topic] < MaxLosses /\ lost' = [lost EXCEPT ![m.topic] = @ + 1]
------------------------------------------------------------------------------
(* subscribe() sends without m_mutex, and inserts only what was delivered. *)

Subscribe(a, t) ==
  /\ pc[a] = "idle"
  /\ Transmit(a, SubReq(t))
  /\ At(a, "subscribing", t)
  /\ UNCHANGED <<mutex, entry, todo>>

SubscribeFails(a) ==
  /\ pc[a] = "subscribing" /\ ~ack[a]
  /\ At(a, "idle", NoTopic)
  /\ UNCHANGED <<mutex, entry, todo, ack, inbox, lost>>

SubscribeSucceeds(a) ==
  /\ pc[a] = "subscribing" /\ ack[a]
  /\ mutex = Free
  /\ entry' = [entry EXCEPT ![topic[a]] = SubLifetime]
  /\ At(a, "idle", NoTopic)
  /\ UNCHANGED <<mutex, todo, ack, inbox, lost>>

\* unsubscribe() of an unknown topic changes nothing.
Unsubscribe(a, t) ==
  /\ pc[a] = "idle" /\ mutex = Free
  /\ entry[t] # NoEntry
  /\ entry' = [entry EXCEPT ![t] = NoEntry]
  /\ At(a, "unsubscribing", t)
  /\ UNCHANGED <<mutex, todo, ack, inbox, lost>>

\* What the radio says of the UNSUB is ignored.
SendUnsub(a) ==
  /\ pc[a] = "unsubscribing"
  /\ Transmit(a, Unsub(topic[a]))
  /\ At(a, "idle", NoTopic)
  /\ UNCHANGED <<mutex, entry, todo>>
------------------------------------------------------------------------------
(* subDBTick() and resubscribeAll() hold m_mutex while they send. *)

\* th locks the mutex and has the topics ts to send requests for.
SendAll(th, ts) ==
  /\ pc[th] = "idle" /\ mutex = Free
  /\ todo' = ts
  /\ IF ts = {} THEN UNCHANGED <<mutex, pc, topic>>
     ELSE mutex' = th /\ At(th, "renew", NoTopic)

\* Lifetimes below zero are as good as zero.
Decremented(e) == IF e = NoEntry THEN NoEntry ELSE IF e > Interval THEN e - Interval ELSE 0

\* Mutant: a failed renewal is not tried again.
Due_Once(t) == entry'[t] = 0 /\ entry[t] # 0

\* A tick renews what has expired, in it or before.
Due(t) == entry'[t] = 0

\* Under the mutex nobody sees the lifetimes one by one.
Tick ==
  /\ entry' = [t \in Topic |-> Decremented(entry[t])]
  /\ SendAll(Ticker, {t \in Topic : Due(t)})
  /\ UNCHANGED <<ack, inbox, lost>>

ResubscribeAll ==
  /\ SendAll(Connector, Subscribed)
  /\ UNCHANGED <<entry, ack, inbox, lost>>

SendNext(th, t) ==
  /\ pc[th] = "renew" /\ t \in todo
  /\ Transmit(th, SubReq(t))
  /\ At(th, "renewing", t)
  /\ UNCHANGED <<mutex, entry, todo>>

\* Mutant: a failed renewal counts as a renewal.
Renewed_Always(th) == [entry EXCEPT ![topic[th]] = SubLifetime]

\* Only the timer extends a lifetime, and only by a delivered request; what
\* could not be extended is tried again in the next tick.
Renewed(th) ==
  IF th = Ticker /\ ack[th] THEN [entry EXCEPT ![topic[th]] = SubLifetime] ELSE entry

Sent(th) ==
  /\ pc[th] = "renewing"
  /\ entry' = Renewed(th)
  /\ todo' = todo \ {topic[th]}
  /\ IF todo' = {} THEN mutex' = Free /\ At(th, "idle", NoTopic)
     ELSE UNCHANGED mutex /\ At(th, "renew", NoTopic)
  /\ UNCHANGED <<ack, inbox, lost>>
------------------------------------------------------------------------------
AppStart == \E a \in App, t \in Topic : Subscribe(a, t) \/ Unsubscribe(a, t)

AppStep(a) == SubscribeFails(a) \/ SubscribeSucceeds(a) \/ SendUnsub(a)

SendStep(th) == Sent(th) \/ \E t \in Topic : SendNext(th, t)
==============================================================================
