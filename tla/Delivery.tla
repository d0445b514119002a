------------------------------- MODULE Delivery -------------------------------
(***************************************************************************)
(* The way of data through a bridge with the local broker as its far       *)
(* layer: publish() of a client or of the bridge, processPub(),            *)
(* LocalBroker::publish(), receiveFar(), publishSubData() and the          *)
(* callbacks a client calls in processSubData(), next to the reports the   *)
(* nodes publish themselves (RSSI and probe payloads).                     *)
(*                                                                         *)
(* Every hop runs in a thread of its own. "threads" is the bag of those    *)
(* that have not begun, a message on its way being the thread that will    *)
(* handle it, and of the callbacks that the loops of processSubData() have *)
(* still to call; they go on in any order. Renewals and lifetimes are      *)
(* those of Client and Lease, an MQTT far layer, whose calls block and may *)
(* be refused, is that of Bridge.                                          *)
(***************************************************************************)
EXTENDS Integers, FiniteSets, Bags, BagsExt

CONSTANTS
  Client,       \* addresses of the client nodes
  Bridge,       \* the bridge: its address as a publisher, its empty address as a subscriber
  Topic,        \* topics the applications publish to
  RssiTopic, ProbeTopic,   \* the reporting topics
  EmptyTopic,
  Filter,       \* topics of the subscriptions, wildcards included
  Matching,     \* <<source, topic, filter>>: the filter matches "prefix/source/topic"
  Reported,     \* the types of messages whose RSSI is reported
  MaxMessages,  \* bound: publications and probes the nodes begin by themselves
  MaxRequests,  \* bound: SUB_REQs and UNSUBs they send
  MaxLosses     \* bound: messages the radio loses

Node == Client \cup {Bridge}
Publication == [src : Node, topic : Topic \cup {RssiTopic, ProbeTopic, EmptyTopic},
                n : Nat, about : Reported \cup {"nothing"}]
NoFilter == "none"

ASSUME NodeAssumption == Bridge \notin Client /\ NoFilter \notin Filter
ASSUME TopicAssumption ==
  /\ EmptyTopic \notin Topic /\ {RssiTopic, ProbeTopic} \cap Topic = {}
  /\ Matching \subseteq Node \X (Topic \cup {RssiTopic, ProbeTopic}) \X Filter
  /\ IsFiniteSet(Filter)
ASSUME DeliveryBounds ==
  MaxMessages \in Nat /\ MaxRequests \in Nat /\ MaxLosses \in Nat

VARIABLES
  subDB,       \* the bridge's m_subDB: the subscribers of each topic
  brokerSubs,  \* the local broker's m_subs
  clientDB,    \* each client's m_subDB
  threads,     \* the bag of what is to run
  alive,       \* clients whose program has not ended
  messages, requests, losses,   \* the counters behind the bounds
  calls,       \* history: <<publication, node, entry, via>> of each callback call
  repeated,    \* history: the calls that were made more than once
  owed         \* history: <<publication, node, filter>> that must still be called

dbs  == <<subDB, brokerSubs, clientDB>>
done == <<calls, repeated>>
vars == <<dbs, threads, alive, messages, requests, losses, done, owed>>

Matches(p, f) == <<p.src, p.topic, f>> \in Matching
MatchingFilters(p) == {f \in Filter : Matches(p, f)}

\* via tells apart the SUB_DATA sent for different entries of the same client, entry
\* is the client's own one that a reference of processSubData() leads to.
Thread(kind, node, p, via) ==
  [kind |-> kind, node |-> node, pub |-> p, via |-> via, entry |-> NoFilter]
Kinds == {"PUB", "PROBE_REQ", "PROBE_RES", "SUB_REQ", "UNSUB", "SUB_DATA", "rssi", "far",
          "subData", "callback", "removeUnused", "insert", "entry", "stale"}

\* What ends with the program of a client; the other threads are messages in the air.
InProgram == {"rssi", "insert", "entry", "stale"}

Data(src, topic, n) == [src |-> src, topic |-> topic, n |-> n, about |-> "nothing"]

TypeOK ==
  /\ subDB \in [Filter -> SUBSET Node]
  /\ brokerSubs \subseteq Filter
  /\ clientDB \in [Client -> SUBSET Filter]
  /\ IsABag(threads)
  /\ \A th \in BagToSet(threads) :
       /\ th.kind \in Kinds /\ th.node \in Node /\ th.pub \in Publication
       /\ {th.via, th.entry} \subseteq Filter \cup {NoFilter}
       /\ th.kind \in {"entry", "stale"} => th.entry \in MatchingFilters(th.pub)
       /\ th.kind \in InProgram => th.node \in alive \cup {Bridge}
  /\ alive \subseteq Client
  /\ messages \in 0..MaxMessages /\ requests \in 0..MaxRequests /\ losses \in 0..MaxLosses
  /\ calls \subseteq Publication \X Node \X Filter \X (Filter \cup {NoFilter})
  /\ repeated \subseteq calls
  /\ owed \subseteq Publication \X Node \X Filter

\* Some subscriptions have been made.
Init ==
  /\ subDB \in [Filter -> SUBSET Node]
  /\ brokerSubs = {f \in Filter : subDB[f] # {}}
  /\ clientDB = [c \in Client |-> {f \in Filter : c \in subDB[f]}]
  /\ threads = EmptyBag /\ alive = Client
  /\ messages = 0 /\ requests = 0 /\ losses = 0
  /\ calls = {} /\ repeated = {} /\ owed = {}
------------------------------------------------------------------------------
(* Helpers *)

\* A message of the node's own making, told apart from all others.
NewMessage ==
  messages < MaxMessages /\ messages' = messages + 1 /\ UNCHANGED requests
NewRequest ==
  requests < MaxRequests /\ requests' = requests + 1 /\ UNCHANGED messages

\* th ends after starting the threads ths.
EndStarting(th, ths) == BagRemove(threads, th) (+) SetToBag(ths)

\* A callback is called.
Call(p, node, entry, via) ==
  /\ calls' = calls \cup {<<p, node, entry, via>>}
  /\ repeated' = repeated \cup ({<<p, node, entry, via>>} \cap calls)
  /\ owed' = owed \ {<<p, node, entry>>}

\* A node has th handled by the receiver of a message, unless the radio loses
\* the message: then nobody is owed what it carried.
Send(others, th) ==
  \/ /\ threads' = BagAdd(others, th)
     /\ UNCHANGED <<losses, owed>>
  \/ /\ losses < MaxLosses /\ losses' = losses + 1
     /\ threads' = others
     /\ owed' = {o \in owed : o[1] # th.pub \/ (th.kind = "SUB_DATA" /\ o[2] # th.node)}

\* Who has subscribed before p was published is to get it.
Owed(p) ==
  {o \in {p} \X Node \X MatchingFilters(p) :
     /\ o[3] \in brokerSubs /\ o[2] \in subDB[o[3]]
     /\ o[2] \in Client => o[2] \in alive /\ o[3] \in clientDB[o[2]]}

\* Mutant: the broker looks up the topic without its source.
BrokerPublish_NoSource(p) ==
  IF \E f \in brokerSubs : <<Bridge, p.topic, f>> \in Matching
    THEN {Thread("far", Bridge, p, NoFilter)} ELSE {}

\* Mutant: the broker calls back once for every subscription that matches.
BrokerPublish_EachMatch(p) ==
  {Thread("far", Bridge, p, f) : f \in {g \in brokerSubs : Matches(p, g)}}

\* LocalBroker::publish(): one thread calls the bridge back, if anything it is
\* subscribed to matches the topic with prefix and source.
BrokerPublish(p) ==
  IF \E f \in brokerSubs : Matches(p, f)
    THEN {Thread("far", Bridge, p, NoFilter)} ELSE {}

\* publishRssi(): a thread that publishes the RSSI of a message of this type.
PublishRssi(node, type, n) ==
  IF type \in Reported
    THEN {Thread("rssi", node, [src |-> node, topic |-> RssiTopic, n |-> n,
                                about |-> type], NoFilter)}
    ELSE {}
------------------------------------------------------------------------------
(* The local endpoints *)

\* Client::publish(). A publication to the empty topic is refused.
Publish(c, t) ==
  LET p == Data(c, t, messages + 1) IN
  /\ c \in alive /\ t # EmptyTopic /\ NewMessage
  /\ \/ /\ threads' = BagAdd(threads, Thread("PUB", Bridge, p, NoFilter))
        /\ owed' = owed \cup Owed(p)
        /\ UNCHANGED losses
     \/ /\ losses < MaxLosses /\ losses' = losses + 1
        /\ UNCHANGED <<threads, owed>>
  /\ UNCHANGED <<dbs, alive, done>>

\* Bridge::publish() hands the data straight to the far layer.
PublishLocally(t) ==
  LET p == Data(Bridge, t, messages + 1) IN
  /\ t # EmptyTopic /\ NewMessage
  /\ threads' = threads (+) SetToBag(BrokerPublish(p))
  /\ owed' = owed \cup Owed(p)
  /\ UNCHANGED <<dbs, alive, losses, done>>

\* The client's layer looks for bridges, with or without a payload.
Probe(c) ==
  /\ c \in alive /\ NewMessage
  /\ \E t \in {EmptyTopic, ProbeTopic} :
       Send(threads, Thread("PROBE_REQ", Bridge, Data(c, t, messages + 1), NoFilter))
  /\ UNCHANGED <<dbs, alive, done>>

\* Client::subscribe(): the request first, the entry when it is known to be delivered.
\* The bridge may have it although its acknowledgement got lost.
Subscribe(c, f) ==
  LET req == Thread("SUB_REQ", Bridge, Data(c, EmptyTopic, requests + 1), f)
      insert == [req EXCEPT !.kind = "insert", !.node = c]
  IN
  /\ c \in alive /\ NewRequest
  /\ \/ /\ \E started \in {{req}, {req, insert}} : threads' = threads (+) SetToBag(started)
        /\ UNCHANGED losses
     \/ /\ losses < MaxLosses /\ losses' = losses + 1
        /\ UNCHANGED threads
  /\ UNCHANGED <<dbs, alive, done, owed>>

Stale(th) == [th EXCEPT !.kind = "stale"]

\* Assigning or destroying the callback of c for f: what has a reference to the entry
\* is left with a dangling one.
Invalidate(bag, c, f) ==
  LET refs == {th \in DOMAIN bag : th.kind = "entry" /\ th.node = c /\ th.entry = f} IN
  [th \in DOMAIN bag \ refs |-> bag[th]]
    (+) [s \in {Stale(th) : th \in refs} |-> bag[[s EXCEPT !.kind = "entry"]]]

NoLongerOwed(c, f) == {o \in owed : o[2] # c \/ o[3] # f}

\* Client::unsubscribe(): the entry first, then the message.
Unsubscribe(c, f) ==
  LET unsub == Thread("UNSUB", Bridge, Data(c, EmptyTopic, requests + 1), f)
      left == Invalidate(threads, c, f)
  IN
  /\ c \in alive /\ f \in clientDB[c] /\ NewRequest
  /\ clientDB' = [clientDB EXCEPT ![c] = @ \ {f}]
  /\ threads' \in {left, BagAdd(left, unsub)}
  /\ owed' = NoLongerOwed(c, f)
  /\ UNCHANGED <<subDB, brokerSubs, alive, losses, done>>
------------------------------------------------------------------------------
(* The handlers of the bridge, each the beginning and end of a thread th. *)

ProcessPub(th) ==
  /\ th.kind = "PUB"
  /\ threads' = EndStarting(th, PublishRssi(Bridge, "PUB", th.pub.n) \cup
                  (IF th.pub.topic = EmptyTopic THEN {} ELSE BrokerPublish(th.pub)))
  /\ UNCHANGED <<dbs, alive, messages, requests, losses, done, owed>>

\* The payload of the request is published for the bridge, under a topic that
\* names the client.
ProcessProbeReq(th) ==
  LET report == IF th.pub.topic = ProbeTopic
                  THEN BrokerPublish([th.pub EXCEPT !.src = Bridge]) ELSE {}
      answer == Thread("PROBE_RES", th.pub.src, [th.pub EXCEPT !.topic = EmptyTopic], NoFilter)
  IN
  /\ th.kind = "PROBE_REQ"
  /\ Send(EndStarting(th, PublishRssi(Bridge, "PROBE_REQ", th.pub.n) \cup report), answer)
  /\ UNCHANGED <<dbs, alive, messages, requests, done>>

\* The first subscriber of a topic makes the bridge subscribe to it. The local broker
\* never refuses.
ProcessSubReq(th) ==
  /\ th.kind = "SUB_REQ"
  /\ threads' = EndStarting(th, PublishRssi(Bridge, "SUB_REQ", th.pub.n))
  /\ brokerSubs' = IF subDB[th.via] = {} THEN brokerSubs \cup {th.via} ELSE brokerSubs
  /\ subDB' = [subDB EXCEPT ![th.via] = @ \cup {th.pub.src}]
  /\ UNCHANGED <<clientDB, alive, messages, requests, losses, done, owed>>

ProcessUnsub(th) ==
  /\ th.kind = "UNSUB"
  /\ threads' = EndStarting(th, PublishRssi(Bridge, "UNSUB", th.pub.n)
                                  \cup {[th EXCEPT !.kind = "removeUnused"]})
  /\ subDB' = [subDB EXCEPT ![th.via] = @ \ {th.pub.src}]
  /\ owed' = NoLongerOwed(th.pub.src, th.via)
  /\ UNCHANGED <<brokerSubs, clientDB, alive, messages, requests, losses, done>>

RemoveUnusedTopics(th) ==
  /\ th.kind = "removeUnused"
  /\ threads' = BagRemove(threads, th)
  /\ brokerSubs' = {f \in brokerSubs : subDB[f] # {}}
  /\ UNCHANGED <<subDB, clientDB, alive, messages, requests, losses, done, owed>>

\* Mutant: the bridge hands its report to processPub().
PublishReport_AsPub(th) ==
  /\ th.kind = "rssi"
  /\ Send(BagRemove(threads, th), Thread("PUB", Bridge, th.pub, NoFilter))
  /\ UNCHANGED <<dbs, alive, messages, requests, done>>

\* publishRssi()'s thread: publish() of its node, which a client sends as PUB.
PublishReport(th) ==
  /\ th.kind = "rssi"
  /\ \/ /\ th.node = Bridge
        /\ threads' = EndStarting(th, BrokerPublish(th.pub))
        /\ UNCHANGED <<losses, owed>>
     \/ /\ th.node \in Client
        /\ Send(BagRemove(threads, th), Thread("PUB", Bridge, th.pub, NoFilter))
  /\ UNCHANGED <<dbs, alive, messages, requests, done>>

\* receiveFar(): under m_mutex, a thread for every address of every matching
\* topic; a callback of the bridge is copied into its thread.
ReceiveFar(th) ==
  /\ th.kind = "far"
  /\ threads' = EndStarting(th,
       UNION {{Thread(IF a = Bridge THEN "callback" ELSE "subData", a, th.pub, f)
                 : a \in subDB[f]} : f \in MatchingFilters(th.pub)})
  /\ UNCHANGED <<dbs, alive, messages, requests, losses, done, owed>>

CallBridgeCallback(th) ==
  /\ th.kind = "callback"
  /\ threads' = BagRemove(threads, th)
  /\ Call(th.pub, Bridge, th.via, NoFilter)
  /\ UNCHANGED <<dbs, alive, messages, requests, losses>>

PublishSubData(th) ==
  /\ th.kind = "subData"
  /\ Send(BagRemove(threads, th), [th EXCEPT !.kind = "SUB_DATA"])
  /\ UNCHANGED <<dbs, alive, messages, requests, done>>
------------------------------------------------------------------------------
(* The handlers of a client, and what its subscribe() has still to do *)

ProcessProbeRes(th) ==
  /\ th.kind = "PROBE_RES"
  /\ threads' = EndStarting(th,
       IF th.node \in alive THEN PublishRssi(th.node, "PROBE_RES", th.pub.n) ELSE {})
  /\ UNCHANGED <<dbs, alive, messages, requests, losses, done, owed>>

\* A callback that is there already is replaced.
InsertEntry(th) ==
  /\ th.kind = "insert"
  /\ clientDB' = [clientDB EXCEPT ![th.node] = @ \cup {th.via}]
  /\ threads' = Invalidate(BagRemove(threads, th), th.node, th.via)
  /\ owed' = IF th.via \in clientDB[th.node] THEN NoLongerOwed(th.node, th.via) ELSE owed
  /\ UNCHANGED <<subDB, brokerSubs, alive, messages, requests, losses, done>>

\* The references to the entries fs, to be called one after the other.
References(th, fs) == {[th EXCEPT !.kind = "entry", !.entry = f] : f \in fs}

\* Mutant: every callback of the client is called.
ProcessSubData_All(th) ==
  /\ th.kind = "SUB_DATA"
  /\ threads' = EndStarting(th,
       IF th.node \in alive THEN References(th, clientDB[th.node]) ELSE {})
  /\ UNCHANGED <<dbs, alive, messages, requests, losses, done, owed>>

\* processSubData() finds the matching entries under m_mutex and goes on with
\* references to them.
ProcessSubData(th) ==
  /\ th.kind = "SUB_DATA"
  /\ threads' = EndStarting(th,
       IF th.node \in alive
         THEN References(th, clientDB[th.node] \cap MatchingFilters(th.pub)) ELSE {})
  /\ UNCHANGED <<dbs, alive, messages, requests, losses, done, owed>>

\* The loop without the mutex. A reference to an entry that has changed since
\* may still find the old callback, find none or end the program.
CallCallback(th) ==
  /\ th.kind \in {"entry", "stale"}
  /\ \/ /\ threads' = BagRemove(threads, th)
        /\ \/ Call(th.pub, th.node, th.entry, th.via)
           \/ th.kind = "stale" /\ UNCHANGED <<done, owed>>
        /\ UNCHANGED alive
     \/ /\ th.kind = "stale"
        /\ alive' = alive \ {th.node}
        /\ threads' = [t \in {u \in DOMAIN threads :
                                ~(u.kind \in InProgram /\ u.node = th.node)} |-> threads[t]]
        /\ owed' = {o \in owed : o[2] # th.node}
        /\ UNCHANGED done
  /\ UNCHANGED <<dbs, messages, requests, losses>>
------------------------------------------------------------------------------
Handle(th) ==
  \/ ProcessPub(th) \/ ProcessProbeReq(th) \/ ProcessSubReq(th) \/ ProcessUnsub(th)
  \/ RemoveUnusedTopics(th) \/ PublishReport(th) \/ ReceiveFar(th)
  \/ CallBridgeCallback(th) \/ PublishSubData(th)
  \/ ProcessProbeRes(th) \/ InsertEntry(th) \/ ProcessSubData(th) \/ CallCallback(th)

ThreadStep == \E th \in BagToSet(threads) : Handle(th)

Application ==
  \/ \E c \in Client :
       \/ Probe(c)
       \/ \E t \in Topic \cup {EmptyTopic} : Publish(c, t)
       \/ \E f \in Filter : Subscribe(c, f) \/ Unsubscribe(c, f)
  \/ \E t \in Topic \cup {EmptyTopic} : PublishLocally(t)

Next == ThreadStep \/ Application

Spec == Init /\ [][Next]_vars

\* Threads run. Each ends, and the messages are finitely many, so that none
\* waits forever when some thread always goes on.
FairSpec == Spec /\ WF_vars(ThreadStep)
------------------------------------------------------------------------------
\* A callback is called only with what its filter matches, by the bridge itself once and
\* by a client at most once for each of the filters under which the bridge sends it the
\* data: overlapping subscriptions multiply a publication, nothing else does.
CallsWithinOverlap ==
  /\ repeated = {}
  /\ \A x \in calls :
       /\ Matches(x[1], x[3])
       /\ x[4] \in IF x[2] = Bridge THEN {NoFilter} ELSE MatchingFilters(x[1])

\* "Mutex to prevent race conditions": no reference of processSubData() outlives the
\* callback it leads to.
NoDanglingReference == \A th \in BagToSet(threads) : th.kind # "stale"

\* A publication reaches every callback that was subscribed when it was made,
\* whatever else is published, subscribed and unsubscribed meanwhile, unless the
\* subscription is given up or the radio loses the data.
ReachesSubscribers ==
  \A n \in 1..MaxMessages :
    (\E o \in owed : o[1].n = n) ~> ~(\E o \in owed : o[1].n = n)

\* Traffic dies down: no report is reported in turn without end.
Drains == <>[](threads = EmptyBag)
==============================================================================
