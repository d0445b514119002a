---------------------------- MODULE DeliveryProofs ----------------------------
(***************************************************************************)
(* For any number of clients, topics, filters and messages: a callback is  *)
(* called only with what its filter matches, at most once for each of the  *)
(* filters by which the data comes to its node, however the threads run;   *)
(* and what somebody is owed is always under way.                          *)
(***************************************************************************)
EXTENDS Delivery, TLAPS

\* The bag after has none of one occurrence of each of out and one more of each of in.
Becomes(before, after, out, in) ==
  /\ IsABag(after)
  /\ DOMAIN after \subseteq DOMAIN before \cup in
  /\ (DOMAIN before \ out) \cup in \subseteq DOMAIN after
  /\ \A x \in DOMAIN after \ (in \cup out) : after[x] = before[x]
  /\ \A x \in out \ in : x \in DOMAIN before /\ before[x] = 1 => x \notin DOMAIN after
  /\ \A x \in in \ DOMAIN before : after[x] = 1

\* Adding a set of threads.
LEMMA StartSet ==
  ASSUME NEW B, IsABag(B), NEW S
  PROVE  Becomes(B, B (+) SetToBag(S), {}, S)
BY DEF Becomes, IsABag, SetToBag, (+)

\* A thread ends and starts others.
LEMMA EndAndStart ==
  ASSUME IsABag(threads), NEW th \in DOMAIN threads, NEW S
  PROVE  Becomes(threads, EndStarting(th, S), {th}, S)
<1> DEFINE rest == BagRemove(threads, th)
<1>1. /\ IsABag(rest) /\ DOMAIN rest \subseteq DOMAIN threads
      /\ DOMAIN threads \ {th} \subseteq DOMAIN rest
      /\ \A x \in DOMAIN rest \ {th} : rest[x] = threads[x]
      /\ threads[th] = 1 => th \notin DOMAIN rest
  BY DEF IsABag, BagRemove
<1>2. Becomes(rest, rest (+) SetToBag(S), {}, S)
  BY <1>1, StartSet
<1> HIDE DEF rest
<1>3. Becomes(threads, rest (+) SetToBag(S), {th}, S)
  BY <1>1, <1>2 DEF Becomes
<1> QED BY <1>3 DEF EndStarting, rest

\* A thread ends.
LEMMA End ==
  ASSUME IsABag(threads), NEW th \in DOMAIN threads
  PROVE  Becomes(threads, BagRemove(threads, th), {th}, {})
BY DEF Becomes, IsABag, BagRemove

\* One more thread starts.
LEMMA StartOne ==
  ASSUME NEW B, NEW C, NEW out, NEW in, Becomes(B, C, out, in), NEW t, t \notin in \cup out
  PROVE  Becomes(B, BagAdd(C, t), out, in \cup {t})
<1>1. /\ IsABag(BagAdd(C, t)) /\ DOMAIN BagAdd(C, t) = DOMAIN C \cup {t}
      /\ \A x \in DOMAIN C \ {t} : BagAdd(C, t)[x] = C[x]
      /\ t \notin DOMAIN C => BagAdd(C, t)[t] = 1
  BY DEF Becomes, IsABag, BagAdd
<1> QED BY <1>1 DEF Becomes

\* One thread starts.
LEMMA StartFirst ==
  ASSUME NEW B, IsABag(B), NEW t
  PROVE  Becomes(B, BagAdd(B, t), {}, {t}) /\ Becomes(B, B, {}, {})
<1>1. Becomes(B, B, {}, {})
  BY DEF Becomes
<1>2. Becomes(B, BagAdd(B, t), {}, {} \cup {t})
  BY <1>1, StartOne
<1> QED BY <1>1, <1>2
------------------------------------------------------------------------------
(* The invariant *)

Report(n, type) == [src |-> Bridge, topic |-> RssiTopic, n |-> n, about |-> type]

\* A thread is bound for data only where a filter matches, and only for a client
\* by way of the radio.
ThreadOK(th) ==
  /\ th \in [kind : Kinds, node : Node, pub : Publication, via : Filter \cup {NoFilter},
             entry : Filter \cup {NoFilter}]
  /\ th.kind \in {"subData", "SUB_DATA", "callback", "entry", "stale"} =>
       th.via \in MatchingFilters(th.pub)
  /\ th.kind \in {"subData", "SUB_DATA", "entry", "stale", "insert"} => th.node \in Client
  /\ th.kind \in {"entry", "stale"} => th.entry \in MatchingFilters(th.pub)
  /\ th.kind = "callback" => th.node = Bridge
  /\ th.kind \in {"SUB_REQ", "insert"} => th.via \in Filter
  /\ th.kind = "PUB" => th.pub.about \in {"nothing", "PROBE_RES"}
  /\ th.kind = "PROBE_REQ" => th.pub.about = "nothing"
  /\ th.kind = "rssi" => th.node = Bridge \/ th.pub.about = "PROBE_RES"

LivesOn(th) == th.kind \in InProgram => th.node \in alive \cup {Bridge}

\* p is what th carries, or a report still to be made on its way.
Publishes(th, p) ==
  \/ /\ th.kind \in {"PUB", "rssi", "far", "subData", "SUB_DATA", "callback", "entry", "stale"}
     /\ p = th.pub
  \/ th.kind = "PROBE_REQ" /\ p = [th.pub EXCEPT !.src = Bridge]
  \/ /\ p = Report(th.pub.n, "PUB")
     /\ th.kind \in {"PUB", "PROBE_REQ", "PROBE_RES"} \/ (th.kind = "rssi" /\ th.node # Bridge)
  \/ /\ th.kind \in {"PROBE_REQ", "SUB_REQ", "UNSUB"}
     /\ p = Report(th.pub.n, th.kind)
  \/ /\ th.kind \in {"PROBE_REQ", "PROBE_RES"}
     /\ p = [src |-> IF th.kind = "PROBE_RES" THEN th.node ELSE th.pub.src,
             topic |-> RssiTopic, n |-> th.pub.n, about |-> "PROBE_RES"]

\* The call c may come of th.
Leads(th, c) ==
  /\ Publishes(th, c[1])
  /\ th.kind \in {"subData", "SUB_DATA", "entry", "stale"} => c[2] = th.node /\ c[4] = th.via
  /\ th.kind \in {"entry", "stale"} => c[3] = th.entry
  /\ th.kind = "callback" => c[2] = Bridge /\ c[3] = th.via /\ c[4] = NoFilter

\* The message p comes of has been sent.
Known(p) == p.n \in 0..(IF p.about \in {"SUB_REQ", "UNSUB"} THEN requests ELSE messages)

\* A client is called on behalf of one of its matching filters, the bridge on
\* behalf of none.
CallOK(x) ==
  /\ x \in Publication \X Node \X Filter \X (Filter \cup {NoFilter})
  /\ Matches(x[1], x[3])
  /\ x[4] \in IF x[2] = Bridge THEN {NoFilter} ELSE MatchingFilters(x[1])

\* Who is owed a publication still has the subscription, at both ends.
OwedOK(o) ==
  /\ o \in Publication \X Node \X Filter
  /\ o[1].topic # EmptyTopic /\ o[3] \in MatchingFilters(o[1])
  /\ o[2] \in subDB[o[3]]
  /\ o[2] \in Client => o[2] \in alive /\ o[3] \in clientDB[o[2]]

\* A thread that will lead to the call, with a callback that has not changed.
Carries(th, o) ==
  /\ th.pub = o[1]
  /\ \/ th.kind \in {"PUB", "far"}
     \/ th.kind = "callback" /\ o[2] = Bridge /\ th.via = o[3]
     \/ th.kind \in {"subData", "SUB_DATA"} /\ th.node = o[2] /\ o[2] \in Client
     \/ th.kind = "entry" /\ th.node = o[2] /\ th.entry = o[3]

UnderWay(o) == \E th \in DOMAIN threads : Carries(th, o)

\* The broker passes on what the bridge has subscribers for.
DbInv ==
  /\ subDB \in [Filter -> SUBSET Node] /\ clientDB \in [Client -> SUBSET Filter]
  /\ brokerSubs \subseteq Filter /\ alive \subseteq Client
  /\ \A f \in Filter : subDB[f] # {} => f \in brokerSubs
CountInv ==
  messages \in 0..MaxMessages /\ requests \in 0..MaxRequests /\ losses \in 0..MaxLosses
ThreadsInv == IsABag(threads) /\ \A th \in DOMAIN threads : ThreadOK(th) /\ LivesOn(th)
CallsInv == repeated = {} /\ \A x \in calls : CallOK(x)
OwedInv == \A o \in owed : OwedOK(o) /\ UnderWay(o)

\* Of the threads in bag no two, and none and an earlier call, can come to the same call.
TokensOf(bag) ==
  \A x \in DOMAIN bag : \A c : Leads(x, c) =>
    /\ bag[x] = 1 /\ c \notin calls /\ Known(c[1])
    /\ \A y \in DOMAIN bag : Leads(y, c) => y = x
TokenInv == TokensOf(threads)
FreshInv == \A c \in calls : Known(c[1])

IInv == DbInv /\ CountInv /\ ThreadsInv /\ CallsInv /\ OwedInv /\ TokenInv /\ FreshInv
------------------------------------------------------------------------------
(* Steps in general *)

\* Threads that have ended and others that have started, each of these on a way of its
\* own, which is part of that of one that has ended or begins with a new message.
LEMMA Tokens ==
  ASSUME FreshInv, NEW B, NEW C, TokensOf(B), NEW out \in SUBSET DOMAIN B, NEW in, in \cap out = {},
         Becomes(B, C, out, in),
         \A s \in in : \A c : Leads(s, c) =>
           (\E t \in out : Leads(t, c)) \/ (~Known(c[1]) /\ Known(c[1])'),
         \A s, t \in in : \A c : Leads(s, c) /\ Leads(t, c) => s = t,
         \A p : Known(p) => Known(p)',
         calls' = calls
  PROVE  \A x \in DOMAIN C : \A c : Leads(x, c) =>
           /\ C[x] = 1 /\ c \notin calls' /\ Known(c[1])'
           /\ \A y \in DOMAIN C : Leads(y, c) => y = x
<1> SUFFICES ASSUME NEW x \in DOMAIN C, NEW c, Leads(x, c)
             PROVE  /\ C[x] = 1 /\ c \notin calls' /\ Known(c[1])'
                    /\ \A y \in DOMAIN C : Leads(y, c) => y = x
  OBVIOUS
<1>1. CASE x \in in
  <2>1. CASE \E t \in out : Leads(t, c)
    <3>1. PICK t \in out : Leads(t, c)
      BY <2>1
    <3>2. /\ B[t] = 1 /\ c \notin calls /\ Known(c[1])
          /\ \A y \in DOMAIN B : Leads(y, c) => y = t
      BY <3>1 DEF TokensOf
    <3>3. t \notin DOMAIN C /\ t \notin in
      BY <3>1, <3>2 DEF Becomes
    <3>4. x \notin DOMAIN B
      BY <1>1, <3>2, <3>3
    <3>5. C[x] = 1
      BY <1>1, <3>4 DEF Becomes
    <3>6. ASSUME NEW y \in DOMAIN C, Leads(y, c) PROVE y = x
      <4>1. CASE y \in in
        BY <1>1, <3>6, <4>1
      <4>2. CASE y \notin in
        BY <3>2, <3>3, <3>6, <4>2 DEF Becomes
      <4> QED BY <4>1, <4>2
    <3> QED BY <3>2, <3>5, <3>6
  <2>2. CASE ~Known(c[1]) /\ Known(c[1])'
    <3>1. c \notin calls /\ \A y \in DOMAIN B : ~Leads(y, c)
      BY <2>2 DEF FreshInv, TokensOf
    <3>2. C[x] = 1
      BY <1>1, <3>1 DEF Becomes
    <3>3. ASSUME NEW y \in DOMAIN C, Leads(y, c) PROVE y = x
      <4>1. y \in in
        BY <3>1, <3>3 DEF Becomes
      <4> QED BY <1>1, <3>3, <4>1
    <3> QED BY <2>2, <3>1, <3>2, <3>3
  <2> QED BY <1>1, <2>1, <2>2
<1>2. CASE x \notin in
  <2>1. x \in DOMAIN B
    BY <1>2 DEF Becomes
  <2>2. /\ B[x] = 1 /\ c \notin calls /\ Known(c[1])
        /\ \A y \in DOMAIN B : Leads(y, c) => y = x
    BY <2>1 DEF TokensOf
  <2>3. x \notin out
    BY <1>2, <2>1, <2>2 DEF Becomes
  <2>4. C[x] = 1
    BY <1>2, <2>2, <2>3 DEF Becomes
  <2>5. ASSUME NEW y \in DOMAIN C, Leads(y, c) PROVE y = x
    <3>1. CASE y \in in
      <4>1. PICK t \in out : Leads(t, c)
        BY <2>2, <2>5, <3>1
      <4> QED BY <2>2, <2>3, <4>1
    <3>2. CASE y \notin in
      BY <2>2, <2>5, <3>2 DEF Becomes
    <3> QED BY <3>1, <3>2
  <2> QED BY <2>2, <2>4, <2>5
<1> QED BY <1>1, <1>2

\* So the threads of the next state keep to ways of their own.
LEMMA TokenStep ==
  ASSUME FreshInv, NEW B, TokensOf(B),
         NEW out \in SUBSET DOMAIN B, NEW in, in \cap out = {}, Becomes(B, threads', out, in),
         \A s \in in : \A c : Leads(s, c) =>
           (\E t \in out : Leads(t, c)) \/ (~Known(c[1]) /\ Known(c[1])'),
         \A s, t \in in : \A c : Leads(s, c) /\ Leads(t, c) => s = t,
         \A p : Known(p) => Known(p)',
         calls' = calls
  PROVE  TokenInv' /\ FreshInv'
<1>1. \A x, c : Leads(x, c)' <=> Leads(x, c)
  BY DEF Leads, Publishes, Report
<1>2. FreshInv'
  BY DEF FreshInv
<1>3. \A x \in DOMAIN threads' : \A c : Leads(x, c) =>
        /\ threads'[x] = 1 /\ c \notin calls' /\ Known(c[1])'
        /\ \A y \in DOMAIN threads' : Leads(y, c) => y = x
  BY Tokens
<1>4. TokenInv'
  BY <1>1, <1>3 DEF TokenInv, TokensOf
<1> QED BY <1>2, <1>4

\* th ends and hands on to in what it leads to.
LEMMA Handled ==
  ASSUME IInv, NEW th \in DOMAIN threads, NEW in, Becomes(threads, threads', {th}, in),
         \A s \in in : ThreadOK(s) /\ LivesOn(s) /\ s.kind # th.kind,
         \A s \in in : \A c : Leads(s, c) => Leads(th, c),
         \A s, t \in in : \A c : Leads(s, c) /\ Leads(t, c) => s = t,
         UNCHANGED <<alive, messages, requests, done>>
  PROVE  ThreadsInv' /\ CallsInv' /\ TokenInv' /\ FreshInv'
<1>1. \A p : Known(p) => Known(p)'
  BY DEF Known
<1>2. in \cap {th} = {} /\ {th} \in SUBSET DOMAIN threads
  OBVIOUS
<1>3. TokenInv' /\ FreshInv'
  BY <1>1, <1>2, TokenStep DEF IInv, done, TokenInv
<1>4. ThreadsInv'
  BY DEF IInv, ThreadsInv, Becomes, LivesOn
<1>5. CallsInv'
  BY DEF IInv, CallsInv, done
<1> QED BY <1>3, <1>4, <1>5

\* The threads in begin with a new message, next to those of B.
LEMMA Begun ==
  ASSUME IInv, NEW B, TokensOf(B), \A x \in DOMAIN B : ThreadOK(x) /\ LivesOn(x),
         NEW in, Becomes(B, threads', {}, in),
         \A s \in in : ThreadOK(s) /\ LivesOn(s),
         \A s \in in : \A c : Leads(s, c) => ~Known(c[1]) /\ Known(c[1])',
         \A s, t \in in : \A c : Leads(s, c) /\ Leads(t, c) => s = t,
         \A p : Known(p) => Known(p)',
         UNCHANGED <<alive, done>>
  PROVE  ThreadsInv' /\ CallsInv' /\ TokenInv' /\ FreshInv'
<1>1. in \cap {} = {} /\ {} \in SUBSET DOMAIN B
  OBVIOUS
<1>2. TokenInv' /\ FreshInv'
  BY <1>1, TokenStep DEF IInv, done
<1>3. ThreadsInv'
  BY DEF ThreadsInv, Becomes, LivesOn
<1>4. CallsInv'
  BY DEF IInv, CallsInv, done
<1> QED BY <1>2, <1>3, <1>4

\* What th carried is carried on, what is still owed is still subscribed.
LEMMA Carried ==
  ASSUME OwedInv, NEW th, DOMAIN threads \ {th} \subseteq DOMAIN threads', owed' \subseteq owed,
         \A o \in owed' : OwedOK(o) => OwedOK(o)',
         \A o \in owed' : OwedOK(o) /\ Carries(th, o) => \E t \in DOMAIN threads' : Carries(t, o)
  PROVE  OwedInv'
BY DEF OwedInv, UnderWay, Carries

\* An obligation whose databases have not changed is still one.
LEMMA SameBooks ==
  ASSUME UNCHANGED <<subDB, clientDB, alive>>
  PROVE  \A o : OwedOK(o) => OwedOK(o)'
BY DEF OwedOK

\* The databases and counters of an invariant state that a thread leaves alone.
LEMMA SameDbs ==
  ASSUME IInv, UNCHANGED <<dbs, alive>>
  PROVE  DbInv'
BY DEF IInv, DbInv, dbs

\* The message of a node, if the radio does not lose it, is one thread more.
LEMMA Sent ==
  ASSUME NEW others, NEW t, NEW out, NEW in, Becomes(threads, others, out, in), t \notin in \cup out,
         Send(others, t), losses \in 0..MaxLosses
  PROVE  /\ losses' \in 0..MaxLosses /\ owed' \subseteq owed
         /\ \/ Becomes(threads, threads', out, in \cup {t})
            \/ /\ Becomes(threads, threads', out, in)
               /\ \A o \in owed' : o[1] # t.pub \/ (t.kind = "SUB_DATA" /\ o[2] # t.node)
<1>1. Becomes(threads, BagAdd(others, t), out, in \cup {t})
  BY StartOne
<1>2. losses' \in 0..MaxLosses /\ owed' \subseteq owed
  BY DeliveryBounds DEF Send
<1> QED BY <1>1, <1>2 DEF Send
------------------------------------------------------------------------------
(* The threads that handlers start *)

\* A report is a thread like the others; a client's is reported in turn.
LEMMA ReportFacts ==
  ASSUME NEW node \in Node, NEW type, NEW n \in Nat, NEW s \in PublishRssi(node, type, n),
         node = Bridge \/ type = "PROBE_RES"
  PROVE  /\ ThreadOK(s) /\ s.kind = "rssi" /\ s.node = node
         /\ \A c : Leads(s, c) =>
              \/ c[1] = [src |-> node, topic |-> RssiTopic, n |-> n, about |-> type]
              \/ node # Bridge /\ c[1] = Report(n, "PUB")
<1>1. s = Thread("rssi", node, [src |-> node, topic |-> RssiTopic, n |-> n, about |-> type],
                 NoFilter) /\ type \in Reported
  BY DEF PublishRssi
<1>2. ThreadOK(s) /\ s.kind = "rssi" /\ s.node = node
  BY <1>1 DEF Thread, ThreadOK, Kinds, Publication
<1>3. s.pub = [src |-> node, topic |-> RssiTopic, n |-> n, about |-> type] /\ s.pub.n = n
  BY <1>1 DEF Thread
<1> QED BY <1>2, <1>3 DEF Leads, Publishes

\* At most one report is made of a message.
LEMMA OneReport ==
  ASSUME NEW node, NEW type, NEW n, NEW s \in PublishRssi(node, type, n),
         NEW t \in PublishRssi(node, type, n)
  PROVE  s = t
BY DEF PublishRssi

\* So are the callbacks the local broker starts, at most one for a publication.
LEMMA BrokerFacts ==
  ASSUME NEW p \in Publication, NEW s \in BrokerPublish(p)
  PROVE  /\ s = Thread("far", Bridge, p, NoFilter)
         /\ ThreadOK(s) /\ s.kind = "far" /\ s.pub = p /\ \A c : Leads(s, c) => c[1] = p
<1>1. s = Thread("far", Bridge, p, NoFilter)
  BY DEF BrokerPublish
<1>2. ThreadOK(s) /\ s.kind = "far" /\ s.pub = p
  BY <1>1 DEF Thread, ThreadOK, Kinds, Node
<1> QED BY <1>1, <1>2 DEF Leads, Publishes

\* What a node publishes itself is a publication.
LEMMA DataOK ==
  ASSUME NEW src \in Node, NEW t \in Topic \cup {RssiTopic, ProbeTopic, EmptyTopic}, NEW n \in Nat
  PROVE  /\ Data(src, t, n) \in Publication /\ Data(src, t, n).about = "nothing"
         /\ Data(src, t, n).n = n /\ Data(src, t, n).src = src /\ Data(src, t, n).topic = t
BY DEF Data, Publication

\* What is owed to those who have subscribed goes to the broker.
LEMMA OwedFacts ==
  ASSUME NEW p \in Publication, p.topic # EmptyTopic, NEW o \in Owed(p), DbInv
  PROVE  OwedOK(o) /\ o[1] = p /\ Thread("far", Bridge, p, NoFilter) \in BrokerPublish(p)
<1>1. /\ o \in {p} \X Node \X MatchingFilters(p) /\ o[3] \in brokerSubs /\ o[2] \in subDB[o[3]]
      /\ o[2] \in Client => o[2] \in alive /\ o[3] \in clientDB[o[2]]
  BY DEF Owed
<1>2. o \in Publication \X Node \X Filter /\ o[1] = p /\ o[3] \in MatchingFilters(p)
  BY <1>1 DEF MatchingFilters
<1>3. Matches(p, o[3])
  BY <1>2 DEF MatchingFilters
<1> QED BY <1>1, <1>2, <1>3 DEF OwedOK, BrokerPublish

\* Every system starts in the invariant.
LEMMA InitInv == Init => IInv
<1> SUFFICES ASSUME Init PROVE IInv
  OBVIOUS
<1>1. DbInv /\ CountInv
  BY DeliveryBounds DEF Init, DbInv, CountInv
<1>2. DOMAIN threads = {} /\ IsABag(threads)
  BY DEF Init, EmptyBag, SetToBag, IsABag
<1> QED
  BY <1>1, <1>2 DEF Init, IInv, ThreadsInv, CallsInv, OwedInv, TokenInv, TokensOf, FreshInv
------------------------------------------------------------------------------
(* The handlers *)

\* What is known of a thread that runs.
LEMMA ThreadFacts ==
  ASSUME IInv, NEW th \in DOMAIN threads
  PROVE  /\ ThreadOK(th) /\ LivesOn(th) /\ IsABag(threads)
         /\ th.pub \in Publication /\ th.pub.src \in Node /\ th.pub.n \in Nat /\ th.node \in Node
         /\ th.via \in Filter \cup {NoFilter}
         /\ Bridge \in Node /\ losses \in 0..MaxLosses
BY DEF IInv, ThreadsInv, ThreadOK, Publication, CountInv, Node

\* A publication is reported, and goes to the broker.
LEMMA PubInv ==
  ASSUME IInv, NEW th \in DOMAIN threads, ProcessPub(th)
  PROVE  IInv'
<1> DEFINE rs == PublishRssi(Bridge, "PUB", th.pub.n)
           bs == IF th.pub.topic = EmptyTopic THEN {} ELSE BrokerPublish(th.pub)
<1>1. th.kind = "PUB" /\ threads' = EndStarting(th, rs \cup bs)
      /\ UNCHANGED <<dbs, alive, messages, requests, losses, done, owed>>
  BY DEF ProcessPub
<1>2. Becomes(threads, threads', {th}, rs \cup bs)
  BY <1>1, EndAndStart, ThreadFacts
<1>3. ASSUME NEW s \in rs
      PROVE  /\ ThreadOK(s) /\ LivesOn(s) /\ s.kind = "rssi"
             /\ \A c : Leads(s, c) => c[1] = Report(th.pub.n, "PUB")
  <2>1. /\ ThreadOK(s) /\ s.kind = "rssi" /\ s.node = Bridge
        /\ \A c : Leads(s, c) => \/ c[1] = [src |-> Bridge, topic |-> RssiTopic,
                                            n |-> th.pub.n, about |-> "PUB"]
                                 \/ Bridge # Bridge /\ c[1] = Report(th.pub.n, "PUB")
    BY ThreadFacts, ReportFacts
  <2> QED BY <2>1 DEF LivesOn, Report
<1>4. ASSUME NEW s \in bs
      PROVE  ThreadOK(s) /\ LivesOn(s) /\ s.kind = "far" /\ \A c : Leads(s, c) => c[1] = th.pub
  BY ThreadFacts, BrokerFacts DEF LivesOn, InProgram
<1>5. th.pub.about # "PUB" /\ Report(th.pub.n, "PUB").about = "PUB"
  BY <1>1, ThreadFacts DEF ThreadOK, Report
<1>6. \A c : c[1] \in {th.pub, Report(th.pub.n, "PUB")} => Leads(th, c)
  BY <1>1 DEF Leads, Publishes
<1>7. \A s, t \in rs : s = t
  BY OneReport
<1>8. \A s, t \in bs : s = t
  BY ThreadFacts, BrokerFacts
<1>9. ASSUME NEW o \in owed', OwedOK(o), Carries(th, o)
      PROVE  \E t \in DOMAIN threads' : Carries(t, o)
  <2>1. th.pub = o[1] /\ th.pub.topic # EmptyTopic
    BY <1>9 DEF OwedOK, Carries
  <2>2. Matches(th.pub, o[3]) /\ o[3] \in brokerSubs
    BY <1>9, <2>1 DEF OwedOK, MatchingFilters, IInv, DbInv
  <2>3. Thread("far", Bridge, th.pub, NoFilter) \in bs
    BY <2>1, <2>2 DEF BrokerPublish
  <2>4. Thread("far", Bridge, th.pub, NoFilter) \in DOMAIN threads'
    <3> HIDE DEF bs, rs
    <3> QED BY <1>2, <2>3 DEF Becomes
  <2>5. Carries(Thread("far", Bridge, th.pub, NoFilter), o)
    BY <2>1 DEF Carries, Thread
  <2> QED BY <2>4, <2>5
<1> HIDE DEF rs, bs
<1>10. ThreadsInv' /\ CallsInv' /\ TokenInv' /\ FreshInv'
  <2>1. \A s \in rs \cup bs : ThreadOK(s) /\ LivesOn(s) /\ s.kind # th.kind
    BY <1>1, <1>3, <1>4
  <2>2. \A s \in rs \cup bs : \A c : Leads(s, c) => Leads(th, c)
    BY <1>3, <1>4, <1>6
  <2>3. \A s, t \in rs \cup bs : \A c : Leads(s, c) /\ Leads(t, c) => s = t
    BY <1>3, <1>4, <1>5, <1>7, <1>8
  <2> QED BY <1>1, <1>2, <2>1, <2>2, <2>3, Handled
<1>11. OwedInv'
  <2>1. DOMAIN threads \ {th} \subseteq DOMAIN threads' /\ owed' \subseteq owed
    BY <1>1, <1>2 DEF Becomes
  <2>2. \A o \in owed' : OwedOK(o) => OwedOK(o)'
    BY <1>1, SameBooks DEF dbs
  <2> QED BY <1>9, <2>1, <2>2, Carried DEF IInv
<1> QED BY <1>1, <1>10, <1>11, SameDbs DEF IInv, CountInv

\* A probe is reported, its payload goes to the broker and its answer to the client.
LEMMA ProbeReqInv ==
  ASSUME IInv, NEW th \in DOMAIN threads, ProcessProbeReq(th)
  PROVE  IInv'
<1> DEFINE rs == PublishRssi(Bridge, "PROBE_REQ", th.pub.n)
           q == [th.pub EXCEPT !.src = Bridge]
           bs == IF th.pub.topic = ProbeTopic THEN BrokerPublish(q) ELSE {}
           answer == Thread("PROBE_RES", th.pub.src, [th.pub EXCEPT !.topic = EmptyTopic], NoFilter)
           others == EndStarting(th, rs \cup bs)
<1>1. th.kind = "PROBE_REQ" /\ Send(others, answer)
      /\ UNCHANGED <<dbs, alive, messages, requests, done>>
  BY DEF ProcessProbeReq
<1>2. Becomes(threads, others, {th}, rs \cup bs)
  BY <1>1, EndAndStart, ThreadFacts
<1>3. q \in Publication /\ q.about = "nothing" /\ q.n = th.pub.n
  BY <1>1, ThreadFacts DEF ThreadOK, Publication
<1>4. ASSUME NEW s \in rs
      PROVE  /\ ThreadOK(s) /\ LivesOn(s) /\ s.kind = "rssi"
             /\ \A c : Leads(s, c) => c[1] = Report(th.pub.n, "PROBE_REQ")
  <2>1. /\ ThreadOK(s) /\ s.kind = "rssi" /\ s.node = Bridge
        /\ \A c : Leads(s, c) => \/ c[1] = [src |-> Bridge, topic |-> RssiTopic,
                                            n |-> th.pub.n, about |-> "PROBE_REQ"]
                                 \/ Bridge # Bridge /\ c[1] = Report(th.pub.n, "PUB")
    BY ThreadFacts, ReportFacts
  <2> QED BY <2>1 DEF LivesOn, Report
<1>5. ASSUME NEW s \in bs
      PROVE  ThreadOK(s) /\ LivesOn(s) /\ s.kind = "far" /\ \A c : Leads(s, c) => c[1] = q
  BY <1>3, BrokerFacts DEF LivesOn, InProgram
<1>6. /\ ThreadOK(answer) /\ LivesOn(answer) /\ answer.kind = "PROBE_RES"
      /\ answer.node = th.pub.src /\ answer.pub.n = th.pub.n
  <2>1. [th.pub EXCEPT !.topic = EmptyTopic] \in Publication
        /\ [th.pub EXCEPT !.topic = EmptyTopic].n = th.pub.n
    BY ThreadFacts DEF Publication
  <2> QED BY <2>1, ThreadFacts DEF ThreadOK, Thread, Kinds, LivesOn, InProgram
<1> DEFINE res == [src |-> th.pub.src, topic |-> RssiTopic, n |-> th.pub.n, about |-> "PROBE_RES"]
<1>7. \A c : Leads(answer, c) => c[1] \in {Report(th.pub.n, "PUB"), res}
  <2> HIDE DEF answer
  <2> QED BY <1>6 DEF Leads, Publishes
<1>8. \A c : c[1] \in {Report(th.pub.n, "PROBE_REQ"), q, Report(th.pub.n, "PUB"), res}
             => Leads(th, c)
  BY <1>1 DEF Leads, Publishes
<1>9. /\ Report(th.pub.n, "PROBE_REQ").about = "PROBE_REQ"
      /\ Report(th.pub.n, "PUB").about = "PUB" /\ res.about = "PROBE_RES"
  BY DEF Report
<1>10. \A s, t \in rs : s = t
  BY OneReport
<1>11. \A s, t \in bs : s = t
  BY <1>3, BrokerFacts
<1> HIDE DEF rs, bs, q, answer, others, res
<1>12. answer \notin (rs \cup bs) \cup {th}
  BY <1>1, <1>4, <1>5, <1>6
<1>13. /\ losses' \in 0..MaxLosses /\ owed' \subseteq owed
       /\ \/ Becomes(threads, threads', {th}, (rs \cup bs) \cup {answer})
          \/ Becomes(threads, threads', {th}, rs \cup bs)
  BY <1>1, <1>2, <1>12, ThreadFacts, Sent
<1>14. PICK in \in {(rs \cup bs) \cup {answer}, rs \cup bs} : Becomes(threads, threads', {th}, in)
  BY <1>13
<1>15. ThreadsInv' /\ CallsInv' /\ TokenInv' /\ FreshInv'
  <2>1. \A s \in in : ThreadOK(s) /\ LivesOn(s) /\ s.kind # th.kind
    BY <1>1, <1>4, <1>5, <1>6
  <2>2. \A s \in in : \A c : Leads(s, c) => Leads(th, c)
    BY <1>4, <1>5, <1>7, <1>8
  <2>3. \A s, t \in in : \A c : Leads(s, c) /\ Leads(t, c) => s = t
    BY <1>3, <1>4, <1>5, <1>7, <1>9, <1>10, <1>11
  <2> QED BY <1>1, <1>14, <2>1, <2>2, <2>3, Handled
<1>16. OwedInv'
  <2>1. DOMAIN threads \ {th} \subseteq DOMAIN threads'
    BY <1>14 DEF Becomes
  <2>2. \A o \in owed' : OwedOK(o) => OwedOK(o)'
    BY <1>1, SameBooks DEF dbs
  <2>3. \A o : ~Carries(th, o)
    BY <1>1 DEF Carries
  <2> QED BY <1>13, <2>1, <2>2, <2>3, Carried DEF IInv
<1> QED BY <1>1, <1>13, <1>15, <1>16, SameDbs DEF IInv, CountInv

\* A report of the bridge, as the only thread or next to one that leads to nothing.
LEMMA BridgeReport ==
  ASSUME IInv, NEW th \in DOMAIN threads, th.kind \in {"SUB_REQ", "UNSUB"},
         NEW S, threads' = EndStarting(th, S),
         \A s \in S : \/ s \in PublishRssi(Bridge, th.kind, th.pub.n)
                      \/ s = [th EXCEPT !.kind = "removeUnused"],
         UNCHANGED <<alive, messages, requests, done>>
  PROVE  /\ ThreadsInv' /\ CallsInv' /\ TokenInv' /\ FreshInv'
         /\ DOMAIN threads \ {th} \subseteq DOMAIN threads'
<1> DEFINE rs == PublishRssi(Bridge, th.kind, th.pub.n)
<1>1. Becomes(threads, threads', {th}, S)
  BY EndAndStart, ThreadFacts
<1>2. ASSUME NEW s \in rs
      PROVE  /\ ThreadOK(s) /\ LivesOn(s) /\ s.kind = "rssi"
             /\ \A c : Leads(s, c) => Leads(th, c)
  <2>1. /\ ThreadOK(s) /\ s.kind = "rssi" /\ s.node = Bridge
        /\ \A c : Leads(s, c) => \/ c[1] = [src |-> Bridge, topic |-> RssiTopic,
                                            n |-> th.pub.n, about |-> th.kind]
                                 \/ Bridge # Bridge /\ c[1] = Report(th.pub.n, "PUB")
    BY ThreadFacts, ReportFacts
  <2>2. \A c : c[1] = Report(th.pub.n, th.kind) => Leads(th, c)
    BY DEF Leads, Publishes
  <2> QED BY <2>1, <2>2 DEF LivesOn, Report
<1>3. ASSUME NEW s \in S, s \notin rs
      PROVE  ThreadOK(s) /\ LivesOn(s) /\ s.kind = "removeUnused" /\ \A c : ~Leads(s, c)
  <2>1. s = [th EXCEPT !.kind = "removeUnused"]
    BY <1>3
  <2>2. ThreadOK(s) /\ s.kind = "removeUnused"
    BY <2>1, ThreadFacts DEF ThreadOK, Kinds
  <2> QED BY <2>2 DEF LivesOn, InProgram, Leads, Publishes
<1>4. \A s, t \in rs : s = t
  BY OneReport
<1> HIDE DEF rs
<1>5. ThreadsInv' /\ CallsInv' /\ TokenInv' /\ FreshInv'
  <2>1. \A s \in S : ThreadOK(s) /\ LivesOn(s) /\ s.kind # th.kind
    BY <1>2, <1>3
  <2>2. \A s \in S : \A c : Leads(s, c) => Leads(th, c)
    BY <1>2, <1>3
  <2>3. \A s, t \in S : \A c : Leads(s, c) /\ Leads(t, c) => s = t
    BY <1>3, <1>4
  <2> QED BY <1>1, <2>1, <2>2, <2>3, Handled
<1> QED BY <1>1, <1>5 DEF Becomes

\* A subscription adds to the database of the bridge.
LEMMA SubReqInv ==
  ASSUME IInv, NEW th \in DOMAIN threads, ProcessSubReq(th)
  PROVE  IInv'
<1>1. /\ th.kind = "SUB_REQ" /\ th.via \in Filter
      /\ threads' = EndStarting(th, PublishRssi(Bridge, th.kind, th.pub.n))
      /\ UNCHANGED <<clientDB, alive, messages, requests, losses, done, owed>>
  BY ThreadFacts DEF ProcessSubReq, ThreadOK
<1>2. /\ ThreadsInv' /\ CallsInv' /\ TokenInv' /\ FreshInv'
      /\ DOMAIN threads \ {th} \subseteq DOMAIN threads'
  <2>1. th.kind \in {"SUB_REQ", "UNSUB"} /\ UNCHANGED <<alive, messages, requests, done>>
    BY <1>1 DEF done
  <2> QED BY <1>1, <2>1, BridgeReport
<1>3. subDB' = [subDB EXCEPT ![th.via] = @ \cup {th.pub.src}]
      /\ brokerSubs' = IF subDB[th.via] = {} THEN brokerSubs \cup {th.via} ELSE brokerSubs
  BY DEF ProcessSubReq
<1>4. DbInv'
  BY <1>1, <1>3, ThreadFacts DEF IInv, DbInv
<1>5. \A o \in owed' : OwedOK(o) => OwedOK(o)'
  BY <1>1, <1>3 DEF OwedOK, IInv, DbInv
<1>6. \A o : ~Carries(th, o)
  BY <1>1 DEF Carries
<1>7. OwedInv'
  BY <1>1, <1>2, <1>5, <1>6, Carried DEF IInv
<1> QED BY <1>1, <1>2, <1>4, <1>7 DEF IInv, CountInv

\* An unsubscription takes from it, and with it what was owed.
LEMMA UnsubInv ==
  ASSUME IInv, NEW th \in DOMAIN threads, ProcessUnsub(th)
  PROVE  IInv'
<1> DEFINE S == PublishRssi(Bridge, th.kind, th.pub.n) \cup {[th EXCEPT !.kind = "removeUnused"]}
<1>1. /\ th.kind = "UNSUB" /\ threads' = EndStarting(th, S)
      /\ subDB' = [subDB EXCEPT ![th.via] = @ \ {th.pub.src}]
      /\ owed' = {o \in owed : o[2] # th.pub.src \/ o[3] # th.via}
      /\ UNCHANGED <<brokerSubs, clientDB, alive, messages, requests, losses, done>>
  BY DEF ProcessUnsub, NoLongerOwed
<1>2. /\ ThreadsInv' /\ CallsInv' /\ TokenInv' /\ FreshInv'
      /\ DOMAIN threads \ {th} \subseteq DOMAIN threads'
  <2>1. th.kind \in {"SUB_REQ", "UNSUB"} /\ UNCHANGED <<alive, messages, requests, done>>
    BY <1>1 DEF done
  <2>2. \A s \in S : \/ s \in PublishRssi(Bridge, th.kind, th.pub.n)
                     \/ s = [th EXCEPT !.kind = "removeUnused"]
    OBVIOUS
  <2> HIDE DEF S
  <2> QED BY <1>1, <2>1, <2>2, BridgeReport
<1>3. DbInv'
  BY <1>1 DEF IInv, DbInv
<1>4. \A o \in owed' : OwedOK(o) => OwedOK(o)'
  BY <1>1 DEF OwedOK, IInv, DbInv
<1>5. \A o : ~Carries(th, o)
  BY <1>1 DEF Carries
<1>6. OwedInv'
  BY <1>1, <1>2, <1>4, <1>5, Carried DEF IInv
<1> QED BY <1>1, <1>2, <1>3, <1>6 DEF IInv, CountInv

\* The clean-up keeps the topics that are used.
LEMMA UnusedInv ==
  ASSUME IInv, NEW th \in DOMAIN threads, RemoveUnusedTopics(th)
  PROVE  IInv'
<1>1. /\ th.kind = "removeUnused" /\ threads' = BagRemove(threads, th)
      /\ brokerSubs' = {f \in brokerSubs : subDB[f] # {}}
      /\ UNCHANGED <<subDB, clientDB, alive, messages, requests, losses, done, owed>>
  BY DEF RemoveUnusedTopics
<1>2. Becomes(threads, threads', {th}, {})
  BY <1>1, End, ThreadFacts
<1>3. ThreadsInv' /\ CallsInv' /\ TokenInv' /\ FreshInv'
  BY <1>1, <1>2, Handled
<1>4. DbInv'
  BY <1>1 DEF IInv, DbInv
<1>5. OwedInv'
  <2>1. DOMAIN threads \ {th} \subseteq DOMAIN threads' /\ owed' \subseteq owed
    BY <1>1, <1>2 DEF Becomes
  <2>2. \A o : ~Carries(th, o)
    BY <1>1 DEF Carries
  <2>3. \A o \in owed' : OwedOK(o) => OwedOK(o)'
    BY <1>1, SameBooks
  <2> QED BY <2>1, <2>2, <2>3, Carried DEF IInv
<1> QED BY <1>1, <1>3, <1>4, <1>5 DEF IInv, CountInv

\* A report of the bridge goes to the broker, one of a client to the bridge.
LEMMA ReportInv ==
  ASSUME IInv, NEW th \in DOMAIN threads, PublishReport(th)
  PROVE  IInv'
<1>1. th.kind = "rssi" /\ UNCHANGED <<dbs, alive, messages, requests, done>>
  BY DEF PublishReport
<1>2. \A o : ~Carries(th, o)
  BY <1>1 DEF Carries
<1>3. ASSUME NEW in, Becomes(threads, threads', {th}, in),
             losses' \in 0..MaxLosses, owed' \subseteq owed,
             \A s \in in : ThreadOK(s) /\ LivesOn(s) /\ s.kind # th.kind,
             \A s \in in : \A c : Leads(s, c) => Leads(th, c),
             \A s, t \in in : s = t
      PROVE  IInv'
  <2>1. ThreadsInv' /\ CallsInv' /\ TokenInv' /\ FreshInv'
    BY <1>1, <1>3, Handled
  <2>2. DOMAIN threads \ {th} \subseteq DOMAIN threads'
    BY <1>3 DEF Becomes
  <2>3. \A o \in owed' : OwedOK(o) => OwedOK(o)'
    BY <1>1, SameBooks DEF dbs
  <2>4. OwedInv'
    BY <1>2, <1>3, <2>2, <2>3, Carried DEF IInv
  <2> QED BY <1>1, <1>3, <2>1, <2>4, SameDbs DEF IInv, CountInv
<1>4. CASE /\ th.node = Bridge /\ threads' = EndStarting(th, BrokerPublish(th.pub))
           /\ UNCHANGED <<losses, owed>>
  <2>1. Becomes(threads, threads', {th}, BrokerPublish(th.pub))
    BY <1>4, EndAndStart, ThreadFacts
  <2>2. \A c : c[1] = th.pub => Leads(th, c)
    BY <1>1 DEF Leads, Publishes
  <2>3. ASSUME NEW s \in BrokerPublish(th.pub)
        PROVE  ThreadOK(s) /\ LivesOn(s) /\ s.kind # th.kind /\ \A c : Leads(s, c) => Leads(th, c)
    <3>1. ThreadOK(s) /\ s.kind = "far" /\ \A c : Leads(s, c) => c[1] = th.pub
      BY ThreadFacts, BrokerFacts
    <3> QED BY <1>1, <2>2, <3>1 DEF LivesOn, InProgram
  <2>4. \A s, t \in BrokerPublish(th.pub) : s = t
    BY ThreadFacts, BrokerFacts
  <2>5. losses' \in 0..MaxLosses /\ owed' \subseteq owed
    BY <1>4, ThreadFacts
  <2> QED BY <1>3, <2>1, <2>3, <2>4, <2>5
<1>5. CASE th.node \in Client
           /\ Send(BagRemove(threads, th), Thread("PUB", Bridge, th.pub, NoFilter))
  <2> DEFINE t == Thread("PUB", Bridge, th.pub, NoFilter)
  <2>1. Becomes(threads, BagRemove(threads, th), {th}, {})
    BY End, ThreadFacts
  <2>2. /\ t.kind = "PUB" /\ t.pub = th.pub /\ ThreadOK(t) /\ LivesOn(t)
        /\ th.node # Bridge
    <3>1. th.node # Bridge
      BY <1>5, NodeAssumption
    <3> QED BY <1>1, <3>1, ThreadFacts DEF Thread, ThreadOK, Kinds, LivesOn, InProgram
  <2>3. \A c : Leads(t, c) => Leads(th, c)
    <3> HIDE DEF t
    <3> QED BY <1>1, <2>2 DEF Leads, Publishes
  <2> HIDE DEF t
  <2>4. Send(BagRemove(threads, th), t) /\ t \notin {} \cup {th}
    BY <1>1, <1>5, <2>2 DEF t
  <2>5. losses' \in 0..MaxLosses /\ owed' \subseteq owed
        /\ (Becomes(threads, threads', {th}, {} \cup {t}) \/ Becomes(threads, threads', {th}, {}))
    BY <2>1, <2>4, ThreadFacts, Sent
  <2>6. PICK in \in {{} \cup {t}, {}} : Becomes(threads, threads', {th}, in)
    BY <2>5
  <2>7. \A s \in in : s = t
    BY <2>6
  <2> QED BY <1>1, <1>3, <2>2, <2>3, <2>5, <2>6, <2>7
<1> QED BY <1>4, <1>5 DEF PublishReport

\* receiveFar() hands on what it carries to every address of every matching topic.
LEMMA FarInv ==
  ASSUME IInv, NEW th \in DOMAIN threads, ReceiveFar(th)
  PROVE  IInv'
<1> DEFINE child(a, f) == Thread(IF a = Bridge THEN "callback" ELSE "subData", a, th.pub, f)
           in == UNION {{child(a, f) : a \in subDB[f]} : f \in MatchingFilters(th.pub)}
<1>1. th.kind = "far" /\ threads' = EndStarting(th, in)
      /\ UNCHANGED <<dbs, alive, messages, requests, losses, done, owed>>
  BY DEF ReceiveFar
<1>2. Becomes(threads, threads', {th}, in)
  BY <1>1, EndAndStart, ThreadFacts
<1>3. ASSUME NEW f \in MatchingFilters(th.pub), NEW a \in subDB[f]
      PROVE  /\ a \in Node /\ ThreadOK(child(a, f)) /\ LivesOn(child(a, f))
             /\ child(a, f).kind = IF a = Bridge THEN "callback" ELSE "subData"
             /\ child(a, f).pub = th.pub /\ child(a, f).node = a /\ child(a, f).via = f
  <2>1. f \in Filter /\ a \in Node
    BY DEF MatchingFilters, IInv, DbInv
  <2> QED BY <2>1, ThreadFacts DEF Thread, ThreadOK, Kinds, LivesOn, InProgram, Node
<1>4. ASSUME NEW s \in in
      PROVE  /\ ThreadOK(s) /\ LivesOn(s) /\ s.kind # th.kind
             /\ \A c : Leads(s, c) => Leads(th, c) /\ s = child(c[2], IF s.kind = "callback"
                                                                        THEN c[3] ELSE c[4])
  <2>1. PICK f \in MatchingFilters(th.pub) : \E a \in subDB[f] : s = child(a, f)
    OBVIOUS
  <2>2. PICK a \in subDB[f] : s = child(a, f)
    BY <2>1
  <2>3. /\ ThreadOK(s) /\ LivesOn(s) /\ s.pub = th.pub /\ s.node = a /\ s.via = f
        /\ s.kind = IF a = Bridge THEN "callback" ELSE "subData"
    BY <1>3, <2>2
  <2> HIDE DEF child
  <2>4. ASSUME NEW c, Leads(s, c)
        PROVE  c[1] = th.pub /\ c[2] = a /\ f = IF s.kind = "callback" THEN c[3] ELSE c[4]
    BY <2>3, <2>4 DEF Leads, Publishes
  <2>5. \A c : c[1] = th.pub => Leads(th, c)
    BY <1>1 DEF Leads, Publishes
  <2> QED BY <1>1, <2>2, <2>3, <2>4, <2>5
<1>5. ASSUME NEW s \in in, NEW t \in in, NEW c, Leads(s, c), Leads(t, c)
      PROVE  s = t
  <2>1. ASSUME NEW u \in in, Leads(u, c) PROVE u.kind = IF c[2] = Bridge THEN "callback" ELSE "subData"
    <3>1. PICK f \in MatchingFilters(th.pub) : \E a \in subDB[f] : u = child(a, f)
      OBVIOUS
    <3>2. PICK a \in subDB[f] : u = child(a, f)
      BY <3>1
    <3>3. u.node = a /\ u.kind = IF a = Bridge THEN "callback" ELSE "subData"
      BY <1>3, <3>2
    <3> HIDE DEF child, in
    <3> QED BY <2>1, <3>3 DEF Leads
  <2>2. s.kind = t.kind
    BY <1>5, <2>1
  <2> HIDE DEF in, child
  <2> QED BY <1>4, <1>5, <2>2
<1>6. ThreadsInv' /\ CallsInv' /\ TokenInv' /\ FreshInv'
  <2> HIDE DEF in, child
  <2> QED BY <1>1, <1>2, <1>4, <1>5, Handled
<1>7. ASSUME NEW o \in owed', OwedOK(o), Carries(th, o)
      PROVE  \E t \in DOMAIN threads' : Carries(t, o)
  <2>1. /\ th.pub = o[1] /\ o[3] \in MatchingFilters(th.pub) /\ o[2] \in subDB[o[3]]
        /\ o[2] \in Node
    BY <1>7 DEF OwedOK, Carries
  <2>2. child(o[2], o[3]) \in in
    BY <2>1
  <2>3. child(o[2], o[3]) \in DOMAIN threads'
    <3> HIDE DEF in, child
    <3> QED BY <1>2, <2>2 DEF Becomes
  <2>4. Carries(child(o[2], o[3]), o)
    BY <2>1 DEF Carries, Thread, Node
  <2> QED BY <2>3, <2>4
<1> HIDE DEF in, child
<1>8. OwedInv'
  <2>1. DOMAIN threads \ {th} \subseteq DOMAIN threads' /\ owed' \subseteq owed
    BY <1>1, <1>2 DEF Becomes
  <2>2. \A o \in owed' : OwedOK(o) => OwedOK(o)'
    BY <1>1, SameBooks DEF dbs
  <2> QED BY <1>7, <2>1, <2>2, Carried DEF IInv
<1> QED BY <1>1, <1>6, <1>8, SameDbs DEF IInv, CountInv

\* A call is made: th, and nothing else, led to it.
LEMMA Called ==
  ASSUME IInv, NEW th \in DOMAIN threads, NEW call, Leads(th, call), CallOK(call),
         threads' = BagRemove(threads, th),
         calls' = calls \cup {call}, repeated' = repeated \cup ({call} \cap calls),
         UNCHANGED <<alive, messages, requests>>
  PROVE  /\ ThreadsInv' /\ CallsInv' /\ TokenInv' /\ FreshInv'
         /\ DOMAIN threads \ {th} \subseteq DOMAIN threads'
<1>1. /\ threads[th] = 1 /\ call \notin calls /\ Known(call[1])
      /\ \A y \in DOMAIN threads : Leads(y, call) => y = th
  BY DEF IInv, TokenInv, TokensOf
<1>2. Becomes(threads, threads', {th}, {})
  BY End, ThreadFacts
<1>3. DOMAIN threads' = DOMAIN threads \ {th} /\ \A x \in DOMAIN threads' : threads'[x] = threads[x]
  BY <1>1, <1>2 DEF Becomes
<1>4. \A p : Known(p)' <=> Known(p)
  BY DEF Known
<1>5. \A x, c : Leads(x, c)' <=> Leads(x, c)
  BY DEF Leads, Publishes, Report
<1>6. TokenInv'
  <2> SUFFICES ASSUME NEW x \in DOMAIN threads', NEW c, Leads(x, c)
               PROVE  /\ threads'[x] = 1 /\ c \notin calls' /\ Known(c[1])'
                      /\ \A y \in DOMAIN threads' : Leads(y, c) => y = x
    BY <1>5 DEF TokenInv, TokensOf
  <2>1. /\ threads[x] = 1 /\ c \notin calls /\ Known(c[1]) /\ x # th
        /\ \A y \in DOMAIN threads : Leads(y, c) => y = x
    BY <1>3 DEF IInv, TokenInv, TokensOf
  <2>2. c # call
    BY <1>1, <1>3, <2>1
  <2> QED BY <1>3, <1>4, <2>1, <2>2
<1>7. FreshInv'
  BY <1>1, <1>4 DEF IInv, FreshInv
<1>8. ThreadsInv'
  BY <1>2 DEF IInv, ThreadsInv, Becomes, LivesOn
<1>9. CallsInv'
  BY <1>1 DEF IInv, CallsInv
<1> QED BY <1>3, <1>6, <1>7, <1>8, <1>9

\* The callback of the bridge is called.
LEMMA BridgeCallInv ==
  ASSUME IInv, NEW th \in DOMAIN threads, CallBridgeCallback(th)
  PROVE  IInv'
<1> DEFINE call == <<th.pub, Bridge, th.via, NoFilter>>
<1>1. /\ th.kind = "callback" /\ threads' = BagRemove(threads, th)
      /\ calls' = calls \cup {call} /\ repeated' = repeated \cup ({call} \cap calls)
      /\ owed' = owed \ {<<th.pub, Bridge, th.via>>}
      /\ UNCHANGED <<dbs, alive, messages, requests, losses>>
  BY DEF CallBridgeCallback, Call
<1>2. th.via \in MatchingFilters(th.pub) /\ th.via \in Filter /\ Matches(th.pub, th.via)
  BY <1>1, ThreadFacts DEF ThreadOK, MatchingFilters
<1>3. Leads(th, call) /\ CallOK(call)
  BY <1>1, <1>2, ThreadFacts DEF Leads, Publishes, CallOK
<1> HIDE DEF call
<1>4. /\ ThreadsInv' /\ CallsInv' /\ TokenInv' /\ FreshInv'
      /\ DOMAIN threads \ {th} \subseteq DOMAIN threads'
  BY <1>1, <1>3, Called
<1>5. ASSUME NEW o \in owed', OwedOK(o) PROVE ~Carries(th, o)
  <2>1. o = <<o[1], o[2], o[3]>>
    BY <1>5 DEF OwedOK
  <2> QED BY <1>1, <2>1 DEF Carries
<1>6. OwedInv'
  <2>1. \A o \in owed' : OwedOK(o) => OwedOK(o)'
    BY <1>1, SameBooks DEF dbs
  <2> QED BY <1>1, <1>4, <1>5, <2>1, Carried DEF IInv
<1> QED BY <1>1, <1>4, <1>6, SameDbs DEF IInv, CountInv

\* The data for a client goes by radio.
LEMMA SubDataInv ==
  ASSUME IInv, NEW th \in DOMAIN threads, PublishSubData(th)
  PROVE  IInv'
<1> DEFINE t == [th EXCEPT !.kind = "SUB_DATA"]
<1>1. /\ th.kind = "subData" /\ Send(BagRemove(threads, th), t)
      /\ UNCHANGED <<dbs, alive, messages, requests, done>>
  BY DEF PublishSubData
<1>2. /\ ThreadOK(t) /\ LivesOn(t) /\ t.kind = "SUB_DATA"
      /\ t.pub = th.pub /\ t.node = th.node /\ t.via = th.via
  BY <1>1, ThreadFacts DEF ThreadOK, Kinds, LivesOn, InProgram
<1> HIDE DEF t
<1>3. \A c : Leads(t, c) => Leads(th, c)
  BY <1>1, <1>2 DEF Leads, Publishes
<1>4. Becomes(threads, BagRemove(threads, th), {th}, {}) /\ t \notin {} \cup {th}
  BY <1>1, <1>2, End, ThreadFacts
<1>5. /\ losses' \in 0..MaxLosses /\ owed' \subseteq owed
      /\ \/ Becomes(threads, threads', {th}, {} \cup {t})
         \/ /\ Becomes(threads, threads', {th}, {})
            /\ \A o \in owed' : o[1] # t.pub \/ (t.kind = "SUB_DATA" /\ o[2] # t.node)
  BY <1>1, <1>4, ThreadFacts, Sent
<1>6. PICK in \in {{} \cup {t}, {}} : Becomes(threads, threads', {th}, in)
  BY <1>5
<1>7. ThreadsInv' /\ CallsInv' /\ TokenInv' /\ FreshInv'
  <2>1. \A s \in in : s = t
    BY <1>6
  <2> QED BY <1>1, <1>2, <1>3, <1>6, <2>1, Handled
<1>8. \A o \in owed' : OwedOK(o) /\ Carries(th, o) => \E u \in DOMAIN threads' : Carries(u, o)
  <2>1. CASE Becomes(threads, threads', {th}, {} \cup {t})
    <3>1. t \in DOMAIN threads'
      BY <2>1 DEF Becomes
    <3> QED BY <1>1, <1>2, <3>1 DEF Carries
  <2>2. CASE \A o \in owed' : o[1] # t.pub \/ (t.kind = "SUB_DATA" /\ o[2] # t.node)
    BY <1>1, <1>2, <2>2 DEF Carries
  <2> QED BY <1>5, <2>1, <2>2
<1>9. OwedInv'
  <2>1. DOMAIN threads \ {th} \subseteq DOMAIN threads'
    BY <1>6 DEF Becomes
  <2>2. \A o \in owed' : OwedOK(o) => OwedOK(o)'
    BY <1>1, SameBooks DEF dbs
  <2> QED BY <1>5, <1>8, <2>1, <2>2, Carried DEF IInv
<1> QED BY <1>1, <1>5, <1>7, <1>9, SameDbs DEF IInv, CountInv

\* The answer to a probe is reported by a client that lives.
LEMMA ProbeResInv ==
  ASSUME IInv, NEW th \in DOMAIN threads, ProcessProbeRes(th)
  PROVE  IInv'
<1> DEFINE rs == IF th.node \in alive THEN PublishRssi(th.node, "PROBE_RES", th.pub.n) ELSE {}
<1>1. /\ th.kind = "PROBE_RES" /\ threads' = EndStarting(th, rs)
      /\ UNCHANGED <<dbs, alive, messages, requests, losses, done, owed>>
  BY DEF ProcessProbeRes
<1>2. Becomes(threads, threads', {th}, rs)
  BY <1>1, EndAndStart, ThreadFacts
<1>3. ASSUME NEW s \in rs
      PROVE  ThreadOK(s) /\ LivesOn(s) /\ s.kind # th.kind /\ \A c : Leads(s, c) => Leads(th, c)
  <2>1. s \in PublishRssi(th.node, "PROBE_RES", th.pub.n) /\ th.node \in alive
    OBVIOUS
  <2>2. /\ ThreadOK(s) /\ s.kind = "rssi" /\ s.node = th.node
        /\ \A c : Leads(s, c) => \/ c[1] = [src |-> th.node, topic |-> RssiTopic,
                                            n |-> th.pub.n, about |-> "PROBE_RES"]
                                 \/ th.node # Bridge /\ c[1] = Report(th.pub.n, "PUB")
    BY <2>1, ThreadFacts, ReportFacts
  <2>3. \A c : c[1] \in {[src |-> th.node, topic |-> RssiTopic, n |-> th.pub.n,
                          about |-> "PROBE_RES"], Report(th.pub.n, "PUB")} => Leads(th, c)
    BY <1>1 DEF Leads, Publishes
  <2> QED BY <1>1, <2>1, <2>2, <2>3 DEF LivesOn
<1>4. \A s, t \in rs : s = t
  BY OneReport
<1> HIDE DEF rs
<1>5. ThreadsInv' /\ CallsInv' /\ TokenInv' /\ FreshInv'
  BY <1>1, <1>2, <1>3, <1>4, Handled
<1>6. OwedInv'
  <2>1. DOMAIN threads \ {th} \subseteq DOMAIN threads' /\ owed' \subseteq owed
    BY <1>1, <1>2 DEF Becomes
  <2>2. \A o \in owed' : OwedOK(o) => OwedOK(o)'
    BY <1>1, SameBooks DEF dbs
  <2>3. \A o : ~Carries(th, o)
    BY <1>1 DEF Carries
  <2> QED BY <2>1, <2>2, <2>3, Carried DEF IInv
<1> QED BY <1>1, <1>5, <1>6, SameDbs DEF IInv, CountInv

\* processSubData() hands on to its references, one for each matching entry.
LEMMA DataInv ==
  ASSUME IInv, NEW th \in DOMAIN threads, ProcessSubData(th)
  PROVE  IInv'
<1> DEFINE ref(f) == [th EXCEPT !.kind = "entry", !.entry = f]
           fs == clientDB[th.node] \cap MatchingFilters(th.pub)
           in == IF th.node \in alive THEN {ref(f) : f \in fs} ELSE {}
<1>1. /\ th.kind = "SUB_DATA" /\ threads' = EndStarting(th, in)
      /\ UNCHANGED <<dbs, alive, messages, requests, losses, done, owed>>
  BY DEF ProcessSubData, References
<1>2. Becomes(threads, threads', {th}, in)
  BY <1>1, EndAndStart, ThreadFacts
<1>3. ASSUME NEW f \in fs, th.node \in alive
      PROVE  /\ ThreadOK(ref(f)) /\ LivesOn(ref(f)) /\ ref(f).kind = "entry" /\ ref(f).entry = f
             /\ ref(f).node = th.node /\ ref(f).via = th.via /\ ref(f).pub = th.pub
  <2>1. f \in MatchingFilters(th.pub) /\ f \in Filter
    BY DEF MatchingFilters
  <2> QED BY <1>1, <1>3, <2>1, ThreadFacts DEF ThreadOK, Kinds, LivesOn
<1>4. ASSUME NEW s \in in
      PROVE  /\ ThreadOK(s) /\ LivesOn(s) /\ s.kind # th.kind
             /\ \A c : Leads(s, c) => Leads(th, c) /\ s = ref(c[3])
  <2>1. PICK f \in fs : s = ref(f) /\ th.node \in alive
    OBVIOUS
  <2>2. /\ ThreadOK(s) /\ LivesOn(s) /\ s.kind = "entry" /\ s.entry = f
        /\ s.node = th.node /\ s.via = th.via /\ s.pub = th.pub
    BY <1>3, <2>1
  <2> HIDE DEF ref
  <2> QED BY <1>1, <2>1, <2>2 DEF Leads, Publishes
<1>5. ASSUME NEW o \in owed', OwedOK(o), Carries(th, o)
      PROVE  \E t \in DOMAIN threads' : Carries(t, o)
  <2>1. th.pub = o[1] /\ th.node = o[2] /\ th.node \in alive /\ o[3] \in fs
    BY <1>1, <1>5 DEF OwedOK, Carries
  <2>2. ref(o[3]) \in in
    BY <2>1
  <2>3. ref(o[3]) \in DOMAIN threads'
    <3> HIDE DEF in, ref
    <3> QED BY <1>2, <2>2 DEF Becomes
  <2>4. Carries(ref(o[3]), o)
    <3> HIDE DEF ref, fs
    <3> QED BY <1>3, <2>1 DEF Carries
  <2> QED BY <2>3, <2>4
<1> HIDE DEF ref, fs, in
<1>6. ThreadsInv' /\ CallsInv' /\ TokenInv' /\ FreshInv'
  BY <1>1, <1>2, <1>4, Handled
<1>7. OwedInv'
  <2>1. DOMAIN threads \ {th} \subseteq DOMAIN threads' /\ owed' \subseteq owed
    BY <1>1, <1>2 DEF Becomes
  <2>2. \A o \in owed' : OwedOK(o) => OwedOK(o)'
    BY <1>1, SameBooks DEF dbs
  <2> QED BY <1>5, <2>1, <2>2, Carried DEF IInv
<1> QED BY <1>1, <1>6, <1>7, SameDbs DEF IInv, CountInv

\* A reference to an entry is followed; one that dangles may end the program.
LEMMA CallbackInv ==
  ASSUME IInv, NEW th \in DOMAIN threads, CallCallback(th)
  PROVE  IInv'
<1> DEFINE call == <<th.pub, th.node, th.entry, th.via>>
<1>1. /\ th.kind \in {"entry", "stale"} /\ UNCHANGED <<dbs, messages, requests, losses>>
      /\ th.node \in Client /\ th.node # Bridge
      /\ th.entry \in MatchingFilters(th.pub) /\ th.via \in MatchingFilters(th.pub)
  BY ThreadFacts, NodeAssumption DEF CallCallback, ThreadOK
<1>2. CASE /\ threads' = BagRemove(threads, th) /\ UNCHANGED alive
           /\ calls' = calls \cup {call} /\ repeated' = repeated \cup ({call} \cap calls)
           /\ owed' = owed \ {<<th.pub, th.node, th.entry>>}
  <2>1. th.entry \in Filter /\ th.via \in Filter /\ Matches(th.pub, th.entry)
    BY <1>1 DEF MatchingFilters
  <2>2. Leads(th, call) /\ CallOK(call)
    BY <1>1, <2>1, ThreadFacts DEF Leads, Publishes, CallOK
  <2> HIDE DEF call
  <2>3. /\ ThreadsInv' /\ CallsInv' /\ TokenInv' /\ FreshInv'
        /\ DOMAIN threads \ {th} \subseteq DOMAIN threads'
    BY <1>1, <1>2, <2>2, Called
  <2>4. ASSUME NEW o \in owed', OwedOK(o) PROVE ~Carries(th, o)
    <3>1. o = <<o[1], o[2], o[3]>>
      BY <2>4 DEF OwedOK
    <3> QED BY <1>1, <1>2, <3>1 DEF Carries
  <2>5. OwedInv'
    <3>1. \A o \in owed' : OwedOK(o) => OwedOK(o)'
      BY <1>1, <1>2, SameBooks DEF dbs
    <3> QED BY <1>2, <2>3, <2>4, <3>1, Carried DEF IInv
  <2> QED BY <1>1, <1>2, <2>3, <2>5, SameDbs DEF IInv, CountInv
<1>3. CASE /\ threads' = BagRemove(threads, th) /\ th.kind = "stale"
           /\ UNCHANGED <<alive, done, owed>>
  <2>1. Becomes(threads, threads', {th}, {})
    BY <1>3, End, ThreadFacts
  <2>2. ThreadsInv' /\ CallsInv' /\ TokenInv' /\ FreshInv'
    BY <1>1, <1>3, <2>1, Handled
  <2>3. OwedInv'
    <3>1. DOMAIN threads \ {th} \subseteq DOMAIN threads' /\ owed' \subseteq owed
      BY <1>3, <2>1 DEF Becomes
    <3>2. \A o \in owed' : OwedOK(o) => OwedOK(o)'
      BY <1>1, <1>3, SameBooks DEF dbs
    <3>3. \A o : ~Carries(th, o)
      BY <1>3 DEF Carries
    <3> QED BY <3>1, <3>2, <3>3, Carried DEF IInv
  <2> QED BY <1>1, <1>3, <2>2, <2>3, SameDbs DEF IInv, CountInv
<1>4. CASE /\ alive' = alive \ {th.node} /\ owed' = {o \in owed : o[2] # th.node}
           /\ threads' = [t \in {u \in DOMAIN threads :
                                   ~(u.kind \in InProgram /\ u.node = th.node)} |-> threads[t]]
           /\ UNCHANGED done
  <2>1. /\ DOMAIN threads' = {u \in DOMAIN threads : ~(u.kind \in InProgram /\ u.node = th.node)}
        /\ \A x \in DOMAIN threads' : threads'[x] = threads[x]
    BY <1>4
  <2>2. ThreadsInv'
    <3>1. IsABag(threads')
      BY <1>4 DEF IInv, ThreadsInv, IsABag
    <3>2. \A x \in DOMAIN threads' : ThreadOK(x) /\ LivesOn(x)'
      BY <1>4, <2>1 DEF IInv, ThreadsInv, LivesOn
    <3> QED BY <3>1, <3>2 DEF ThreadsInv, ThreadOK
  <2>3. TokenInv'
    <3>1. \A x, c : Leads(x, c)' <=> Leads(x, c)
      BY DEF Leads, Publishes, Report
    <3>2. \A p : Known(p)' <=> Known(p)
      BY <1>1 DEF Known
    <3>3. calls' = calls
      BY <1>4 DEF done
    <3> QED BY <2>1, <3>1, <3>2, <3>3 DEF IInv, TokenInv, TokensOf
  <2>4. FreshInv' /\ CallsInv'
    BY <1>1, <1>4 DEF IInv, FreshInv, CallsInv, Known, done
  <2>5. DbInv'
    BY <1>1, <1>4 DEF IInv, DbInv, dbs
  <2>6. ASSUME NEW o \in owed' PROVE OwedOK(o)' /\ UnderWay(o)'
    <3>1. o \in owed /\ OwedOK(o) /\ UnderWay(o) /\ o[2] # th.node
      BY <1>4 DEF IInv, OwedInv
    <3>2. OwedOK(o)'
      BY <1>1, <1>4, <3>1 DEF OwedOK, dbs
    <3>3. PICK t \in DOMAIN threads : Carries(t, o)
      BY <3>1 DEF UnderWay
    <3>4. t \in DOMAIN threads'
      BY <2>1, <3>1, <3>3 DEF Carries, InProgram
    <3> QED BY <3>2, <3>3, <3>4 DEF UnderWay, Carries
  <2> QED BY <1>1, <2>2, <2>3, <2>4, <2>5, <2>6 DEF IInv, OwedInv, CountInv
<1> QED BY <1>2, <1>3, <1>4 DEF CallCallback, Call

\* References that begin to dangle stay on their ways, the others are left alone.
LEMMA Invalidated ==
  ASSUME IInv, NEW B, IsABag(B), DOMAIN B \subseteq DOMAIN threads, TokensOf(B),
         NEW n \in Client, NEW f \in Filter
  PROVE  /\ IsABag(Invalidate(B, n, f)) /\ TokensOf(Invalidate(B, n, f))
         /\ \A x \in DOMAIN Invalidate(B, n, f) :
              ThreadOK(x) /\ LivesOn(x) /\ (x \in DOMAIN B \/ x.kind = "stale")
         /\ \A x \in DOMAIN B : x.kind # "entry" \/ x.node # n \/ x.entry # f
              => x \in DOMAIN Invalidate(B, n, f)
<1> DEFINE refs == {th \in DOMAIN B : th.kind = "entry" /\ th.node = n /\ th.entry = f}
           Back(s) == [s EXCEPT !.kind = "entry"]
           kept == [th \in DOMAIN B \ refs |-> B[th]]
           moved == [s \in {Stale(th) : th \in refs} |-> B[Back(s)]]
           C == Invalidate(B, n, f)
<1>1. C = kept (+) moved
  BY DEF Invalidate
<1>2. ASSUME NEW th \in refs
      PROVE  /\ ThreadOK(Stale(th)) /\ LivesOn(Stale(th)) /\ Stale(th).kind = "stale"
             /\ Back(Stale(th)) = th /\ \A c : Leads(Stale(th), c) <=> Leads(th, c)
  <2>1. th \in DOMAIN threads /\ th.kind = "entry"
    OBVIOUS
  <2>2. ThreadOK(th) /\ LivesOn(th)
    BY <2>1, ThreadFacts
  <2>3. /\ Stale(th).kind = "stale" /\ Stale(th).node = th.node /\ Stale(th).pub = th.pub
        /\ Stale(th).via = th.via /\ Stale(th).entry = th.entry
    BY <2>2 DEF ThreadOK, Stale
  <2>4. Back(Stale(th)) = th
    BY <2>1, <2>2 DEF ThreadOK, Stale
  <2>5. ThreadOK(Stale(th)) /\ LivesOn(Stale(th))
    BY <2>1, <2>2 DEF ThreadOK, Stale, Kinds, LivesOn, InProgram
  <2>6. \A c : Leads(Stale(th), c) <=> Leads(th, c)
    BY <2>1, <2>3 DEF Leads, Publishes
  <2> QED BY <2>3, <2>4, <2>5, <2>6
<1>3. /\ IsABag(C) /\ DOMAIN C = (DOMAIN B \ refs) \cup {Stale(th) : th \in refs}
      /\ \A x \in DOMAIN B \ refs : x \notin {Stale(th) : th \in refs} => C[x] = B[x]
      /\ \A th \in refs : Stale(th) \notin DOMAIN B => C[Stale(th)] = B[th]
  <2>1. /\ DOMAIN kept = DOMAIN B \ refs /\ \A x \in DOMAIN kept : kept[x] = B[x] /\ B[x] \in Nat \ {0}
        /\ DOMAIN moved = {Stale(th) : th \in refs}
        /\ \A th \in refs : moved[Stale(th)] = B[th] /\ B[th] \in Nat \ {0}
    <3>1. \A x \in DOMAIN B : B[x] \in Nat \ {0}
      BY DEF IsABag
    <3> QED BY <1>2, <3>1
  <2> HIDE DEF kept, moved, refs, C
  <2>2. \A s \in DOMAIN moved : moved[s] \in Nat \ {0}
    BY <2>1
  <2>3. IsABag(kept (+) moved)
    BY <2>1, <2>2 DEF IsABag, (+)
  <2>4. /\ DOMAIN (kept (+) moved) = DOMAIN kept \cup DOMAIN moved
        /\ \A x \in DOMAIN kept : x \notin DOMAIN moved => (kept (+) moved)[x] = kept[x]
        /\ \A x \in DOMAIN moved : x \notin DOMAIN kept => (kept (+) moved)[x] = moved[x]
    BY <2>1, <2>2 DEF (+)
  <2> QED BY <1>1, <2>1, <2>3, <2>4
<1> HIDE DEF C, kept, moved, Back
<1>4. ASSUME NEW x \in DOMAIN C, NEW c, Leads(x, c)
      PROVE  /\ C[x] = 1 /\ c \notin calls /\ Known(c[1])
             /\ \A y \in DOMAIN C : Leads(y, c) => y = x
  <2>1. CASE x \in DOMAIN B \ refs
    <3>1. /\ B[x] = 1 /\ c \notin calls /\ Known(c[1])
          /\ \A y \in DOMAIN B : Leads(y, c) => y = x
      BY <1>4, <2>1 DEF TokensOf
    <3>2. ASSUME NEW th \in refs PROVE ~Leads(Stale(th), c)
      BY <1>2, <2>1, <3>1
    <3>3. C[x] = B[x]
      BY <1>3, <1>4, <2>1, <3>2
    <3> QED BY <1>3, <3>1, <3>2, <3>3
  <2>2. CASE x \in {Stale(th) : th \in refs}
    <3>1. PICK th \in refs : x = Stale(th)
      BY <2>2
    <3>2. /\ B[th] = 1 /\ c \notin calls /\ Known(c[1])
          /\ \A y \in DOMAIN B : Leads(y, c) => y = th
      BY <1>2, <1>4, <3>1 DEF TokensOf
    <3>3. x \notin DOMAIN B
      <4>1. x.kind = "stale" /\ th.kind = "entry"
        BY <1>2, <3>1
      <4> QED BY <1>4, <3>2, <4>1
    <3>4. C[x] = 1
      BY <1>3, <3>1, <3>2, <3>3
    <3>5. ASSUME NEW y \in DOMAIN C, Leads(y, c) PROVE y = x
      <4>1. CASE y \in DOMAIN B \ refs
        BY <3>2, <3>5, <4>1
      <4>2. CASE y \in {Stale(u) : u \in refs}
        <5>1. PICK u \in refs : y = Stale(u)
          BY <4>2
        <5> QED BY <1>2, <3>1, <3>2, <3>5, <5>1
      <4> QED BY <1>3, <4>1, <4>2
    <3> QED BY <3>2, <3>4, <3>5
  <2> QED BY <1>3, <2>1, <2>2
<1>5. TokensOf(C)
  BY <1>4 DEF TokensOf
<1>6. \A x \in DOMAIN C : ThreadOK(x) /\ LivesOn(x) /\ (x \in DOMAIN B \/ x.kind = "stale")
  BY <1>2, <1>3, ThreadFacts
<1>7. \A x \in DOMAIN B : x.kind # "entry" \/ x.node # n \/ x.entry # f => x \in DOMAIN C
  BY <1>3
<1> QED BY <1>3, <1>5, <1>6, <1>7 DEF C

\* subscribe() ends with its entry, which may replace another.
LEMMA InsertInv ==
  ASSUME IInv, NEW th \in DOMAIN threads, InsertEntry(th)
  PROVE  IInv'
<1> DEFINE B == BagRemove(threads, th)
<1>1. /\ th.kind = "insert" /\ th.node \in Client /\ th.via \in Filter
      /\ clientDB' = [clientDB EXCEPT ![th.node] = @ \cup {th.via}]
      /\ threads' = Invalidate(B, th.node, th.via)
      /\ owed' = IF th.via \in clientDB[th.node] THEN NoLongerOwed(th.node, th.via) ELSE owed
      /\ UNCHANGED <<subDB, brokerSubs, alive, messages, requests, losses, done>>
  BY ThreadFacts DEF InsertEntry, ThreadOK
<1>2. Becomes(threads, B, {th}, {}) /\ IsABag(B)
  BY End, ThreadFacts DEF Becomes
<1> HIDE DEF B
<1>3. DOMAIN B \subseteq DOMAIN threads /\ DOMAIN threads \ {th} \subseteq DOMAIN B
  BY <1>2 DEF Becomes
<1>4. TokensOf(B)
  <2>1. \A c : ~Leads(th, c)
    BY <1>1 DEF Leads, Publishes
  <2>2. \A x \in DOMAIN B : x # th => B[x] = threads[x]
    BY <1>2 DEF Becomes
  <2> QED BY <1>3, <2>1, <2>2 DEF IInv, TokenInv, TokensOf
<1>5. /\ IsABag(threads') /\ TokensOf(threads')
      /\ \A x \in DOMAIN threads' : ThreadOK(x) /\ LivesOn(x)
      /\ \A x \in DOMAIN B : x.kind # "entry" \/ x.node # th.node \/ x.entry # th.via
           => x \in DOMAIN threads'
  BY <1>1, <1>2, <1>3, <1>4, Invalidated
<1>6. ThreadsInv'
  BY <1>1, <1>5 DEF ThreadsInv, LivesOn
<1>7. TokenInv' /\ FreshInv' /\ CallsInv'
  <2>1. \A x, c : Leads(x, c)' <=> Leads(x, c)
    BY DEF Leads, Publishes, Report
  <2>2. (\A p : Known(p)' <=> Known(p)) /\ calls' = calls /\ repeated' = repeated
    BY <1>1 DEF Known, done
  <2> QED BY <1>5, <2>1, <2>2 DEF IInv, TokenInv, TokensOf, FreshInv, CallsInv
<1>8. DbInv'
  BY <1>1 DEF IInv, DbInv
<1>9. ASSUME NEW o \in owed' PROVE OwedOK(o)' /\ UnderWay(o)'
  <2>1. o \in owed /\ OwedOK(o) /\ UnderWay(o) /\ (o[2] # th.node \/ o[3] # th.via)
    BY <1>1 DEF IInv, OwedInv, NoLongerOwed, OwedOK
  <2>2. OwedOK(o)'
    BY <1>1, <2>1 DEF OwedOK, IInv, DbInv
  <2>3. PICK t \in DOMAIN threads : Carries(t, o)
    BY <2>1 DEF UnderWay
  <2>4. t # th /\ (t.kind # "entry" \/ t.node # th.node \/ t.entry # th.via)
    BY <1>1, <2>1, <2>3 DEF Carries
  <2>5. t \in DOMAIN threads'
    BY <1>3, <1>5, <2>4
  <2> QED BY <2>2, <2>3, <2>5 DEF UnderWay, Carries
<1> QED BY <1>1, <1>6, <1>7, <1>8, <1>9 DEF IInv, CountInv, OwedInv

\* Every handler keeps the invariant.
LEMMA HandleInv ==
  ASSUME IInv, NEW th \in DOMAIN threads, Handle(th)
  PROVE  IInv'
BY PubInv, ProbeReqInv, SubReqInv, UnsubInv, UnusedInv, ReportInv, FarInv, BridgeCallInv,
   SubDataInv, ProbeResInv, InsertInv, DataInv, CallbackInv DEF Handle
------------------------------------------------------------------------------
(* The applications *)

\* What an application starts with is new.
LEMMA NewFacts ==
  ASSUME IInv, NewMessage \/ NewRequest
  PROVE  /\ \A p : Known(p) => Known(p)'
         /\ messages' \in 0..MaxMessages /\ requests' \in 0..MaxRequests
         /\ messages + 1 \in Nat /\ requests + 1 \in Nat
         /\ NewMessage => \A p : p.n = messages + 1 /\ p.about \notin {"SUB_REQ", "UNSUB"}
                                   => ~Known(p) /\ Known(p)'
         /\ NewRequest => \A p : p.n = requests + 1 /\ p.about \in {"SUB_REQ", "UNSUB"}
                                   => ~Known(p) /\ Known(p)'
<1>1. messages \in 0..MaxMessages /\ requests \in 0..MaxRequests
  BY DEF IInv, CountInv
<1>2. NewMessage => messages' = messages + 1 /\ messages < MaxMessages /\ requests' = requests
  BY DEF NewMessage
<1>3. NewRequest => requests' = requests + 1 /\ requests < MaxRequests /\ messages' = messages
  BY DEF NewRequest
<1>4. messages \in 0..messages' /\ requests \in 0..requests' /\ messages' \in Nat /\ requests' \in Nat
  BY <1>1, <1>2, <1>3, DeliveryBounds
<1>5. ASSUME NEW p, Known(p) PROVE Known(p)'
  BY <1>1, <1>4, <1>5 DEF Known
<1>6. ASSUME NewMessage, NEW p, p.n = messages + 1, p.about \notin {"SUB_REQ", "UNSUB"}
      PROVE  ~Known(p) /\ Known(p)'
  BY <1>1, <1>2, <1>6 DEF Known
<1>7. ASSUME NewRequest, NEW p, p.n = requests + 1, p.about \in {"SUB_REQ", "UNSUB"}
      PROVE  ~Known(p) /\ Known(p)'
  BY <1>1, <1>3, <1>7 DEF Known
<1> QED BY <1>1, <1>2, <1>3, <1>5, <1>6, <1>7, DeliveryBounds

\* A node begins with at most one thread that leads to calls, and anything else leads
\* to none.
LEMMA BegunWith ==
  ASSUME IInv, NEW B, TokensOf(B), \A x \in DOMAIN B : ThreadOK(x) /\ LivesOn(x),
         NEW in, Becomes(B, threads', {}, in),
         NEW first, ThreadOK(first), LivesOn(first),
         \A s \in in : s = first \/ (ThreadOK(s) /\ LivesOn(s) /\ \A c : ~Leads(s, c)),
         \/ NewMessage /\ first.pub.n = messages + 1 /\ first.kind \in {"PUB", "PROBE_REQ", "far"}
              /\ first.pub.about = "nothing"
         \/ NewRequest /\ first.pub.n = requests + 1 /\ first.kind \in {"SUB_REQ", "UNSUB"},
         UNCHANGED <<alive, done>>
  PROVE  /\ ThreadsInv' /\ CallsInv' /\ TokenInv' /\ FreshInv'
         /\ messages' \in 0..MaxMessages /\ requests' \in 0..MaxRequests
<1>1. ASSUME NEW c, Leads(first, c) PROVE ~Known(c[1]) /\ Known(c[1])'
  <2>1. first.pub \in Publication
    BY DEF ThreadOK
  <2>2. c[1].n = first.pub.n
    BY <1>1, <2>1 DEF Leads, Publishes, Report, Publication
  <2>3. IF first.kind \in {"SUB_REQ", "UNSUB"} THEN c[1].about \in {"SUB_REQ", "UNSUB"}
                                               ELSE c[1].about \notin {"SUB_REQ", "UNSUB"}
    BY <1>1, <2>1 DEF Leads, Publishes, Report, Publication
  <2> QED BY <2>2, <2>3, NewFacts
<1>2. \A s \in in : ThreadOK(s) /\ LivesOn(s)
  OBVIOUS
<1>3. \A s \in in : \A c : Leads(s, c) => ~Known(c[1]) /\ Known(c[1])'
  BY <1>1
<1>4. \A s, t \in in : \A c : Leads(s, c) /\ Leads(t, c) => s = t
  OBVIOUS
<1>5. \A p : Known(p) => Known(p)'
  BY NewFacts
<1>6. ThreadsInv' /\ CallsInv' /\ TokenInv' /\ FreshInv'
  BY <1>2, <1>3, <1>4, <1>5, Begun
<1> QED BY <1>6, NewFacts

\* A probe.
LEMMA ProbeInv ==
  ASSUME IInv, NEW n \in Client, Probe(n)
  PROVE  IInv'
<1>1. PICK t \in {EmptyTopic, ProbeTopic} :
        Send(threads, Thread("PROBE_REQ", Bridge, Data(n, t, messages + 1), NoFilter))
  BY DEF Probe
<1> DEFINE first == Thread("PROBE_REQ", Bridge, Data(n, t, messages + 1), NoFilter)
<1>2. NewMessage /\ UNCHANGED <<dbs, alive, done>>
  BY DEF Probe
<1>3. /\ ThreadOK(first) /\ LivesOn(first) /\ first.kind = "PROBE_REQ"
      /\ first.pub.n = messages + 1 /\ first.pub.about = "nothing"
  BY <1>2, NewFacts, DataOK DEF Thread, ThreadOK, Kinds, LivesOn, InProgram, Node
<1> HIDE DEF first
<1>4. Becomes(threads, threads, {}, {}) /\ losses \in 0..MaxLosses
  BY StartFirst DEF IInv, ThreadsInv, CountInv
<1>5. Send(threads, first) /\ first \notin {} \cup {}
  BY <1>1 DEF first
<1>6. /\ losses' \in 0..MaxLosses /\ owed' \subseteq owed
      /\ (Becomes(threads, threads', {}, {} \cup {first}) \/ Becomes(threads, threads', {}, {}))
  BY <1>4, <1>5, Sent
<1>7. PICK in \in {{} \cup {first}, {}} : Becomes(threads, threads', {}, in)
  BY <1>6
<1>8. /\ ThreadsInv' /\ CallsInv' /\ TokenInv' /\ FreshInv'
      /\ messages' \in 0..MaxMessages /\ requests' \in 0..MaxRequests
  <2>1. \A s \in in : s = first
    BY <1>7
  <2>2. TokensOf(threads) /\ \A x \in DOMAIN threads : ThreadOK(x) /\ LivesOn(x)
    BY DEF IInv, TokenInv, ThreadsInv
  <2> QED BY <1>2, <1>3, <1>7, <2>1, <2>2, BegunWith
<1>9. OwedInv'
  <2>1. DOMAIN threads \subseteq DOMAIN threads'
    BY <1>7 DEF Becomes
  <2>2. \A o : OwedOK(o) => OwedOK(o)'
    BY <1>2, SameBooks DEF dbs
  <2> QED BY <1>6, <2>1, <2>2 DEF IInv, OwedInv, UnderWay, Carries
<1> QED BY <1>2, <1>6, <1>8, <1>9, SameDbs DEF IInv, CountInv

\* A publication sets out, and whoever is owed it has it on its way.
LEMMA PublishInv ==
  ASSUME IInv, NEW n \in Client, NEW t \in Topic \cup {EmptyTopic}, Publish(n, t)
  PROVE  IInv'
<1> DEFINE p == Data(n, t, messages + 1)
           first == Thread("PUB", Bridge, p, NoFilter)
<1>1. /\ t # EmptyTopic /\ NewMessage /\ UNCHANGED <<dbs, alive, done>>
      /\ \/ threads' = BagAdd(threads, first) /\ owed' = owed \cup Owed(p) /\ UNCHANGED losses
         \/ losses < MaxLosses /\ losses' = losses + 1 /\ UNCHANGED <<threads, owed>>
  BY DEF Publish
<1>2. p \in Publication /\ p.about = "nothing" /\ p.n = messages + 1 /\ p.topic # EmptyTopic
  BY <1>1, NewFacts, DataOK DEF Node
<1>3. ThreadOK(first) /\ LivesOn(first) /\ first.kind = "PUB" /\ first.pub = p
  BY <1>2 DEF Thread, ThreadOK, Kinds, LivesOn, InProgram, Node
<1> HIDE DEF first, p
<1>4. Becomes(threads, BagAdd(threads, first), {}, {first}) /\ Becomes(threads, threads, {}, {})
  BY StartFirst DEF IInv, ThreadsInv
<1>5. PICK in \in {{first}, {}} : /\ Becomes(threads, threads', {}, in)
                                  /\ owed' = owed \/ (owed' = owed \cup Owed(p) /\ first \in in)
  BY <1>1, <1>4
<1>6. /\ ThreadsInv' /\ CallsInv' /\ TokenInv' /\ FreshInv'
      /\ messages' \in 0..MaxMessages /\ requests' \in 0..MaxRequests
  <2>1. \A s \in in : s = first
    BY <1>5
  <2>2. TokensOf(threads) /\ \A x \in DOMAIN threads : ThreadOK(x) /\ LivesOn(x)
    BY DEF IInv, TokenInv, ThreadsInv
  <2> QED BY <1>1, <1>2, <1>3, <1>5, <2>1, <2>2, BegunWith
<1>7. \A o : OwedOK(o) => OwedOK(o)'
  BY <1>1, SameBooks DEF dbs
<1>8. DOMAIN threads \cup in \subseteq DOMAIN threads'
  BY <1>5 DEF Becomes
<1>9. ASSUME NEW o \in owed PROVE OwedOK(o)' /\ UnderWay(o)'
  BY <1>7, <1>8 DEF IInv, OwedInv, UnderWay, Carries
<1>10. ASSUME NEW o \in Owed(p), first \in in PROVE OwedOK(o)' /\ UnderWay(o)'
  <2>1. OwedOK(o) /\ o[1] = p
    BY <1>2, OwedFacts DEF IInv
  <2> QED BY <1>3, <1>7, <1>8, <1>10, <2>1 DEF UnderWay, Carries
<1>11. OwedInv' /\ losses' \in 0..MaxLosses
  BY <1>1, <1>5, <1>9, <1>10, DeliveryBounds DEF OwedInv, IInv, CountInv
<1> QED BY <1>1, <1>6, <1>11, SameDbs DEF IInv, CountInv

\* So does one of the bridge, straight to the broker.
LEMMA PublishLocallyInv ==
  ASSUME IInv, NEW t \in Topic \cup {EmptyTopic}, PublishLocally(t)
  PROVE  IInv'
<1> DEFINE p == Data(Bridge, t, messages + 1)
           first == Thread("far", Bridge, p, NoFilter)
           in == BrokerPublish(p)
<1>1. /\ t # EmptyTopic /\ NewMessage /\ UNCHANGED <<dbs, alive, losses, done>>
      /\ threads' = threads (+) SetToBag(in) /\ owed' = owed \cup Owed(p)
  BY DEF PublishLocally
<1>2. p \in Publication /\ p.about = "nothing" /\ p.n = messages + 1 /\ p.topic # EmptyTopic
  BY <1>1, NewFacts, DataOK DEF Node
<1>3. ThreadOK(first) /\ LivesOn(first) /\ first.kind = "far" /\ first.pub = p
  BY <1>2 DEF Thread, ThreadOK, Kinds, LivesOn, InProgram, Node
<1>4. \A s \in in : s = first
  BY <1>2, BrokerFacts
<1>5. \A o \in Owed(p) : OwedOK(o) /\ o[1] = p /\ first \in in
  BY <1>2, OwedFacts DEF IInv
<1> HIDE DEF first, p, in
<1>6. Becomes(threads, threads', {}, in)
  BY <1>1, StartSet DEF IInv, ThreadsInv
<1>7. /\ ThreadsInv' /\ CallsInv' /\ TokenInv' /\ FreshInv'
      /\ messages' \in 0..MaxMessages /\ requests' \in 0..MaxRequests
  <2>1. TokensOf(threads) /\ \A x \in DOMAIN threads : ThreadOK(x) /\ LivesOn(x)
    BY DEF IInv, TokenInv, ThreadsInv
  <2> QED BY <1>1, <1>2, <1>3, <1>4, <1>6, <2>1, BegunWith
<1>8. \A o : OwedOK(o) => OwedOK(o)'
  BY <1>1, SameBooks DEF dbs
<1>9. DOMAIN threads \cup in \subseteq DOMAIN threads'
  BY <1>6 DEF Becomes
<1>10. ASSUME NEW o \in owed PROVE OwedOK(o)' /\ UnderWay(o)'
  BY <1>8, <1>9 DEF IInv, OwedInv, UnderWay, Carries
<1>11. ASSUME NEW o \in Owed(p) PROVE OwedOK(o)' /\ UnderWay(o)'
  BY <1>3, <1>5, <1>8, <1>9 DEF UnderWay, Carries
<1>12. OwedInv' /\ losses' \in 0..MaxLosses
  BY <1>1, <1>10, <1>11 DEF OwedInv, IInv, CountInv
<1> QED BY <1>1, <1>7, <1>12, SameDbs DEF IInv, CountInv

\* subscribe() sends its request and, if it learns of the delivery, goes on to its entry.
LEMMA SubscribeInv ==
  ASSUME IInv, NEW n \in Client, NEW f \in Filter, Subscribe(n, f)
  PROVE  IInv'
<1> DEFINE first == Thread("SUB_REQ", Bridge, Data(n, EmptyTopic, requests + 1), f)
           insert == [first EXCEPT !.kind = "insert", !.node = n]
<1>1. /\ n \in alive /\ NewRequest /\ UNCHANGED <<dbs, alive, done, owed>>
      /\ \/ /\ \E started \in {{first}, {first, insert}} : threads' = threads (+) SetToBag(started)
            /\ UNCHANGED losses
         \/ losses < MaxLosses /\ losses' = losses + 1 /\ UNCHANGED threads
  BY DEF Subscribe
<1>2. Data(n, EmptyTopic, requests + 1) \in Publication /\ Data(n, EmptyTopic, requests + 1).n = requests + 1
  BY <1>1, NewFacts, DataOK DEF Node
<1>3. /\ ThreadOK(first) /\ LivesOn(first) /\ first.kind = "SUB_REQ"
      /\ first.pub.n = requests + 1
  BY <1>2 DEF Thread, ThreadOK, Kinds, LivesOn, InProgram, Node
<1>4. ThreadOK(insert) /\ LivesOn(insert) /\ insert.kind = "insert"
  BY <1>1, <1>2 DEF Thread, ThreadOK, Kinds, LivesOn, Node
<1> HIDE DEF first, insert
<1>5. \A c : ~Leads(insert, c)
  BY <1>4 DEF Leads, Publishes
<1>6. PICK in \in SUBSET {first, insert} : Becomes(threads, threads', {}, in)
  <2>1. CASE \E started \in {{first}, {first, insert}} : threads' = threads (+) SetToBag(started)
    <3>1. PICK started \in {{first}, {first, insert}} : threads' = threads (+) SetToBag(started)
      BY <2>1
    <3>2. Becomes(threads, threads', {}, started)
      BY <3>1, StartSet DEF IInv, ThreadsInv
    <3> QED BY <3>1, <3>2
  <2>2. CASE UNCHANGED threads
    <3>1. Becomes(threads, threads', {}, {})
      BY <2>2, StartFirst DEF IInv, ThreadsInv
    <3> QED BY <3>1
  <2> QED BY <1>1, <2>1, <2>2
<1>7. /\ ThreadsInv' /\ CallsInv' /\ TokenInv' /\ FreshInv'
      /\ messages' \in 0..MaxMessages /\ requests' \in 0..MaxRequests
  <2>1. \A s \in in : s = first \/ (ThreadOK(s) /\ LivesOn(s) /\ \A c : ~Leads(s, c))
    BY <1>4, <1>5, <1>6
  <2>2. TokensOf(threads) /\ \A x \in DOMAIN threads : ThreadOK(x) /\ LivesOn(x)
    BY DEF IInv, TokenInv, ThreadsInv
  <2> QED BY <1>1, <1>3, <1>6, <2>1, <2>2, BegunWith
<1>8. OwedInv'
  <2>1. DOMAIN threads \subseteq DOMAIN threads'
    BY <1>6 DEF Becomes
  <2>2. \A o : OwedOK(o) => OwedOK(o)'
    BY <1>1, SameBooks DEF dbs
  <2> QED BY <1>1, <2>1, <2>2 DEF IInv, OwedInv, UnderWay, Carries
<1>9. losses' \in 0..MaxLosses
  BY <1>1, DeliveryBounds DEF IInv, CountInv
<1> QED BY <1>1, <1>7, <1>8, <1>9, SameDbs DEF IInv, CountInv

\* unsubscribe() leaves the references to its entry dangling.
LEMMA UnsubscribeInv ==
  ASSUME IInv, NEW n \in Client, NEW f \in Filter, Unsubscribe(n, f)
  PROVE  IInv'
<1> DEFINE first == Thread("UNSUB", Bridge, Data(n, EmptyTopic, requests + 1), f)
           left == Invalidate(threads, n, f)
<1>1. /\ NewRequest /\ threads' \in {left, BagAdd(left, first)}
      /\ clientDB' = [clientDB EXCEPT ![n] = @ \ {f}]
      /\ owed' = {o \in owed : o[2] # n \/ o[3] # f}
      /\ UNCHANGED <<subDB, brokerSubs, alive, losses, done>>
  BY DEF Unsubscribe, NoLongerOwed
<1>2. Data(n, EmptyTopic, requests + 1) \in Publication /\ Data(n, EmptyTopic, requests + 1).n = requests + 1
  <2>1. requests + 1 \in Nat /\ n \in Node /\ EmptyTopic \in Topic \cup {RssiTopic, ProbeTopic, EmptyTopic}
    BY <1>1, NewFacts DEF Node
  <2> HIDE DEF left, first
  <2> QED BY <2>1, DataOK
<1>3. /\ ThreadOK(first) /\ LivesOn(first) /\ first.kind = "UNSUB"
      /\ first.pub.n = requests + 1
  BY <1>2 DEF Thread, ThreadOK, Kinds, LivesOn, InProgram, Node
<1>4. /\ IsABag(left) /\ TokensOf(left) /\ \A x \in DOMAIN left : ThreadOK(x) /\ LivesOn(x)
      /\ \A x \in DOMAIN threads : x.kind # "entry" \/ x.node # n \/ x.entry # f
           => x \in DOMAIN left
  BY Invalidated DEF IInv, ThreadsInv, TokenInv
<1> HIDE DEF first, left
<1>5. PICK in \in {{first}, {}} : Becomes(left, threads', {}, in)
  BY <1>1, <1>4, StartFirst
<1>6. /\ ThreadsInv' /\ CallsInv' /\ TokenInv' /\ FreshInv'
      /\ messages' \in 0..MaxMessages /\ requests' \in 0..MaxRequests
  <2>1. \A s \in in : s = first
    BY <1>5
  <2> QED BY <1>1, <1>3, <1>4, <1>5, <2>1, BegunWith
<1>7. DbInv'
  BY <1>1 DEF IInv, DbInv
<1>8. ASSUME NEW o \in owed' PROVE OwedOK(o)' /\ UnderWay(o)'
  <2>1. o \in owed /\ (o[2] # n \/ o[3] # f) /\ OwedOK(o) /\ UnderWay(o)
    BY <1>1 DEF IInv, OwedInv
  <2>2. OwedOK(o)'
    BY <1>1, <2>1 DEF OwedOK, IInv, DbInv
  <2>3. PICK t \in DOMAIN threads : Carries(t, o)
    BY <2>1 DEF UnderWay
  <2>4. t.kind # "entry" \/ t.node # n \/ t.entry # f
    BY <2>1, <2>3 DEF Carries
  <2>5. t \in DOMAIN threads'
    BY <1>4, <1>5, <2>4 DEF Becomes
  <2> QED BY <2>2, <2>3, <2>5 DEF UnderWay, Carries
<1> QED BY <1>1, <1>6, <1>7, <1>8 DEF IInv, CountInv, OwedInv

\* Every step keeps the invariant.
LEMMA NextInv == IInv /\ [Next]_vars => IInv'
<1> SUFFICES ASSUME IInv, [Next]_vars PROVE IInv'
  OBVIOUS
<1>1. CASE UNCHANGED vars
  <2>1. \A x, c : Leads(x, c)' <=> Leads(x, c)
    BY DEF Leads, Publishes, Report
  <2> QED BY <1>1, <2>1 DEF vars, dbs, done, IInv, DbInv, CountInv, ThreadsInv, ThreadOK, LivesOn,
         CallsInv, OwedInv, OwedOK, UnderWay, Carries, TokenInv, TokensOf, FreshInv, Known
<1>2. CASE Application
  BY <1>2, ProbeInv, PublishInv, PublishLocallyInv, SubscribeInv, UnsubscribeInv DEF Application
<1>3. CASE ThreadStep
  BY <1>3, HandleInv DEF ThreadStep, BagToSet
<1> QED BY <1>1, <1>2, <1>3 DEF Next
------------------------------------------------------------------------------
\* The invariant holds in every state.
THEOREM Invariant == Spec => []IInv
BY InitInv, NextInv, PTL DEF Spec

\* Every variable keeps its type: a thread handles a publication of a node for a
\* filter or none, references lead only to filters that match, and only a client
\* whose program runs has threads of its own.
THEOREM TypeCorrect == Spec => []TypeOK
<1>1. IInv => TypeOK
  <2> SUFFICES ASSUME IInv PROVE TypeOK
    OBVIOUS
  <2>1. \A th \in BagToSet(threads) :
          /\ th.kind \in Kinds /\ th.node \in Node /\ th.pub \in Publication
          /\ {th.via, th.entry} \subseteq Filter \cup {NoFilter}
          /\ th.kind \in {"entry", "stale"} => th.entry \in MatchingFilters(th.pub)
          /\ th.kind \in InProgram => th.node \in alive \cup {Bridge}
    BY DEF IInv, ThreadsInv, ThreadOK, LivesOn, BagToSet
  <2>2. owed \subseteq Publication \X Node \X Filter
    BY DEF IInv, OwedInv, OwedOK
  <2>3. /\ calls \subseteq Publication \X Node \X Filter \X (Filter \cup {NoFilter})
        /\ repeated \subseteq calls
    BY DEF IInv, CallsInv, CallOK
  <2> QED BY <2>1, <2>2, <2>3 DEF TypeOK, IInv, DbInv, CountInv, ThreadsInv
<1> QED BY <1>1, Invariant, PTL

\* A callback runs only for data its filter matches and, however the threads of
\* publications, reports, subscriptions and callbacks run, never twice for the same
\* publication on behalf of the same filter of its node at the bridge.
THEOREM WithinOverlap == Spec => []CallsWithinOverlap
<1>1. IInv => CallsWithinOverlap
  BY DEF IInv, CallsInv, CallOK, CallsWithinOverlap
<1> QED BY <1>1, Invariant, PTL

\* When nothing is under way nobody is owed anything.
NothingForgotten == threads = EmptyBag => owed = {}

\* Whoever is owed a publication has it under way, in a thread that leads to the
\* call: no interleaving of hops, requests, clean-ups, replaced callbacks and dying
\* clients drops it silently, and when all threads have ended nobody is owed anything.
THEOREM NothingIsForgotten == Spec => [](OwedInv /\ NothingForgotten)
<1>1. IInv => OwedInv /\ NothingForgotten
  BY DEF IInv, OwedInv, UnderWay, NothingForgotten, EmptyBag, SetToBag
<1> QED BY <1>1, Invariant, PTL
==============================================================================
