-------------------------------- MODULE Bridge --------------------------------
(***************************************************************************)
(* The bridge node (include/common/spsp/bridge.hpp): its database of       *)
(* subscriptions m_subDB, the threads that work on it under m_mutex, and   *)
(* the subscriptions it holds at the far layer on behalf of its clients.   *)
(*                                                                         *)
(* The threads are                                                         *)
(*   - Worker: a thread of the local layer that handles one received       *)
(*     SUB_REQ or UNSUB, or an application thread inside subscribe() or    *)
(*     unsubscribe();                                                      *)
(*   - Timer: the thread of m_subDBTimer, which runs subDBTick();          *)
(*   - Conn: the far layer's thread that reports a reconnection and runs   *)
(*     resubscribeAll().                                                   *)
(*                                                                         *)
(* A critical section of m_mutex without a far layer call in it is one     *)
(* step. A far layer call blocks (up to seconds) with the mutex held; the  *)
(* broker acts on it in one step and the section goes on in another, so    *)
(* that the connection can drop in between.                                *)
(***************************************************************************)
EXTENDS Integers

CONSTANTS
  Topic,           \* subscription topics, wildcards included
  Client,          \* addresses of the clients
  Local,           \* the empty address: the bridge's own subscription
  Worker, Timer, Conn,
  Free,            \* m_mutex is not locked
  NoEntry,         \* the address is no key of the topic's entry map
  NoJob,           \* the worker has no far layer call under way
  SubLifetime,     \* BridgeConfig::SubDB::subLifetime
  Interval,        \* BridgeConfig::SubDB::interval
  NoExpire,        \* BRIDGE_SUB_NO_EXPIRE
  UnknownUnsubOk,  \* unsubscribing a topic the far layer does not hold succeeds
  MaxRequests,     \* bound: requests handled in a behaviour
  MaxFailures,     \* bound: far layer calls that fail while connected
  MaxDrops         \* bound: lost connections

Addr == Client \cup {Local}
Thread == Worker \cup {Timer, Conn}

ASSUME ThreadAssumption ==
  /\ Local \notin Client
  /\ Timer \notin Worker /\ Conn \notin Worker /\ Timer # Conn
  /\ Free \notin Thread
ASSUME LifetimeAssumption ==
  /\ SubLifetime \in Nat \ {0}
  /\ Interval \in Nat \ {0}
  /\ NoExpire \in Nat /\ NoExpire >= SubLifetime
  /\ NoEntry \notin Int
ASSUME JobAssumption == NoJob \notin Topic \X Addr
ASSUME BoundAssumption ==
  /\ UnknownUnsubOk \in BOOLEAN
  /\ MaxRequests \in Nat /\ MaxFailures \in Nat /\ MaxDrops \in Nat

VARIABLES
  mutex,      \* m_mutex: the thread that holds it across steps, or Free
  topics,     \* the keys of m_subDB
  subDB,      \* m_subDB: the lifetime of each entry, or NoEntry
  pc,         \* where each thread is
  job,        \* the <<topic, address>> a worker is subscribing
  todo,       \* the topics a thread has yet to (un)subscribe in its loop
  connected,  \* the far layer has a session with the broker
  farSubs,    \* the topics subscribed in that session
  dropped,    \* history: topics lost with a session and not restored since
  unrestored, \* history: topics whose resubscription failed in this session
  requests, failures, drops   \* the counters behind the bounds

dbVars   == <<topics, subDB>>
farVars  == <<connected, farSubs, dropped, unrestored>>
vars     == <<mutex, dbVars, pc, job, todo, farVars, requests, failures, drops>>

Lifetimes == (1 - Interval)..SubLifetime \cup {NoExpire}

Entries(t) == {a \in Addr : subDB[t][a] # NoEntry}
Used(t)    == Entries(t) # {}

\* Every variable has its type. A lifetime stays in its range whatever Interval
\* is: the tick that takes it to zero or below removes the entry before the next
\* tick, and an entry that must not expire is never counted down.
TypeOK ==
  /\ mutex \in Thread \cup {Free}
  /\ topics \in SUBSET Topic
  /\ subDB \in [Topic -> [Addr -> Lifetimes \cup {NoEntry}]]
  /\ pc \in [Thread -> {"idle", "farSub", "farOk", "unused", "unsub",
                        "decremented", "connected", "resub"}]
  /\ job \in [Worker -> (Topic \X Addr) \cup {NoJob}]
  /\ todo \in [Thread -> SUBSET Topic]
  /\ connected \in BOOLEAN
  /\ farSubs \in SUBSET Topic
  /\ dropped \in SUBSET Topic
  /\ unrestored \in SUBSET Topic
  /\ requests \in Nat /\ failures \in Nat /\ drops \in Nat

Init ==
  /\ mutex = Free
  /\ topics = {}
  /\ subDB = [t \in Topic |-> [a \in Addr |-> NoEntry]]
  /\ pc = [th \in Thread |-> "idle"]
  /\ job = [w \in Worker |-> NoJob]
  /\ todo = [th \in Thread |-> {}]
  /\ connected = TRUE
  /\ farSubs = {} /\ dropped = {} /\ unrestored = {}
  /\ requests = 0 /\ failures = 0 /\ drops = 0
------------------------------------------------------------------------------
(* The far layer, as the bridge uses it. *)

\* The broker has taken the subscription of t.
FarTakes(t) ==
  /\ farSubs' = farSubs \cup {t}
  /\ dropped' = dropped \ {t}

\* The broker has given it up.
FarGivesUp(t) ==
  /\ farSubs' = farSubs \ {t}
  /\ dropped' = dropped \ {t}

\* A call fails: without a session always, and within one a bounded number
\* of times (a refusal, or an acknowledgement that did not come in time).
CallFails ==
  \/ ~connected /\ UNCHANGED failures
  \/ connected /\ failures < MaxFailures /\ failures' = failures + 1

\* Sessions are clean: all subscriptions are gone with the connection.
Disconnect ==
  /\ connected /\ drops < MaxDrops
  /\ connected' = FALSE
  /\ farSubs' = {}
  /\ dropped' = dropped \cup farSubs
  /\ drops' = drops + 1
  /\ UNCHANGED <<mutex, dbVars, pc, job, todo, unrestored, requests, failures>>

\* The connection comes back by itself, and the far layer calls back. Its
\* thread cannot report that while it still runs the previous callback.
Reconnect ==
  /\ ~connected /\ pc[Conn] = "idle"
  /\ connected' = TRUE
  /\ unrestored' = {}
  /\ pc' = [pc EXCEPT ![Conn] = "connected"]
  /\ UNCHANGED <<mutex, dbVars, job, todo, farSubs, dropped, requests, failures,
                 drops>>
------------------------------------------------------------------------------
(* Subscribing: processSubReq() for a client, subscribe() for the bridge. *)

Lifetime(a) == IF a = Local THEN NoExpire ELSE SubLifetime

Insert(t, a) == subDB' = [subDB EXCEPT ![t][a] = Lifetime(a)]

BeginRequest(w) ==
  /\ pc[w] = "idle"
  /\ mutex = Free
  /\ requests < MaxRequests
  /\ requests' = requests + 1

\* Mutant: a topic that is in the database counts as subscribed, even when it
\* has no entry.
Subscribe_KnownTopic(w, t, a) ==
  /\ BeginRequest(w)
  /\ topics' = topics \cup {t}
  /\ \/ /\ t \in topics
        /\ Insert(t, a)
        /\ UNCHANGED <<mutex, pc, job>>
     \/ /\ t \notin topics
        /\ mutex' = w
        /\ pc' = [pc EXCEPT ![w] = "farSub"]
        /\ job' = [job EXCEPT ![w] = <<t, a>>]
        /\ UNCHANGED subDB
  /\ UNCHANGED <<todo, farVars, failures, drops>>

\* m_subDB[topic] creates the topic. Its first entry needs the far layer.
Subscribe(w, t, a) ==
  /\ BeginRequest(w)
  /\ topics' = topics \cup {t}
  /\ \/ /\ Used(t)
        /\ Insert(t, a)
        /\ UNCHANGED <<mutex, pc, job>>
     \/ /\ ~Used(t)
        /\ mutex' = w
        /\ pc' = [pc EXCEPT ![w] = "farSub"]
        /\ job' = [job EXCEPT ![w] = <<t, a>>]
        /\ UNCHANGED subDB
  /\ UNCHANGED <<todo, farVars, failures, drops>>

ProcessSubReq(w) == \E t \in Topic, a \in Client : Subscribe(w, t, a)
SubscribeLocal(w) == \E t \in Topic : Subscribe(w, t, Local)

EndJob(w) ==
  /\ mutex' = Free
  /\ pc' = [pc EXCEPT ![w] = "idle"]
  /\ job' = [job EXCEPT ![w] = NoJob]

FarSubscribeSucceeds(w) ==
  /\ pc[w] = "farSub" /\ connected
  /\ FarTakes(job[w][1])
  /\ pc' = [pc EXCEPT ![w] = "farOk"]
  /\ UNCHANGED <<mutex, dbVars, job, todo, connected, unrestored, requests,
                 failures, drops>>

\* The early return: the topic stays behind without an entry. The broker may
\* have taken the subscription all the same.
FarSubscribeFails(w) ==
  /\ pc[w] = "farSub"
  /\ CallFails
  /\ \/ UNCHANGED <<farSubs, dropped>>
     \/ connected /\ FarTakes(job[w][1])
  /\ EndJob(w)
  /\ UNCHANGED <<dbVars, todo, connected, unrestored, requests, drops>>

InsertFirst(w) ==
  /\ pc[w] = "farOk"
  /\ Insert(job[w][1], job[w][2])
  /\ EndJob(w)
  /\ UNCHANGED <<topics, todo, farVars, requests, failures, drops>>
------------------------------------------------------------------------------
(* Unsubscribing: processUnsub() for a client, unsubscribe() for the bridge. *)

\* m_subDB[topic] creates the topic even if it does not exist. unsubscribe()
\* returns early when there was no entry; processUnsub() does not look.
Unsubscribe(w, t, a) ==
  /\ BeginRequest(w)
  /\ topics' = topics \cup {t}
  /\ subDB' = [subDB EXCEPT ![t][a] = NoEntry]
  /\ pc' = [pc EXCEPT ![w] =
              IF a = Local /\ subDB[t][a] = NoEntry THEN "idle" ELSE "unused"]
  /\ UNCHANGED <<mutex, job, todo, farVars, failures, drops>>

ProcessUnsub(w) == \E t \in Topic, a \in Client : Unsubscribe(w, t, a)
UnsubscribeLocal(w) == \E t \in Topic : Unsubscribe(w, t, Local)

\* Mutant: the mutex is released between collecting the topics and
\* unsubscribing them.
RemoveUnusedTopics_Unlocked(th) ==
  /\ pc[th] = "unused"
  /\ mutex = Free
  /\ todo' = [todo EXCEPT ![th] = {t \in topics : ~Used(t)}]
  /\ pc' = [pc EXCEPT ![th] = IF todo'[th] = {} THEN "idle" ELSE "unsub"]
  /\ UNCHANGED <<mutex, dbVars, job, farVars, requests, failures, drops>>

\* subDBRemoveUnusedTopics(), called by a worker or by the tick: it collects
\* the unused topics and unsubscribes them without releasing the mutex.
RemoveUnusedTopics(th) ==
  LET unusedTopics == {t \in topics : ~Used(t)} IN
  /\ pc[th] = "unused"
  /\ mutex = Free
  /\ IF unusedTopics = {}
       THEN /\ pc' = [pc EXCEPT ![th] = "idle"]
            /\ UNCHANGED <<mutex, todo>>
       ELSE /\ mutex' = th
            /\ pc' = [pc EXCEPT ![th] = "unsub"]
            /\ todo' = [todo EXCEPT ![th] = unusedTopics]
  /\ UNCHANGED <<dbVars, job, farVars, requests, failures, drops>>

NextUnused(th, t) ==
  /\ pc[th] = "unsub" /\ t \in todo[th]
  /\ todo' = [todo EXCEPT ![th] = @ \ {t}]
  /\ IF todo[th] = {t}
       THEN mutex' = Free /\ pc' = [pc EXCEPT ![th] = "idle"]
       ELSE UNCHANGED <<mutex, pc>>

FarUnsubscribeSucceeds(th, t) ==
  /\ NextUnused(th, t)
  /\ connected
  /\ t \in farSubs \/ UnknownUnsubOk
  /\ FarGivesUp(t)
  /\ topics' = topics \ {t}
  /\ UNCHANGED <<subDB, job, connected, unrestored, requests, failures, drops>>

\* Mutant: the topic is removed although the far layer kept it.
FarUnsubscribeFails_Forgets(th, t) ==
  /\ NextUnused(th, t)
  /\ CallFails
  /\ topics' = topics \ {t}
  /\ UNCHANGED <<farSubs, dropped, subDB, job, connected, unrestored, requests,
                 drops>>

\* The topic stays, for the next tick to try again.
FarUnsubscribeFails(th, t) ==
  /\ NextUnused(th, t)
  /\ \/ /\ CallFails
        /\ \/ UNCHANGED <<farSubs, dropped>>
           \/ connected /\ FarGivesUp(t)
     \/ /\ connected /\ t \notin farSubs /\ ~UnknownUnsubOk
        /\ UNCHANGED <<farSubs, dropped, failures>>
  /\ UNCHANGED <<dbVars, job, connected, unrestored, requests, drops>>
------------------------------------------------------------------------------
(* subDBTick(): three critical sections, the third RemoveUnusedTopics. *)

\* Mutant: never below zero, as if lifetimes were unsigned.
Decremented_Clamped(lifetime) ==
  IF lifetime \in {NoEntry, NoExpire} \/ lifetime < Interval
    THEN lifetime ELSE lifetime - Interval

Decremented(lifetime) ==
  IF lifetime \in {NoEntry, NoExpire} THEN lifetime ELSE lifetime - Interval

\* Mutant: an entry expires only when its lifetime is exactly used up.
Expired_Exactly(lifetime) == lifetime = 0

Expired(lifetime) == lifetime # NoEntry /\ lifetime <= 0

DecrementLifetimes ==
  /\ pc[Timer] = "idle"
  /\ mutex = Free
  /\ subDB' = [t \in Topic |-> [a \in Addr |-> Decremented(subDB[t][a])]]
  /\ pc' = [pc EXCEPT ![Timer] = "decremented"]
  /\ UNCHANGED <<mutex, topics, job, todo, farVars, requests, failures, drops>>

\* Mutant: the entries that would expire with the next tick go as well.
RemoveExpiredEntries_Early ==
  /\ pc[Timer] = "decremented"
  /\ mutex = Free
  /\ subDB' = [t \in Topic |-> [a \in Addr |->
                 IF subDB[t][a] # NoEntry /\ subDB[t][a] <= Interval
                   THEN NoEntry ELSE subDB[t][a]]]
  /\ pc' = [pc EXCEPT ![Timer] = "unused"]
  /\ UNCHANGED <<mutex, topics, job, todo, farVars, requests, failures, drops>>

RemoveExpiredEntries ==
  /\ pc[Timer] = "decremented"
  /\ mutex = Free
  /\ subDB' = [t \in Topic |-> [a \in Addr |->
                 IF Expired(subDB[t][a]) THEN NoEntry ELSE subDB[t][a]]]
  /\ pc' = [pc EXCEPT ![Timer] = "unused"]
  /\ UNCHANGED <<mutex, topics, job, todo, farVars, requests, failures, drops>>
------------------------------------------------------------------------------
(* resubscribeAll(): a snapshot under the mutex, the calls without it. *)

\* Mutant: the snapshot does not wait for the mutex and takes only the topics
\* that have subscribers.
SnapshotTopics_UsedUnlocked ==
  /\ pc[Conn] = "connected"
  /\ todo' = [todo EXCEPT ![Conn] = {t \in topics : Used(t)}]
  /\ pc' = [pc EXCEPT ![Conn] = IF todo'[Conn] = {} THEN "idle" ELSE "resub"]
  /\ UNCHANGED <<mutex, dbVars, job, farVars, requests, failures, drops>>

SnapshotTopics ==
  /\ pc[Conn] = "connected"
  /\ mutex = Free
  /\ todo' = [todo EXCEPT ![Conn] = topics]
  /\ pc' = [pc EXCEPT ![Conn] = IF topics = {} THEN "idle" ELSE "resub"]
  /\ UNCHANGED <<mutex, dbVars, job, farVars, requests, failures, drops>>

\* The loop does not look at the database again, nor retry what fails.
Resubscribe(t) ==
  /\ pc[Conn] = "resub" /\ t \in todo[Conn]
  /\ todo' = [todo EXCEPT ![Conn] = @ \ {t}]
  /\ pc' = [pc EXCEPT ![Conn] = IF todo[Conn] = {t} THEN "idle" ELSE "resub"]
  /\ \/ connected /\ FarTakes(t) /\ UNCHANGED <<unrestored, failures>>
     \/ /\ CallFails
        /\ unrestored' = unrestored \cup {t}
        /\ UNCHANGED <<farSubs, dropped>>
  /\ UNCHANGED <<mutex, dbVars, job, connected, requests, drops>>
------------------------------------------------------------------------------
RemoveUnused(th) ==
  \/ RemoveUnusedTopics(th)
  \/ \E t \in Topic : FarUnsubscribeSucceeds(th, t) \/ FarUnsubscribeFails(th, t)

\* A worker goes on with a request it has begun.
Proceed(w) ==
  \/ FarSubscribeSucceeds(w) \/ FarSubscribeFails(w) \/ InsertFirst(w)
  \/ RemoveUnused(w)

Request(w) ==
  ProcessSubReq(w) \/ SubscribeLocal(w) \/ ProcessUnsub(w) \/ UnsubscribeLocal(w)

Tick == DecrementLifetimes \/ RemoveExpiredEntries \/ RemoveUnused(Timer)

ResubscribeAll == SnapshotTopics \/ \E t \in Topic : Resubscribe(t)

Next ==
  \/ \E w \in Worker : Request(w) \/ Proceed(w)
  \/ Tick
  \/ ResubscribeAll
  \/ Disconnect \/ Reconnect

Spec == Init /\ [][Next]_vars

(***************************************************************************)
(* Threads that have work go on with it, the timer keeps firing and the    *)
(* far layer reconnects by itself. A thread that waits for m_mutex gets it *)
(* if it is free again and again: requests and ticks are far apart.        *)
(***************************************************************************)
Fairness ==
  /\ \A w \in Worker : SF_vars(Proceed(w))
  /\ SF_vars(Tick)
  /\ SF_vars(ResubscribeAll)
  /\ WF_vars(Reconnect)

FairSpec == Spec /\ Fairness
------------------------------------------------------------------------------
(* Safety. *)

\* A topic with subscribers is subscribed at the far layer, unless a lost
\* connection took the subscription and nothing has restored it yet. Every
\* interleaving of SUB_REQ, UNSUB and the tick's three critical sections keeps
\* this: the database and the far layer calls change together under m_mutex.
UsedIsSubscribed == \A t \in Topic : Used(t) => t \in farSubs \cup dropped

\* While there is a session, a topic with subscribers that is missing at the far
\* layer is one resubscribeAll() still has to look at, or whose resubscription
\* failed. A subscription that was being made when the connection broke is not
\* forgotten.
ResubscribeCovers ==
  connected => \A t \in Topic :
    Used(t) /\ t \notin farSubs
      => pc[Conn] = "connected" \/ t \in todo[Conn] \/ t \in unrestored

\* Only the tick and the subscriber itself remove an entry, and the tick only
\* one whose lifetime is used up: a SUB_REQ that is handled between the tick's
\* decrement and its removal saves the entry it renews.
NoPrematureRemoval ==
  [][\A t \in Topic, a \in Addr :
       subDB[t][a] # NoEntry /\ subDB'[t][a] = NoEntry =>
         \/ pc[Timer] = "decremented" /\ subDB[t][a] <= 0
         \/ \E w \in Worker : Unsubscribe(w, t, a)]_vars

\* The bridge shares one far layer subscription between all subscribers of a
\* topic: it implements FarInterest.
Subscriptions == {s \in Topic \X Addr : subDB[s[1]][s[2]] # NoEntry}

Interest == INSTANCE FarInterest WITH subs <- Subscriptions, interest <- farSubs

ImplementsInterest == Interest!Spec
------------------------------------------------------------------------------
(* Liveness. *)

\* A far layer subscription that nobody here needs, and a topic without entries,
\* do not last ("unsubscribe from unnecessary topics", the tick's purpose).
UnusedIsRemoved ==
  \A t \in Topic :
    (t \in topics \cup farSubs /\ ~Used(t))
      ~> (t \notin topics \cup farSubs \/ Used(t))

\* A client that no longer renews its subscriptions is forgotten.
SilentClientForgotten ==
  \A t \in Topic, a \in Client : <>[](subDB[t][a] = NoEntry)
------------------------------------------------------------------------------
(* The inductive invariant behind the safety properties. *)

\* Who is in a critical section across steps holds the mutex.
HoldsMutex(th) == pc[th] \in {"farSub", "farOk", "unsub"}
MutexInv == \A th \in Thread : HoldsMutex(th) <=> mutex = th

\* Which thread can be where.
RoleInv ==
  /\ \A w \in Worker : pc[w] \in {"idle", "farSub", "farOk", "unused", "unsub"}
  /\ pc[Timer] \in {"idle", "decremented", "unused", "unsub"}
  /\ pc[Conn] \in {"idle", "connected", "resub"}

\* Entries belong to topics of the database.
KeyInv == \A t \in Topic : Used(t) => t \in topics

\* What a thread knows of the topics it is working on holds while it has the
\* mutex: the ones it unsubscribes have no entries, the one it subscribes is in
\* the database and, once the call has succeeded, at the far layer or dropped.
JobInv ==
  /\ \A w \in Worker : pc[w] \in {"farSub", "farOk"} =>
       job[w] \in Topic \X Addr /\ job[w][1] \in topics
  /\ \A w \in Worker : pc[w] = "farOk" =>
       /\ job[w][1] \in farSubs \cup dropped
       /\ connected /\ job[w][1] \notin farSubs => pc[Conn] = "connected"
  /\ \A th \in Worker \cup {Timer} : pc[th] = "unsub" =>
       \A t \in todo[th] : ~Used(t)

\* Only a tick under way sees entries whose lifetime is used up.
ExpiryInv ==
  pc[Timer] # "decremented" =>
    \A t \in Topic, a \in Addr : subDB[t][a] # NoEntry => subDB[t][a] > 0

IInv ==
  /\ TypeOK /\ MutexInv /\ RoleInv /\ KeyInv /\ JobInv /\ ExpiryInv
  /\ UsedIsSubscribed /\ ResubscribeCovers
==============================================================================
