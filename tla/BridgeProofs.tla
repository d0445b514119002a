----------------------------- MODULE BridgeProofs -----------------------------
(***************************************************************************)
(* Proofs about Bridge for every set of topics, clients and workers, every *)
(* lifetime and interval and every bound.                                  *)
(***************************************************************************)
EXTENDS Bridge, TLAPS

USE ThreadAssumption, LifetimeAssumption, JobAssumption, BoundAssumption

\* The empty database the constructor starts with satisfies the invariant.
LEMMA InitInv == Init => IInv
<1> SUFFICES ASSUME Init PROVE IInv
  OBVIOUS
<1> USE DEF Init, Used, Entries, Addr, Thread
<1>1. TypeOK
  BY DEF TypeOK, Lifetimes
<1>2. MutexInv
  BY DEF MutexInv, HoldsMutex
<1>3. RoleInv /\ KeyInv /\ JobInv /\ ExpiryInv
  BY DEF RoleInv, KeyInv, JobInv, ExpiryInv
<1>4. UsedIsSubscribed /\ ResubscribeCovers
  BY DEF UsedIsSubscribed, ResubscribeCovers
<1> QED
  BY <1>1, <1>2, <1>3, <1>4 DEF IInv

\* What an inserted entry gets.
LEMMA LifetimeFacts ==
  ASSUME NEW a \in Addr
  PROVE  /\ Lifetime(a) \in Lifetimes
         /\ Lifetime(a) # NoEntry
         /\ Lifetime(a) > 0
BY DEF Lifetime, Lifetimes, Addr

\* A lifetime is an integer, so it is not NoEntry.
LEMMA LifetimesInt == Lifetimes \subseteq Int /\ NoEntry \notin Lifetimes
BY DEF Lifetimes

\* SUB_REQ and subscribe(): a topic that is used already is at the far layer or
\* dropped, so its new entry needs no call; else the worker takes the mutex.
LEMMA SubscribeInv ==
  ASSUME IInv, NEW w \in Worker, NEW t \in Topic, NEW a \in Addr, Subscribe(w, t, a)
  PROVE  IInv'
<1> USE DEF IInv, Subscribe, BeginRequest, Insert, farVars
<1>1. TypeOK'
  <2>1. subDB' \in [Topic -> [Addr -> Lifetimes \cup {NoEntry}]]
    BY LifetimeFacts DEF TypeOK
  <2>2. /\ mutex' \in Thread \cup {Free}
        /\ topics' \in SUBSET Topic
        /\ requests' \in Nat
    BY DEF TypeOK, Thread
  <2>3. job' \in [Worker -> (Topic \X Addr) \cup {NoJob}]
    BY DEF TypeOK
  <2>4. pc' \in [Thread -> {"idle", "farSub", "farOk", "unused", "unsub",
                            "decremented", "connected", "resub"}]
    BY DEF TypeOK
  <2> QED
    BY <2>1, <2>2, <2>3, <2>4 DEF TypeOK
<1>2. MutexInv'
  BY DEF MutexInv, HoldsMutex, TypeOK, Thread
<1>3. RoleInv'
  BY DEF RoleInv, TypeOK, Thread
<1>4. KeyInv'
  BY DEF KeyInv, TypeOK, Used, Entries
<1>5. JobInv'
  BY DEF JobInv, TypeOK, Used, Entries, Thread, MutexInv, HoldsMutex
<1>6. ExpiryInv'
  BY LifetimeFacts DEF ExpiryInv, TypeOK, Thread
<1>7. UsedIsSubscribed'
  BY DEF UsedIsSubscribed, TypeOK, Used, Entries
<1>8. ResubscribeCovers'
  BY DEF ResubscribeCovers, TypeOK, Used, Entries, Thread
<1> QED
  BY <1>1, <1>2, <1>3, <1>4, <1>5, <1>6, <1>7, <1>8

\* The far layer took the topic of the worker's job before its entry is made.
LEMMA FarSubscribeSucceedsInv ==
  ASSUME IInv, NEW w \in Worker, FarSubscribeSucceeds(w)
  PROVE  IInv'
<1> USE DEF IInv, FarSubscribeSucceeds, FarTakes, dbVars
<1>1. TypeOK'
  BY DEF TypeOK, Thread, JobInv
<1>2. MutexInv'
  BY DEF MutexInv, HoldsMutex, TypeOK, Thread
<1>3. RoleInv'
  BY DEF RoleInv, TypeOK, Thread
<1>4. KeyInv'
  BY DEF KeyInv, TypeOK, Used, Entries
<1>5. JobInv'
  BY DEF JobInv, RoleInv, TypeOK, Used, Entries, Thread, MutexInv, HoldsMutex
<1>6. ExpiryInv'
  BY DEF ExpiryInv, TypeOK, Thread
<1>7. UsedIsSubscribed'
  BY DEF UsedIsSubscribed, TypeOK, Used, Entries
<1>8. ResubscribeCovers'
  BY DEF ResubscribeCovers, TypeOK, Used, Entries, Thread
<1> QED
  BY <1>1, <1>2, <1>3, <1>4, <1>5, <1>6, <1>7, <1>8

\* The early return leaves a topic without entries behind, and frees the mutex.
LEMMA FarSubscribeFailsInv ==
  ASSUME IInv, NEW w \in Worker, FarSubscribeFails(w)
  PROVE  IInv'
<1> USE DEF IInv, FarSubscribeFails, FarTakes, CallFails, EndJob, dbVars
<1>1. TypeOK'
  BY DEF TypeOK, Thread, JobInv
<1>2. MutexInv'
  BY DEF MutexInv, HoldsMutex, TypeOK, Thread
<1>3. RoleInv'
  BY DEF RoleInv, TypeOK, Thread
<1>4. KeyInv'
  BY DEF KeyInv, TypeOK, Used, Entries
<1>5. JobInv'
  BY DEF JobInv, RoleInv, TypeOK, Used, Entries, Thread, MutexInv, HoldsMutex
<1>6. ExpiryInv'
  BY DEF ExpiryInv, TypeOK, Thread
<1>7. UsedIsSubscribed'
  BY DEF UsedIsSubscribed, TypeOK, Used, Entries
<1>8. ResubscribeCovers'
  BY DEF ResubscribeCovers, TypeOK, Used, Entries, Thread
<1> QED
  BY <1>1, <1>2, <1>3, <1>4, <1>5, <1>6, <1>7, <1>8

\* The first entry of a topic is made after the far layer took it, and after a
\* disconnection in between only if resubscribeAll() is still to come.
LEMMA InsertFirstInv ==
  ASSUME IInv, NEW w \in Worker, InsertFirst(w)
  PROVE  IInv'
<1> USE DEF IInv, InsertFirst, Insert, EndJob, farVars
<1>1. TypeOK'
  BY LifetimeFacts DEF TypeOK, Thread, JobInv
<1>2. MutexInv'
  BY DEF MutexInv, HoldsMutex, TypeOK, Thread
<1>3. RoleInv'
  BY DEF RoleInv, TypeOK, Thread
<1>4. KeyInv'
  BY DEF KeyInv, TypeOK, JobInv, Used, Entries
<1>5. JobInv'
  BY DEF JobInv, RoleInv, TypeOK, Used, Entries, Thread, MutexInv, HoldsMutex
<1>6. ExpiryInv'
  BY LifetimeFacts DEF ExpiryInv, TypeOK, JobInv, Thread
<1>7. UsedIsSubscribed'
  BY DEF UsedIsSubscribed, TypeOK, JobInv, Used, Entries
<1>8. ResubscribeCovers'
  BY DEF ResubscribeCovers, TypeOK, JobInv, Used, Entries, Thread
<1> QED
  BY <1>1, <1>2, <1>3, <1>4, <1>5, <1>6, <1>7, <1>8

\* UNSUB and unsubscribe() only take entries away.
LEMMA UnsubscribeInv ==
  ASSUME IInv, NEW w \in Worker, NEW t \in Topic, NEW a \in Addr, Unsubscribe(w, t, a)
  PROVE  IInv'
<1> USE DEF IInv, Unsubscribe, BeginRequest, farVars
<1>1. TypeOK'
  BY DEF TypeOK, Thread
<1>2. MutexInv'
  BY DEF MutexInv, HoldsMutex, TypeOK, Thread
<1>3. RoleInv'
  BY DEF RoleInv, TypeOK, Thread
<1>4. KeyInv'
  BY DEF KeyInv, TypeOK, Used, Entries
<1>5. JobInv'
  BY DEF JobInv, RoleInv, TypeOK, Used, Entries, Thread, MutexInv, HoldsMutex
<1>6. ExpiryInv'
  BY DEF ExpiryInv, TypeOK, Thread
<1>7. UsedIsSubscribed'
  BY DEF UsedIsSubscribed, TypeOK, Used, Entries
<1>8. ResubscribeCovers'
  BY DEF ResubscribeCovers, TypeOK, Used, Entries, Thread
<1> QED
  BY <1>1, <1>2, <1>3, <1>4, <1>5, <1>6, <1>7, <1>8

\* The topics a thread is going to unsubscribe have no entries, under the mutex.
LEMMA RemoveUnusedTopicsInv ==
  ASSUME IInv, NEW th \in Worker \cup {Timer}, RemoveUnusedTopics(th)
  PROVE  IInv'
<1> USE DEF IInv, RemoveUnusedTopics, farVars, dbVars
<1>1. TypeOK'
  BY DEF TypeOK, Thread
<1>2. MutexInv'
  BY DEF MutexInv, HoldsMutex, TypeOK, Thread
<1>3. RoleInv'
  BY DEF RoleInv, TypeOK, Thread
<1>4. KeyInv'
  BY DEF KeyInv, TypeOK, Used, Entries
<1>5. JobInv'
  BY DEF JobInv, RoleInv, TypeOK, Used, Entries, Thread, MutexInv, HoldsMutex
<1>6. ExpiryInv'
  BY DEF ExpiryInv, TypeOK, Thread
<1>7. UsedIsSubscribed'
  BY DEF UsedIsSubscribed, TypeOK, Used, Entries
<1>8. ResubscribeCovers'
  BY DEF ResubscribeCovers, TypeOK, Used, Entries, Thread
<1> QED
  BY <1>1, <1>2, <1>3, <1>4, <1>5, <1>6, <1>7, <1>8

\* A topic leaves the far layer and the database together, and unused.
LEMMA FarUnsubscribeSucceedsInv ==
  ASSUME IInv, NEW th \in Worker \cup {Timer}, NEW t \in Topic,
         FarUnsubscribeSucceeds(th, t)
  PROVE  IInv'
<1> USE DEF IInv, FarUnsubscribeSucceeds, NextUnused, FarGivesUp
<1>1. TypeOK'
  BY DEF TypeOK, Thread
<1>2. MutexInv'
  BY DEF MutexInv, HoldsMutex, TypeOK, Thread
<1>3. RoleInv'
  BY DEF RoleInv, TypeOK, Thread
<1>4. KeyInv'
  BY DEF KeyInv, JobInv, TypeOK, Used, Entries
<1>5. JobInv'
  BY DEF JobInv, RoleInv, TypeOK, Used, Entries, Thread, MutexInv, HoldsMutex
<1>6. ExpiryInv'
  BY DEF ExpiryInv, TypeOK, Thread
<1>7. UsedIsSubscribed'
  BY DEF UsedIsSubscribed, JobInv, TypeOK, Used, Entries
<1>8. ResubscribeCovers'
  BY DEF ResubscribeCovers, JobInv, TypeOK, Used, Entries, Thread
<1> QED
  BY <1>1, <1>2, <1>3, <1>4, <1>5, <1>6, <1>7, <1>8

\* A topic the far layer may have given up although the call failed is unused.
LEMMA FarUnsubscribeFailsInv ==
  ASSUME IInv, NEW th \in Worker \cup {Timer}, NEW t \in Topic,
         FarUnsubscribeFails(th, t)
  PROVE  IInv'
<1> USE DEF IInv, FarUnsubscribeFails, NextUnused, CallFails, FarGivesUp, dbVars
<1>1. TypeOK'
  BY DEF TypeOK, Thread
<1>2. MutexInv'
  BY DEF MutexInv, HoldsMutex, TypeOK, Thread
<1>3. RoleInv'
  BY DEF RoleInv, TypeOK, Thread
<1>4. KeyInv'
  BY DEF KeyInv, TypeOK, Used, Entries
<1>5. JobInv'
  BY DEF JobInv, RoleInv, TypeOK, Used, Entries, Thread, MutexInv, HoldsMutex
<1>6. ExpiryInv'
  BY DEF ExpiryInv, TypeOK, Thread
<1>7. UsedIsSubscribed'
  BY DEF UsedIsSubscribed, JobInv, TypeOK, Used, Entries
<1>8. ResubscribeCovers'
  BY DEF ResubscribeCovers, JobInv, TypeOK, Used, Entries, Thread
<1> QED
  BY <1>1, <1>2, <1>3, <1>4, <1>5, <1>6, <1>7, <1>8

\* The tick may take lifetimes to zero or below, until it removes those entries.
LEMMA DecrementLifetimesInv ==
  ASSUME IInv, DecrementLifetimes
  PROVE  IInv'
<1> USE DEF IInv, DecrementLifetimes, Decremented, farVars
<1>1. TypeOK'
  <2>1. ASSUME NEW t \in Topic, NEW a \in Addr
        PROVE  Decremented(subDB[t][a]) \in Lifetimes \cup {NoEntry}
    <3>1. subDB[t][a] \in Lifetimes \cup {NoEntry}
      BY DEF TypeOK
    <3>2. subDB[t][a] # NoEntry => subDB[t][a] > 0
      BY DEF ExpiryInv
    <3> QED
      BY <3>1, <3>2 DEF Lifetimes
  <2>2. subDB' \in [Topic -> [Addr -> Lifetimes \cup {NoEntry}]]
    BY <2>1
  <2> QED
    BY <2>2 DEF TypeOK, Thread
<1>2. MutexInv'
  BY DEF MutexInv, HoldsMutex, TypeOK, Thread
<1>3. RoleInv'
  BY DEF RoleInv, TypeOK, Thread
<1>4. KeyInv'
  BY DEF KeyInv, TypeOK, Used, Entries
<1>5. JobInv'
  BY DEF JobInv, RoleInv, TypeOK, Used, Entries, Thread, MutexInv, HoldsMutex
<1>6. ExpiryInv'
  BY DEF ExpiryInv, TypeOK, Thread
<1>7. UsedIsSubscribed'
  BY DEF UsedIsSubscribed, TypeOK, Used, Entries
<1>8. ResubscribeCovers'
  BY DEF ResubscribeCovers, TypeOK, Used, Entries, Thread
<1> QED
  BY <1>1, <1>2, <1>3, <1>4, <1>5, <1>6, <1>7, <1>8

\* After the tick's second section no entry without lifetime is left.
LEMMA RemoveExpiredEntriesInv ==
  ASSUME IInv, RemoveExpiredEntries
  PROVE  IInv'
<1> USE DEF IInv, RemoveExpiredEntries, Expired, farVars
<1>1. TypeOK'
  BY DEF TypeOK, Thread
<1>2. MutexInv'
  BY DEF MutexInv, HoldsMutex, TypeOK, Thread
<1>3. RoleInv'
  BY DEF RoleInv, TypeOK, Thread
<1>4. KeyInv'
  BY DEF KeyInv, TypeOK, Used, Entries
<1>5. JobInv'
  BY DEF JobInv, RoleInv, TypeOK, Used, Entries, Thread, MutexInv, HoldsMutex
<1>6. ExpiryInv'
  <2>1. ASSUME NEW t \in Topic, NEW a \in Addr, subDB'[t][a] # NoEntry
        PROVE  subDB'[t][a] > 0
    <3>1. subDB[t][a] \in Int /\ subDB[t][a] > 0 /\ subDB'[t][a] = subDB[t][a]
      BY <2>1 DEF TypeOK, Lifetimes
    <3> QED
      BY <3>1
  <2> QED
    BY <2>1 DEF ExpiryInv
<1>7. UsedIsSubscribed'
  BY DEF UsedIsSubscribed, TypeOK, Used, Entries
<1>8. ResubscribeCovers'
  BY DEF ResubscribeCovers, TypeOK, Used, Entries, Thread
<1> QED
  BY <1>1, <1>2, <1>3, <1>4, <1>5, <1>6, <1>7, <1>8

\* resubscribeAll() finds every used topic in its snapshot of the database.
LEMMA SnapshotTopicsInv ==
  ASSUME IInv, SnapshotTopics
  PROVE  IInv'
<1> USE DEF IInv, SnapshotTopics, farVars, dbVars
<1>1. TypeOK'
  BY DEF TypeOK, Thread
<1>2. MutexInv'
  BY DEF MutexInv, HoldsMutex, TypeOK, Thread
<1>3. RoleInv'
  BY DEF RoleInv, TypeOK, Thread
<1>4. KeyInv'
  BY DEF KeyInv, TypeOK, Used, Entries
<1>5. JobInv'
  BY DEF JobInv, RoleInv, TypeOK, Used, Entries, Thread, MutexInv, HoldsMutex
<1>6. ExpiryInv'
  BY DEF ExpiryInv, TypeOK, Thread
<1>7. UsedIsSubscribed'
  BY DEF UsedIsSubscribed, TypeOK, Used, Entries
<1>8. ResubscribeCovers'
  BY DEF ResubscribeCovers, KeyInv, TypeOK, Used, Entries, Thread
<1> QED
  BY <1>1, <1>2, <1>3, <1>4, <1>5, <1>6, <1>7, <1>8

\* A topic resubscribeAll() is done with is at the far layer or failed.
LEMMA ResubscribeInv ==
  ASSUME IInv, NEW t \in Topic, Resubscribe(t)
  PROVE  IInv'
<1> USE DEF IInv, Resubscribe, FarTakes, CallFails, dbVars
<1>1. TypeOK'
  BY DEF TypeOK, Thread
<1>2. MutexInv'
  BY DEF MutexInv, HoldsMutex, TypeOK, Thread
<1>3. RoleInv'
  BY DEF RoleInv, TypeOK, Thread
<1>4. KeyInv'
  BY DEF KeyInv, TypeOK, Used, Entries
<1>5. JobInv'
  BY DEF JobInv, RoleInv, TypeOK, Used, Entries, Thread, MutexInv, HoldsMutex
<1>6. ExpiryInv'
  BY DEF ExpiryInv, TypeOK, Thread
<1>7. UsedIsSubscribed'
  BY DEF UsedIsSubscribed, TypeOK, Used, Entries
<1>8. ResubscribeCovers'
  BY DEF ResubscribeCovers, TypeOK, Used, Entries, Thread
<1> QED
  BY <1>1, <1>2, <1>3, <1>4, <1>5, <1>6, <1>7, <1>8

\* A lost connection moves every far layer subscription to the dropped ones.
LEMMA DisconnectInv ==
  ASSUME IInv, Disconnect
  PROVE  IInv'
<1> USE DEF IInv, Disconnect, dbVars
<1>1. TypeOK'
  <2>1. dropped' \in SUBSET Topic /\ farSubs' \in SUBSET Topic
    BY DEF TypeOK
  <2>2. connected' \in BOOLEAN
    OBVIOUS
  <2>3. drops' \in Nat
    BY DEF TypeOK
  <2>4. UNCHANGED <<mutex, topics, subDB, pc, job, todo, unrestored, requests,
                    failures>>
    OBVIOUS
  <2> HIDE DEF Disconnect
  <2> QED
    BY <2>1, <2>2, <2>3, <2>4 DEF TypeOK
<1>2. MutexInv'
  BY DEF MutexInv, HoldsMutex, TypeOK, Thread
<1>3. RoleInv'
  BY DEF RoleInv, TypeOK, Thread
<1>4. KeyInv'
  BY DEF KeyInv, TypeOK, Used, Entries
<1>5. JobInv'
  BY DEF JobInv, RoleInv, TypeOK, Used, Entries, Thread, MutexInv, HoldsMutex
<1>6. ExpiryInv'
  BY DEF ExpiryInv, TypeOK, Thread
<1>7. UsedIsSubscribed'
  BY DEF UsedIsSubscribed, TypeOK, Used, Entries
<1>8. ResubscribeCovers'
  BY DEF ResubscribeCovers, TypeOK, Used, Entries, Thread
<1> QED
  BY <1>1, <1>2, <1>3, <1>4, <1>5, <1>6, <1>7, <1>8

\* A new session starts with resubscribeAll() still to come.
LEMMA ReconnectInv ==
  ASSUME IInv, Reconnect
  PROVE  IInv'
<1> USE DEF IInv, Reconnect, dbVars
<1>1. TypeOK'
  BY DEF TypeOK, Thread
<1>2. MutexInv'
  BY DEF MutexInv, HoldsMutex, TypeOK, Thread
<1>3. RoleInv'
  BY DEF RoleInv, TypeOK, Thread
<1>4. KeyInv'
  BY DEF KeyInv, TypeOK, Used, Entries
<1>5. JobInv'
  BY DEF JobInv, RoleInv, TypeOK, Used, Entries, Thread, MutexInv, HoldsMutex
<1>6. ExpiryInv'
  BY DEF ExpiryInv, TypeOK, Thread
<1>7. UsedIsSubscribed'
  BY DEF UsedIsSubscribed, TypeOK, Used, Entries
<1>8. ResubscribeCovers'
  BY DEF ResubscribeCovers, TypeOK, Used, Entries, Thread
<1> QED
  BY <1>1, <1>2, <1>3, <1>4, <1>5, <1>6, <1>7, <1>8

\* The inductive invariant holds in every reachable state, however the threads of
\* the bridge interleave and whatever the far layer does: one case per action.
THEOREM InductiveInvariant == Spec => []IInv
<1>1. Init => IInv
  BY InitInv
<1>2. IInv /\ [Next]_vars => IInv'
  <2> SUFFICES ASSUME IInv, [Next]_vars PROVE IInv'
    OBVIOUS
  <2>1. ASSUME NEW w \in Worker, Request(w) PROVE IInv'
    BY <2>1, SubscribeInv, UnsubscribeInv
    DEF Request, ProcessSubReq, SubscribeLocal, ProcessUnsub, UnsubscribeLocal, Addr
  <2>2. ASSUME NEW th \in Worker \cup {Timer}, RemoveUnused(th) PROVE IInv'
    BY <2>2, RemoveUnusedTopicsInv, FarUnsubscribeSucceedsInv, FarUnsubscribeFailsInv
    DEF RemoveUnused
  <2>3. ASSUME NEW w \in Worker, Proceed(w) PROVE IInv'
    BY <2>2, <2>3, FarSubscribeSucceedsInv, FarSubscribeFailsInv, InsertFirstInv
    DEF Proceed
  <2>4. CASE Tick
    BY <2>2, <2>4, DecrementLifetimesInv, RemoveExpiredEntriesInv DEF Tick
  <2>5. CASE ResubscribeAll
    BY <2>5, SnapshotTopicsInv, ResubscribeInv DEF ResubscribeAll
  <2>6. CASE Disconnect \/ Reconnect
    BY <2>6, DisconnectInv, ReconnectInv
  <2>7. CASE UNCHANGED vars
    <3> USE <2>7 DEF vars, dbVars, farVars
    <3>1. TypeOK' /\ MutexInv' /\ RoleInv'
      BY DEF IInv, TypeOK, MutexInv, HoldsMutex, RoleInv
    <3>2. KeyInv' /\ JobInv' /\ ExpiryInv'
      BY DEF IInv, KeyInv, JobInv, ExpiryInv, Used, Entries
    <3>3. UsedIsSubscribed' /\ ResubscribeCovers'
      BY DEF IInv, UsedIsSubscribed, ResubscribeCovers, Used, Entries
    <3> QED
      BY <3>1, <3>2, <3>3 DEF IInv
  <2> QED
    BY <2>1, <2>3, <2>4, <2>5, <2>6, <2>7 DEF Next
<1> QED
  BY <1>1, <1>2, PTL DEF Spec

\* Every variable of the bridge keeps its type; lifetimes stay in range.
THEOREM TypeCorrect == Spec => []TypeOK
BY InductiveInvariant, PTL DEF IInv

\* A topic with subscribers is subscribed at the far layer or was dropped with a
\* connection: bridge.hpp makes the first entry only after the far layer's yes.
THEOREM UsedTopicsSubscribed == Spec => []UsedIsSubscribed
BY InductiveInvariant, PTL DEF IInv

\* After a reconnection every used topic that is missing at the far layer is still
\* before resubscribeAll(), or its resubscription failed.
THEOREM ReconnectionCovered == Spec => []ResubscribeCovers
BY InductiveInvariant, PTL DEF IInv
------------------------------------------------------------------------------

\* No subscription is removed but by its owner or because its lifetime is used up.
THEOREM RemovalNotPremature == Spec => NoPrematureRemoval
<1> DEFINE Removal ==
      \A t \in Topic, a \in Addr :
        subDB[t][a] # NoEntry /\ subDB'[t][a] = NoEntry =>
          \/ pc[Timer] = "decremented" /\ subDB[t][a] <= 0
          \/ \E w \in Worker : Unsubscribe(w, t, a)
<1>1. IInv /\ [Next]_vars => [Removal]_vars
  <2> SUFFICES ASSUME IInv, Next PROVE Removal
    OBVIOUS
  <2> USE DEF IInv, TypeOK
  <2>1. ASSUME NEW w \in Worker, NEW t \in Topic, NEW a \in Addr, Subscribe(w, t, a)
        PROVE  Removal
    BY <2>1, LifetimeFacts DEF Subscribe, Insert
  <2>2. ASSUME NEW w \in Worker, NEW t \in Topic, NEW a \in Addr, Unsubscribe(w, t, a)
        PROVE  Removal
    <3>1. \A s \in Topic, b \in Addr :
            subDB'[s][b] = IF s = t /\ b = a THEN NoEntry ELSE subDB[s][b]
      BY <2>2 DEF Unsubscribe
    <3> QED
      BY <2>2, <3>1
  <2>3. ASSUME NEW w \in Worker, InsertFirst(w) PROVE Removal
    BY <2>3, LifetimeFacts DEF InsertFirst, Insert, JobInv
  <2>4. CASE DecrementLifetimes
    <3> SUFFICES ASSUME NEW t \in Topic, NEW a \in Addr, subDB[t][a] # NoEntry
                 PROVE  subDB'[t][a] # NoEntry
      OBVIOUS
    <3>1. subDB'[t][a] = Decremented(subDB[t][a])
      BY <2>4 DEF DecrementLifetimes
    <3>2. subDB[t][a] \in Lifetimes
      OBVIOUS
    <3> HIDE DEF IInv, TypeOK
    <3>3. Decremented(subDB[t][a]) \in Int
      BY <3>2 DEF Decremented, Lifetimes
    <3> QED
      BY <3>1, <3>3
  <2>5. CASE RemoveExpiredEntries
    BY <2>5 DEF RemoveExpiredEntries, Expired
  <2>6. ASSUME UNCHANGED subDB PROVE Removal
    BY <2>6
  <2>7. ASSUME NEW w \in Worker, Request(w) PROVE Removal
    BY <2>1, <2>2, <2>7
    DEF Request, ProcessSubReq, SubscribeLocal, ProcessUnsub, UnsubscribeLocal, Addr
  <2>8. ASSUME NEW th \in Worker \cup {Timer}, RemoveUnused(th) PROVE UNCHANGED subDB
    BY <2>8 DEF RemoveUnused, RemoveUnusedTopics, FarUnsubscribeSucceeds,
                FarUnsubscribeFails, dbVars
  <2>9. ASSUME NEW w \in Worker, Proceed(w) PROVE Removal
    BY <2>3, <2>6, <2>8, <2>9
    DEF Proceed, FarSubscribeSucceeds, FarSubscribeFails, dbVars
  <2>10. CASE Tick
    BY <2>4, <2>5, <2>6, <2>8, <2>10 DEF Tick
  <2>11. CASE ResubscribeAll \/ Disconnect \/ Reconnect
    BY <2>6, <2>11 DEF ResubscribeAll, SnapshotTopics, Resubscribe, Disconnect,
                       Reconnect, dbVars
  <2> QED
    BY <2>7, <2>9, <2>10, <2>11 DEF Next
<1> QED
  BY <1>1, InductiveInvariant, PTL DEF Spec, NoPrematureRemoval
------------------------------------------------------------------------------

\* The subscriptions after one entry is written.
LEMMA InsertSubscriptions ==
  ASSUME TypeOK, NEW t \in Topic, NEW a \in Addr, Insert(t, a)
  PROVE  Subscriptions' = Subscriptions \cup {<<t, a>>}
<1>1. \A s \in Topic, b \in Addr :
        subDB'[s][b] = IF s = t /\ b = a THEN Lifetime(a) ELSE subDB[s][b]
  BY DEF TypeOK, Insert
<1>2. ASSUME NEW s \in Topic \X Addr
      PROVE  s \in Subscriptions' <=> s \in Subscriptions \cup {<<t, a>>}
  <2>1. s = <<s[1], s[2]>> /\ s[1] \in Topic /\ s[2] \in Addr
    OBVIOUS
  <2> QED
    BY <1>1, <2>1, LifetimeFacts DEF Subscriptions
<1> QED
  BY <1>2 DEF Subscriptions

\* The subscriptions after entries are removed.
LEMMA RemovalSubscriptions ==
  ASSUME \A t \in Topic, a \in Addr :
           subDB'[t][a] # NoEntry => subDB[t][a] # NoEntry
  PROVE  Subscriptions' \in SUBSET Subscriptions
BY DEF Subscriptions

\* A bridge is a FarInterest: each step joins, leaves, acquires, releases or
\* loses, or changes nothing that FarInterest sees.
THEOREM BridgeImplementsInterest == Spec => ImplementsInterest
<1>1. Init => Interest!Init
  BY DEF Init, Interest!Init, Subscriptions
<1>2. IInv /\ [Next]_vars => [Interest!Next]_(Interest!vars)
  <2> SUFFICES ASSUME IInv, Next PROVE Interest!Next \/ UNCHANGED Interest!vars
    BY DEF vars, dbVars, farVars, Interest!vars, Subscriptions
  <2> USE DEF IInv
  <2>1. ASSUME NEW t \in Topic, NEW a \in Addr, Insert(t, a),
               t \in farSubs \cup dropped, UNCHANGED <<farSubs, dropped>>
        PROVE  Interest!Next
    BY <2>1, InsertSubscriptions DEF Interest!Next, Interest!Join
  <2>2. ASSUME Subscriptions' \in SUBSET Subscriptions, UNCHANGED <<farSubs, dropped>>
        PROVE  Interest!Next
    BY <2>2 DEF Interest!Next, Interest!Leave
  <2>3. ASSUME UNCHANGED <<subDB, farSubs, dropped>> PROVE UNCHANGED Interest!vars
    BY <2>3 DEF Interest!vars, Subscriptions
  <2>4. ASSUME NEW t \in Topic, FarTakes(t), UNCHANGED subDB PROVE Interest!Next
    BY <2>4 DEF FarTakes, Interest!Next, Interest!Acquire, Subscriptions
  <2>5. ASSUME NEW t \in Topic, ~Used(t), FarGivesUp(t), UNCHANGED subDB
        PROVE  Interest!Next
    <3>1. Interest!SubscribersOf(t) = {}
      BY <2>5 DEF Used, Entries, Interest!SubscribersOf, Subscriptions
    <3> QED
      BY <2>5, <3>1 DEF FarGivesUp, Interest!Next, Interest!Release, Subscriptions
  <2>6. ASSUME NEW w \in Worker, NEW t \in Topic, NEW a \in Addr, Subscribe(w, t, a)
        PROVE  Interest!Next \/ UNCHANGED Interest!vars
    BY <2>1, <2>3, <2>6 DEF Subscribe, UsedIsSubscribed, farVars
  <2>7. ASSUME NEW w \in Worker, NEW t \in Topic, NEW a \in Addr, Unsubscribe(w, t, a)
        PROVE  Interest!Next
    <3>1. \A s \in Topic, b \in Addr : subDB'[s][b] # NoEntry => subDB[s][b] # NoEntry
      BY <2>7 DEF Unsubscribe, TypeOK
    <3> QED
      BY <2>2, <2>7, <3>1, RemovalSubscriptions DEF Unsubscribe, farVars
  <2>8. ASSUME NEW w \in Worker, Proceed(w), ~RemoveUnused(w)
        PROVE  Interest!Next \/ UNCHANGED Interest!vars
    <3>1. pc[w] \in {"farSub", "farOk"} =>
            /\ job[w][1] \in Topic /\ job[w][2] \in Addr
            /\ pc[w] = "farOk" => job[w][1] \in farSubs \cup dropped
      BY DEF JobInv
    <3>2. CASE FarSubscribeSucceeds(w)
      BY <2>4, <3>1, <3>2 DEF FarSubscribeSucceeds, dbVars
    <3>3. CASE FarSubscribeFails(w)
      BY <2>3, <2>4, <3>1, <3>3 DEF FarSubscribeFails, dbVars
    <3>4. CASE InsertFirst(w)
      BY <2>1, <3>1, <3>4 DEF InsertFirst, farVars
    <3> QED
      BY <2>8, <3>2, <3>3, <3>4 DEF Proceed
  <2>9. ASSUME NEW th \in Worker \cup {Timer}, RemoveUnused(th)
        PROVE  Interest!Next \/ UNCHANGED Interest!vars
    <3>1. CASE RemoveUnusedTopics(th)
      BY <2>3, <3>1 DEF RemoveUnusedTopics, dbVars, farVars
    <3>2. ASSUME NEW t \in Topic,
                 FarUnsubscribeSucceeds(th, t) \/ FarUnsubscribeFails(th, t)
          PROVE  Interest!Next \/ UNCHANGED Interest!vars
      <4>1. ~Used(t)
        BY <3>2 DEF FarUnsubscribeSucceeds, FarUnsubscribeFails, NextUnused, JobInv
      <4> QED
        BY <2>3, <2>5, <3>2, <4>1
        DEF FarUnsubscribeSucceeds, FarUnsubscribeFails, dbVars
    <3> QED
      BY <2>9, <3>1, <3>2 DEF RemoveUnused
  <2>10. CASE DecrementLifetimes \/ RemoveExpiredEntries
    <3>1. \A t \in Topic, a \in Addr : subDB'[t][a] # NoEntry => subDB[t][a] # NoEntry
      BY <2>10 DEF DecrementLifetimes, Decremented, RemoveExpiredEntries
    <3> QED
      BY <2>2, <2>10, <3>1, RemovalSubscriptions
      DEF DecrementLifetimes, RemoveExpiredEntries, farVars
  <2>11. CASE ResubscribeAll
    BY <2>3, <2>4, <2>11 DEF ResubscribeAll, SnapshotTopics, Resubscribe, dbVars, farVars
  <2>12. CASE Disconnect
    BY <2>12 DEF Disconnect, dbVars, Interest!Next, Interest!Lose, Subscriptions
  <2>13. CASE Reconnect
    BY <2>3, <2>13 DEF Reconnect, dbVars
  <2>14. ASSUME NEW w \in Worker, Request(w)
         PROVE  Interest!Next \/ UNCHANGED Interest!vars
    BY <2>6, <2>7, <2>14
    DEF Request, ProcessSubReq, SubscribeLocal, ProcessUnsub, UnsubscribeLocal, Addr
  <2> QED
    BY <2>8, <2>9, <2>10, <2>11, <2>12, <2>13, <2>14 DEF Next, Tick
<1> QED
  BY <1>1, <1>2, InductiveInvariant, PTL DEF Spec, ImplementsInterest, Interest!Spec
------------------------------------------------------------------------------
(* What is safe about the liveness properties.                             *)

\* Without a lost connection the far layer holds no topic that the database does
\* not know, and resubscribeAll() does not run.
NoLeak == drops = 0 => connected /\ pc[Conn] = "idle" /\ farSubs \subseteq topics

\* Every step keeps that.
LEMMA NoLeakStep ==
  ASSUME IInv, NoLeak, Next
  PROVE  NoLeak'
<1> SUFFICES ASSUME drops' = 0 PROVE connected' /\ pc'[Conn] = "idle" /\ farSubs' \subseteq topics'
  BY DEF NoLeak
<1>0. /\ drops \in Nat
      /\ pc \in [Thread -> {"idle", "farSub", "farOk", "unused", "unsub",
                            "decremented", "connected", "resub"}]
      /\ Conn \in Thread /\ Conn \notin Worker /\ Conn # Timer
  BY DEF IInv, TypeOK, Thread
<1>1. ASSUME NEW w \in Worker, NEW t \in Topic, NEW a \in Addr,
             Subscribe(w, t, a) \/ Unsubscribe(w, t, a)
      PROVE  NoLeak'
  BY <1>0, <1>1 DEF Subscribe, Unsubscribe, BeginRequest, farVars, NoLeak
<1>2. ASSUME NEW w \in Worker, FarSubscribeSucceeds(w) \/ FarSubscribeFails(w) PROVE NoLeak'
  <2>1. job[w][1] \in topics
    BY <1>2 DEF FarSubscribeSucceeds, FarSubscribeFails, IInv, JobInv
  <2> QED
    BY <1>0, <1>2, <2>1 DEF FarSubscribeSucceeds, FarSubscribeFails, FarTakes, EndJob, dbVars, NoLeak
<1>3. ASSUME NEW w \in Worker, InsertFirst(w) PROVE NoLeak'
  BY <1>0, <1>3 DEF InsertFirst, EndJob, farVars, NoLeak
<1>4. ASSUME NEW th \in Worker \cup {Timer}, RemoveUnused(th) PROVE NoLeak'
  <2>1. th # Conn /\ th \in Thread
    BY <1>0 DEF Thread
  <2>2. CASE RemoveUnusedTopics(th)
    BY <1>0, <2>1, <2>2 DEF RemoveUnusedTopics, dbVars, farVars, NoLeak
  <2>3. ASSUME NEW t \in Topic, FarUnsubscribeSucceeds(th, t) PROVE NoLeak'
    BY <1>0, <2>1, <2>3 DEF FarUnsubscribeSucceeds, NextUnused, FarGivesUp, NoLeak
  <2>4. ASSUME NEW t \in Topic, FarUnsubscribeFails(th, t) PROVE NoLeak'
    BY <1>0, <2>1, <2>4 DEF FarUnsubscribeFails, NextUnused, FarGivesUp, dbVars, NoLeak
  <2> QED
    BY <1>4, <2>2, <2>3, <2>4 DEF RemoveUnused
<1>5. CASE DecrementLifetimes \/ RemoveExpiredEntries
  BY <1>0, <1>5 DEF DecrementLifetimes, RemoveExpiredEntries, farVars, NoLeak
<1>6. CASE ResubscribeAll
  BY <1>6 DEF ResubscribeAll, SnapshotTopics, Resubscribe, farVars, NoLeak
<1>7. CASE Disconnect \/ Reconnect
  BY <1>0, <1>7 DEF Disconnect, Reconnect, NoLeak
<1> QED
  BY <1>1, <1>2, <1>3, <1>4, <1>5, <1>6, <1>7
  DEF Next, Request, ProcessSubReq, SubscribeLocal, ProcessUnsub, UnsubscribeLocal, Addr,
      Proceed, Tick, NoLeak

\* What is safe about UnusedIsRemoved: as long as the connection lasts, every topic
\* subscribed at the far layer is in the database, whatever calls fail or take effect
\* unacknowledged, so that the tick finds it when nobody uses it any more. With a
\* reconnection it is not so: resubscribeAll() subscribes topics of its snapshot that
\* have been removed since.
THEOREM NothingLeaks == Spec => [](drops = 0 => farSubs \subseteq topics)
<1>1. Init => NoLeak
  BY DEF Init, NoLeak, Thread
<1>2. IInv /\ NoLeak /\ [Next]_vars => NoLeak'
  <2>1. UNCHANGED vars /\ NoLeak => NoLeak'
    BY DEF vars, dbVars, farVars, NoLeak
  <2> QED
    BY <2>1, NoLeakStep
<1>3. NoLeak => (drops = 0 => farSubs \subseteq topics)
  BY DEF NoLeak
<1> QED
  BY <1>1, <1>2, <1>3, InductiveInvariant, PTL DEF Spec

\* A loop over topics has topics left.
LoopInv == \A th \in Thread : pc[th] \in {"unsub", "resub"} => todo[th] # {}

\* Every step keeps that.
LEMMA LoopStep ==
  ASSUME IInv, LoopInv, Next
  PROVE  LoopInv'
<1> SUFFICES ASSUME NEW u \in Thread, pc'[u] \in {"unsub", "resub"} PROVE todo'[u] # {}
  BY DEF LoopInv
<1>0. /\ pc \in [Thread -> {"idle", "farSub", "farOk", "unused", "unsub",
                            "decremented", "connected", "resub"}]
      /\ todo \in [Thread -> SUBSET Topic]
      /\ Worker \subseteq Thread /\ Timer \in Thread /\ Conn \in Thread
  BY DEF IInv, TypeOK, Thread
<1>00. pc[u] \in {"unsub", "resub"} => todo[u] # {}
  BY DEF LoopInv
<1>1. ASSUME NEW w \in Worker, NEW t \in Topic, NEW a \in Addr,
             Subscribe(w, t, a) \/ Unsubscribe(w, t, a)
      PROVE  todo'[u] # {}
  BY <1>0, <1>00, <1>1 DEF Subscribe, Unsubscribe, BeginRequest
<1>2. ASSUME NEW w \in Worker,
             FarSubscribeSucceeds(w) \/ FarSubscribeFails(w) \/ InsertFirst(w)
      PROVE  todo'[u] # {}
  BY <1>0, <1>00, <1>2 DEF FarSubscribeSucceeds, FarSubscribeFails, InsertFirst, EndJob
<1>3. ASSUME NEW th \in Thread, RemoveUnusedTopics(th) PROVE todo'[u] # {}
  BY <1>0, <1>00, <1>3 DEF RemoveUnusedTopics
<1>4. ASSUME NEW th \in Thread, NEW t \in Topic, NextUnused(th, t) PROVE todo'[u] # {}
  BY <1>0, <1>00, <1>4 DEF NextUnused
<1>5. ASSUME NEW th \in Thread, RemoveUnused(th) PROVE todo'[u] # {}
  BY <1>3, <1>4, <1>5 DEF RemoveUnused, FarUnsubscribeSucceeds, FarUnsubscribeFails
<1>6. CASE DecrementLifetimes \/ RemoveExpiredEntries
  BY <1>0, <1>00, <1>6 DEF DecrementLifetimes, RemoveExpiredEntries
<1>7. CASE SnapshotTopics
  BY <1>0, <1>00, <1>7 DEF SnapshotTopics
<1>8. ASSUME NEW t \in Topic, Resubscribe(t) PROVE todo'[u] # {}
  BY <1>0, <1>00, <1>8 DEF Resubscribe
<1>9. CASE Disconnect \/ Reconnect
  BY <1>0, <1>00, <1>9 DEF Disconnect, Reconnect
<1> QED
  BY <1>0, <1>1, <1>2, <1>5, <1>6, <1>7, <1>8, <1>9
  DEF Next, Request, ProcessSubReq, SubscribeLocal, ProcessUnsub, UnsubscribeLocal, Addr,
      Proceed, Tick, ResubscribeAll

\* The owner of m_mutex is at a call of the far layer that may succeed or fail, at the
\* insertion after it, or at one of the topics it still has to unsubscribe.
OwnerWorks ==
  mutex # Free =>
    \/ mutex \in Worker /\ pc[mutex] \in {"farSub", "farOk"} /\ job[mutex] \in Topic \X Addr
    \/ mutex \in Worker \cup {Timer} /\ pc[mutex] = "unsub" /\ todo[mutex] # {}

\* Nobody keeps m_mutex without work to do: no request, no tick and no reconnection
\* waits for a thread that has come to the end of its loop, and the connected callback,
\* which the far layer may be waiting for, never is the one that holds it.
THEOREM MutexIsWorkedUnder == Spec => []OwnerWorks
<1>1. Init => LoopInv
  BY DEF Init, LoopInv
<1>2. IInv /\ LoopInv /\ [Next]_vars => LoopInv'
  <2>1. UNCHANGED vars /\ LoopInv => LoopInv'
    BY DEF vars, LoopInv
  <2> QED
    BY <2>1, LoopStep
<1>3. IInv /\ LoopInv => OwnerWorks
  <2> SUFFICES ASSUME IInv, LoopInv, mutex # Free PROVE OwnerWorks
    BY DEF OwnerWorks
  <2>1. mutex \in Thread /\ HoldsMutex(mutex)
    BY DEF IInv, TypeOK, MutexInv
  <2>2. CASE mutex \in Worker
    BY <2>1, <2>2 DEF HoldsMutex, IInv, JobInv, LoopInv, OwnerWorks
  <2>3. CASE mutex = Timer
    BY <2>1, <2>3 DEF HoldsMutex, IInv, RoleInv, LoopInv, OwnerWorks
  <2>4. mutex # Conn
    BY <2>1 DEF HoldsMutex, IInv, RoleInv
  <2> QED
    BY <2>1, <2>2, <2>3, <2>4 DEF Thread
<1> QED
  BY <1>1, <1>2, <1>3, InductiveInvariant, PTL DEF Spec
\* No client has more than the lifetime of a subscription left, and none but during a
\* tick has nothing left.
LeaseInv ==
  \A t \in Topic, a \in Client :
    subDB[t][a] # NoEntry =>
      /\ subDB[t][a] <= SubLifetime
      /\ pc[Timer] # "decremented" => subDB[t][a] > 0

\* What is left becomes more only with a request of this client for this topic, and less
\* with every tick.
Renewed(t, a) ==
  \/ \E w \in Worker : Subscribe(w, t, a)
  \/ \E w \in Worker : InsertFirst(w) /\ job[w] = <<t, a>>
RunsOut(t, a) ==
  subDB[t][a] # NoEntry /\ subDB'[t][a] # NoEntry =>
    /\ DecrementLifetimes => subDB'[t][a] = subDB[t][a] - Interval
    /\ subDB'[t][a] > subDB[t][a] => Renewed(t, a)

\* What a step makes of an entry.
LEMMA EntryStep ==
  ASSUME IInv, [Next]_vars, NEW t \in Topic, NEW a \in Addr
  PROVE  \/ subDB'[t][a] = subDB[t][a] /\ ~DecrementLifetimes
         \/ subDB'[t][a] = Lifetime(a) /\ Renewed(t, a)
         \/ subDB'[t][a] = NoEntry
         \/ subDB'[t][a] = Decremented(subDB[t][a]) /\ DecrementLifetimes
<1> DEFINE Step ==
      \/ subDB'[t][a] = subDB[t][a] /\ ~DecrementLifetimes
      \/ subDB'[t][a] = Lifetime(a) /\ Renewed(t, a)
      \/ subDB'[t][a] = NoEntry
      \/ subDB'[t][a] = Decremented(subDB[t][a]) /\ DecrementLifetimes
<1>0. subDB \in [Topic -> [Addr -> Lifetimes \cup {NoEntry}]]
  BY DEF IInv, TypeOK
<1>1. CASE DecrementLifetimes
  BY <1>1 DEF DecrementLifetimes
<1>2. CASE RemoveExpiredEntries /\ ~DecrementLifetimes
  BY <1>2 DEF RemoveExpiredEntries
<1>3. ASSUME ~DecrementLifetimes, NEW w \in Worker, NEW s \in Topic, NEW b \in Addr, Subscribe(w, s, b)
      PROVE  Step
  <2>1. CASE s = t /\ b = a
    BY <1>0, <1>3, <2>1 DEF Subscribe, Insert, Renewed
  <2>2. CASE ~(s = t /\ b = a)
    BY <1>0, <1>3, <2>2 DEF Subscribe, Insert
  <2> QED
    BY <2>1, <2>2
<1>4. ASSUME ~DecrementLifetimes, NEW w \in Worker, NEW s \in Topic, NEW b \in Addr, Unsubscribe(w, s, b)
      PROVE  Step
  BY <1>0, <1>4 DEF Unsubscribe
<1>5. ASSUME ~DecrementLifetimes, NEW w \in Worker, InsertFirst(w)
      PROVE  Step
  <2>1. job[w] \in Topic \X Addr
    BY <1>5 DEF InsertFirst, IInv, JobInv
  <2>2. CASE job[w] = <<t, a>>
    BY <1>0, <1>5, <2>2 DEF InsertFirst, Insert, Renewed
  <2>3. CASE job[w] # <<t, a>>
    BY <1>0, <1>5, <2>1, <2>3 DEF InsertFirst, Insert
  <2> QED
    BY <2>2, <2>3
<1>6. ASSUME ~DecrementLifetimes, subDB' = subDB
      PROVE  Step
  BY <1>6
<1>7. ASSUME NEW w \in Worker, FarSubscribeSucceeds(w) \/ FarSubscribeFails(w)
      PROVE  subDB' = subDB
  BY <1>7 DEF FarSubscribeSucceeds, FarSubscribeFails, dbVars
<1>8. ASSUME NEW th \in Thread, RemoveUnused(th)
      PROVE  subDB' = subDB
  BY <1>8 DEF RemoveUnused, RemoveUnusedTopics, FarUnsubscribeSucceeds, FarUnsubscribeFails, dbVars
<1>9. ResubscribeAll \/ Disconnect \/ Reconnect \/ UNCHANGED vars => subDB' = subDB
  BY DEF ResubscribeAll, SnapshotTopics, Resubscribe, Disconnect, Reconnect, vars, dbVars
<1> QED
  BY <1>1, <1>2, <1>3, <1>4, <1>5, <1>6, <1>7, <1>8, <1>9
  DEF Next, Request, ProcessSubReq, SubscribeLocal, ProcessUnsub, UnsubscribeLocal, Addr,
      Thread, Proceed, Tick

\* What is safe about SilentClientForgotten: if the lifetime of a subscription is not the
\* one that stands for ever, a client never has more than it, every tick takes its
\* interval off, only a request of the client itself gives it more, and with nothing left
\* the entry goes in this very tick.
THEOREM LeasesRunOut ==
  ASSUME SubLifetime # NoExpire
  PROVE  Spec => []LeaseInv /\ [][\A t \in Topic, a \in Client : RunsOut(t, a)]_vars
<1> DEFINE All == \A t \in Topic, a \in Client : RunsOut(t, a)
<1>0. ASSUME IInv, IInv', LeaseInv, [Next]_vars PROVE LeaseInv' /\ All
  <2>1. SUFFICES ASSUME NEW t \in Topic, NEW a \in Client
                 PROVE  /\ subDB'[t][a] # NoEntry => subDB'[t][a] <= SubLifetime
                        /\ RunsOut(t, a)
    <3>1. IInv'
      BY <1>0
    <3>2. \A t \in Topic, a \in Client : subDB'[t][a] # NoEntry => subDB'[t][a] <= SubLifetime
      BY <2>1
    <3> QED
      BY <2>1, <3>1, <3>2 DEF LeaseInv, IInv, ExpiryInv, Addr
  <2> DEFINE x == subDB[t][a]
             y == subDB'[t][a]
  <2>2. a \in Addr /\ a # Local /\ Lifetime(a) = SubLifetime
    BY DEF Addr, Lifetime
  <2>3. \/ y = x /\ ~DecrementLifetimes
        \/ y = SubLifetime /\ Renewed(t, a)
        \/ y = NoEntry
        \/ y = Decremented(x) /\ DecrementLifetimes
    BY <1>0, <2>2, EntryStep
  <2>4. x \in Lifetimes \cup {NoEntry} /\ (x # NoEntry => x <= SubLifetime)
    BY <1>0, <2>2 DEF IInv, TypeOK, LeaseInv
  <2>5. y # NoEntry /\ DecrementLifetimes => y = x - Interval /\ x # NoEntry
    <3>1. DecrementLifetimes => y = Decremented(x)
      BY <1>0, <2>2 DEF DecrementLifetimes, IInv, TypeOK
    <3> HIDE DEF x, y
    <3> QED
      BY <2>4, <3>1 DEF Decremented, Lifetimes
  <2> HIDE DEF x, y
  <2>6. y # NoEntry => y <= SubLifetime
    BY <2>3, <2>4, <2>5 DEF Lifetimes
  <2>7. x # NoEntry /\ y # NoEntry /\ y > x => Renewed(t, a)
    BY <2>3, <2>4, <2>5 DEF Lifetimes
  <2> QED
    BY <2>5, <2>6, <2>7 DEF RunsOut, x, y
<1>1. Init => LeaseInv
  BY DEF Init, LeaseInv, Addr
<1>2. IInv /\ IInv' /\ LeaseInv /\ [Next]_vars => LeaseInv' /\ [All]_vars
  BY <1>0
<1> QED
  BY <1>1, <1>2, InductiveInvariant, PTL DEF Spec
==============================================================================
