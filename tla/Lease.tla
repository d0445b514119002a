-------------------------------- MODULE Lease ---------------------------------
(***************************************************************************)
(* A client and its bridge: the subscription of a topic at the bridge is a *)
(* lease that the client renews. Of the bridge only the entries it keeps   *)
(* for this client matter here (Bridge models the rest of it): a request   *)
(* starts the lease again unless the far layer refuses the topic, the      *)
(* bridge's own timer runs it down, and a restarted bridge has forgotten   *)
(* it.                                                                     *)
(*                                                                         *)
(* Both timers have the same period, so their ticks alternate but for the  *)
(* jitter of two ticks that nearly coincide.                               *)
(***************************************************************************)
EXTENDS Client

CONSTANTS
  BridgeLifetime,  \* BridgeConfig::SubDB::subLifetime
  MaxRestarts      \* bound: how often the bridge restarts

ASSUME BridgeAssumption ==
  /\ BridgeLifetime \in Nat \ {0}
  /\ MaxRestarts \in Nat

VARIABLES
  lease,     \* what is left at the bridge of the lifetime of each topic's entry
  phase,     \* how many ticks the client's timer is ahead of the bridge's
  slow,      \* some call or message was under way across a tick
  restarts   \* how often the bridge restarted

vars == <<clientVars, lease, phase, slow, restarts>>

TypeOK ==
  /\ ClientTypeOK
  /\ lease \in [Topic -> 1..BridgeLifetime \cup {NoEntry}]
  /\ phase \in -1..1
  /\ slow \in BOOLEAN
  /\ restarts \in 0..MaxRestarts

Init ==
  /\ ClientInit
  /\ lease = [t \in Topic |-> NoEntry]
  /\ phase = 0
  /\ slow = FALSE
  /\ restarts = 0

Busy == (\E th \in Thread : pc[th] # "idle") \/ (\E m \in Message : inbox[m] > 0)

ClientTick ==
  /\ Tick
  /\ phase < 1 /\ phase' = phase + 1
  /\ slow' = (slow \/ Busy)
  /\ UNCHANGED <<lease, restarts>>

\* Mutant: the bridge drops what it should keep for one more tick.
LeaseLeft_Short(l) == IF l > 2 * Interval THEN l - Interval ELSE NoEntry

\* Mutant: a lease never runs out.
LeaseLeft_Forever(l) == IF l > Interval THEN l - Interval ELSE l

\* Mutant: an entry without lifetime left stays for another tick.
LeaseLeft_Zero(l) == IF l >= Interval THEN l - Interval ELSE NoEntry

LeaseLeft(l) == IF l > Interval THEN l - Interval ELSE NoEntry

BridgeTick ==
  /\ phase > -1 /\ phase' = phase - 1
  /\ lease' = [t \in Topic |-> IF lease[t] = NoEntry THEN NoEntry ELSE LeaseLeft(lease[t])]
  /\ slow' = (slow \/ Busy)
  /\ UNCHANGED <<clientVars, restarts>>

\* Mutant: a request for a topic that has an entry leaves its lifetime as it is.
Stored_First(t) ==
  IF lease[t] = NoEntry THEN lease' = [lease EXCEPT ![t] = BridgeLifetime] ELSE UNCHANGED lease

\* A request starts the lease again. If the topic has no entry the far layer is asked
\* first, and stores nothing if it refuses: the radio has acknowledged the request all
\* the same, and nobody tells the client.
Stored(t) ==
  \/ lease' = [lease EXCEPT ![t] = BridgeLifetime]
  \/ lease[t] = NoEntry /\ UNCHANGED lease

\* Every message is handled by a thread of its own, in whatever order.
Handle(m) ==
  /\ inbox[m] > 0
  /\ inbox' = [inbox EXCEPT ![m] = @ - 1]
  /\ \/ m.type = "SUB_REQ" /\ Stored(m.topic)
     \/ m.type = "UNSUB" /\ lease' = [lease EXCEPT ![m.topic] = NoEntry]
  /\ UNCHANGED <<mutex, entry, pc, topic, todo, ack, lost, phase, slow, restarts>>

Restart ==
  /\ restarts < MaxRestarts
  /\ restarts' = restarts + 1
  /\ lease' = [t \in Topic |-> NoEntry]
  /\ inbox' = [m \in Message |-> 0]
  /\ UNCHANGED <<mutex, entry, pc, topic, todo, ack, lost, phase, slow>>

ClientStep ==
  /\ AppStart \/ ResubscribeAll \/ (\E a \in App : AppStep(a))
     \/ (\E th \in Thread : SendStep(th))
  /\ UNCHANGED <<lease, phase, slow, restarts>>

Next == ClientStep \/ ClientTick \/ BridgeTick \/ (\E m \in Message : Handle(m)) \/ Restart

Spec == Init /\ [][Next]_vars

\* The bridge has an entry for t after it handled a request for it.
Accepted(t) == Handle(SubReq(t)) /\ lease'[t] = BridgeLifetime

\* The timers go on, messages are handled, calls return; nobody has to call.
\* A subscribe request gets through once in MaxLosses + 1 times, and a far layer that
\* is asked for a topic again and again does not refuse it forever.
Fairness ==
  /\ WF_vars(ClientTick) /\ WF_vars(BridgeTick)
  /\ \A m \in Message : WF_vars(Handle(m))
  /\ \A t \in Topic : SF_vars(Accepted(t))
  /\ \A a \in App : WF_vars(AppStep(a) /\ UNCHANGED <<lease, phase, slow, restarts>>)
  /\ \A th \in Thread : WF_vars(SendStep(th) /\ UNCHANGED <<lease, phase, slow, restarts>>)

FairSpec == Spec /\ Fairness
------------------------------------------------------------------------------
(* Properties. *)

\* A subscribe() or unsubscribe() of t has not returned yet.
Calling(t) == \E a \in App : topic[a] = t

\* The client renews in time: unless a call took longer than a tick, the bridge
\* lets the lease of a topic run out only when the client has given it up, even
\* if MaxLosses requests in a row were lost.
ExpiresOnlyIfGivenUp ==
  [][\A t \in Topic :
       phase' < phase /\ lease[t] # NoEntry /\ lease'[t] = NoEntry =>
         entry[t] = NoEntry \/ slow']_vars

\* "extended automatically until unsubscribe() is called": whatever was lost, handled
\* out of order, refused by the far layer, or forgotten in a restart, a topic the client
\* is subscribed to is subscribed at the bridge again. A request that was acknowledged
\* and then refused is repeated only when the client's lifetime has run out.
SubscribedIsServed ==
  \A t \in Topic : entry[t] # NoEntry ~> (lease[t] # NoEntry \/ entry[t] = NoEntry)

\* "If this fails, the timeout on bridge will just expire": what the client has
\* given up does not stay at the bridge.
GivenUpIsForgotten ==
  \A t \in Topic : entry[t] = NoEntry ~> (lease[t] = NoEntry \/ entry[t] # NoEntry \/ Calling(t))
------------------------------------------------------------------------------
(* The inductive invariant behind ExpiresOnlyIfGivenUp. *)

\* The bridge's lifetime leaves room for the client's, for a tick per lost
\* request, for the rounding of the client's lifetime to ticks, and for one tick
\* by which the bridge's timer may be ahead.
Margin == SubLifetime + (MaxLosses + 2) * Interval <= BridgeLifetime

\* Which thread can be where, and who holds m_mutex.
RoleInv ==
  /\ \A a \in App : pc[a] \in {"idle", "subscribing", "unsubscribing"}
  /\ \A th \in {Ticker, Connector} :
       pc[th] \in {"idle", "renew", "renewing"} /\ (mutex = th <=> pc[th] # "idle")
  /\ \A th \in Thread :
       pc[th] \in {"subscribing", "unsubscribing", "renewing"} => topic[th] \in Topic

\* A request that was acknowledged in this tick either waits to be handled or has
\* been: then the lease is as long as can be, unless an UNSUB or a restart ended it.
AckInv ==
  ~slow => \A th \in Thread :
    pc[th] \in {"subscribing", "renewing"} /\ ack[th] =>
      inbox[SubReq(topic[th])] > 0 \/ lease[topic[th]] \in {BridgeLifetime, NoEntry}

\* The running tick has still to send its request for t.
Pending(t) == mutex = Ticker /\ t \in todo /\ ~(pc[Ticker] = "renewing" /\ topic[Ticker] = t)

Time(ticks) == ticks * Interval

\* How long ago, by the client's timer, a request for t reached the bridge at most.
Elapsed(t) ==
  IF entry[t] > 0 THEN SubLifetime - entry[t]
  ELSE IF Pending(t) THEN SubLifetime + Interval - 1 + Time(lost[t])
  ELSE IF lost[t] = 0 THEN 0 ELSE SubLifetime - 1 + Time(lost[t])

\* What the lease has lost since then: the bridge's timer may be ahead.
TimeInv ==
  ~slow => \A t \in Topic :
    entry[t] # NoEntry /\ lease[t] # NoEntry /\ inbox[SubReq(t)] = 0 =>
      lease[t] + Elapsed(t) + Time(1 - phase) >= BridgeLifetime

IInv == TypeOK /\ RoleInv /\ AckInv /\ TimeInv
==============================================================================
