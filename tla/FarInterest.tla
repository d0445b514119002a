----------------------------- MODULE FarInterest -----------------------------
(***************************************************************************)
(* What a bridge promises about its upstream ("far layer") subscriptions,  *)
(* without locks, threads or lifetimes: one upstream subscription per      *)
(* topic, shared by every local subscriber of the topic.                   *)
(*                                                                         *)
(*   - nobody joins a topic that was never acquired upstream;              *)
(*   - a topic is released upstream only while it has no subscriber;       *)
(*   - a lost connection forgets every acquired topic at once, and it      *)
(*     stays on the books as dropped until it is acquired again.           *)
(***************************************************************************)
CONSTANTS Topic, Addr

VARIABLES
  subs,       \* the <<topic, address>> pairs that are subscribed
  interest,   \* the topics subscribed upstream
  dropped     \* the topics a lost connection unsubscribed behind our back

vars == <<subs, interest, dropped>>

SubscribersOf(t) == {a \in Addr : <<t, a>> \in subs}

Init == subs = {} /\ interest = {} /\ dropped = {}

Acquire(t) ==
  /\ interest' = interest \cup {t}
  /\ dropped' = dropped \ {t}
  /\ UNCHANGED subs

Join(t, a) ==
  /\ t \in interest \cup dropped
  /\ subs' = subs \cup {<<t, a>>}
  /\ UNCHANGED <<interest, dropped>>

\* Unsubscriptions, and the expiry of any number of subscriptions at once.
Leave ==
  /\ subs' \in SUBSET subs
  /\ UNCHANGED <<interest, dropped>>

Release(t) ==
  /\ SubscribersOf(t) = {}
  /\ interest' = interest \ {t}
  /\ dropped' = dropped \ {t}
  /\ UNCHANGED subs

Lose ==
  /\ interest' = {}
  /\ dropped' = dropped \cup interest
  /\ UNCHANGED subs

Next ==
  \/ \E t \in Topic : Acquire(t) \/ Release(t) \/ \E a \in Addr : Join(t, a)
  \/ Leave
  \/ Lose

Spec == Init /\ [][Next]_vars
==============================================================================
